---------------------------- MODULE LifecycleProofs ----------------------------
(***************************************************************************)
(* What the start and stop scripts leave of older copies, and when the pid *)
(* files are right, for any checkouts, pids and look-alikes.               *)
(***************************************************************************)
EXTENDS Lifecycle, TLAPS

\* A script at work knows its checkout.
KnowsDir ==
  \A s \in Scripts : script[s].phase # "idle" => script[s].dir \in Dirs

\* The ghost `same` holds pids of processes that live on.
SameLive ==
  \A s \in Scripts : \A p \in script[s].same : Alive(p)

Inv == TypeOK /\ KnowsDir /\ SameLive

-------------------------------------------------------------------------------
\* The initial states have the invariant.
LEMMA InitInv ==
  ASSUME Init PROVE Inv
BY LifecycleAssumption
   DEF Init, Inv, TypeOK, KnowsDir, SameLive, Idle, Phases, ScriptState, Others

\* The end of some processes changes no type.
LEMMA EndedType ==
  ASSUME TypeOK, NEW P, Ended(P) PROVE script' \in [Scripts -> ScriptState]
<1>1. ASSUME NEW s \in Scripts
      PROVE  [script[s] EXCEPT !.same = script[s].same \ P] \in ScriptState
  <2>1. script[s] \in ScriptState
    BY DEF TypeOK
  <2>2. script[s].same \ P \in SUBSET Pids
    BY <2>1 DEF ScriptState
  <2> QED
    BY <2>1, <2>2 DEF ScriptState
<1> QED
  BY <1>1 DEF Ended

\* A diskwatcher's entry in the process table.
LEMMA ProcessEntry ==
  ASSUME TypeOK, NEW p \in Pids, IsDiskwatcher(p) PROVE proc[p] \in Process
BY DEF TypeOK, IsDiskwatcher

\* A step of a diskwatcher into another stage changes no type.
LEMMA StageType ==
  ASSUME TypeOK, NEW p \in Pids, IsDiskwatcher(p), NEW stage \in Stages,
         Stage(p, stage)
  PROVE  proc' \in [Pids -> Others \cup Process]
<1>1. [proc[p] EXCEPT !.stage = stage] \in Process
  BY ProcessEntry DEF Process
<1> QED
  BY <1>1 DEF Stage, TypeOK

\* Neither does a signal.
LEMMA SignalType ==
  ASSUME TypeOK, NEW P \in SUBSET Pids, NEW s \in Scripts, NEW phase \in Phases,
         Signal(P, s, phase)
  PROVE  TypeOK'
<1> DEFINE hanging == {p \in P : IsDiskwatcher(p) /\ proc[p].hung}
           dying   == P \ hanging
<1>1. ASSUME NEW p \in hanging
      PROVE  [proc[p] EXCEPT !.doomed = TRUE] \in Process
  BY ProcessEntry DEF Process
<1>2. proc' \in [Pids -> Others \cup Process]
  BY <1>1 DEF Signal, TypeOK, Others
<1>3. ASSUME NEW t \in Scripts
      PROVE  [script[t] EXCEPT !.same  = script[t].same \ dying,
                               !.phase = IF t = s THEN phase ELSE script[t].phase]
               \in ScriptState
  <2>1. script[t] \in ScriptState
    BY DEF TypeOK
  <2>2. script[t].same \ dying \in SUBSET Pids
    BY <2>1 DEF ScriptState
  <2>3. (IF t = s THEN phase ELSE script[t].phase) \in Phases
    BY <2>1 DEF ScriptState
  <2> QED
    BY <2>1, <2>2, <2>3 DEF ScriptState
<1>4. script' \in [Scripts -> ScriptState]
  BY <1>3 DEF Signal
<1> QED
  BY <1>2, <1>4 DEF Signal, TypeOK

\* Types are kept.
LEMMA NextType ==
  ASSUME TypeOK, KnowsDir, [Next]_vars PROVE TypeOK'
<1> USE LifecycleAssumption
<1>1. CASE StrangerComes
  BY <1>1 DEF StrangerComes, TypeOK, Alive
<1>2. CASE Dies
  BY <1>2, EndedType DEF Dies, TypeOK, Others
<1>3. CASE Reboot
  BY <1>3 DEF Reboot, TypeOK, Idle, Phases, ScriptState, Others
<1>4. CASE StartsByHand
  BY <1>4 DEF StartsByHand, TypeOK, Diskwatcher, Stages, Process
<1>5. ASSUME NEW s \in Scripts, NEW d \in Dirs,
             NEW kind \in {"start", "keep", "stop"}, Call(s, d, kind)
      PROVE  TypeOK'
  BY <1>5 DEF Call, TypeOK, Phases, ScriptState
<1>6. ASSUME NEW s \in Scripts, ScriptStep(s) PROVE TypeOK'
  <2>0. script[s] \in ScriptState
    BY DEF TypeOK
  <2>1. CASE ReadPidFiles(s)
    <3>1. [script[s] EXCEPT
            !.found = {p \in {pidFile[script[s].dir], legacy[script[s].dir]} \cap Pids :
                         dw_is_diskwatcher(p)},
            !.same  = {p \in Pids : Alive(p)},
            !.phase = "sweeping"] \in ScriptState
      BY <2>0 DEF ScriptState, Phases
    <3> QED
      BY <2>1, <3>1 DEF ReadPidFiles, TypeOK
  <2>2. CASE Sweep(s)
    <3>1. ASSUME NEW P \in SUBSET Pids
          PROVE  [script[s] EXCEPT !.found = script[s].found \cup P, !.phase = "chosen"]
                   \in ScriptState
      <4>1. script[s].found \cup P \in SUBSET Pids
        BY <2>0 DEF ScriptState
      <4> QED
        BY <2>0, <4>1 DEF ScriptState, Phases
    <3> QED
      BY <2>2, <3>1 DEF Sweep, TypeOK
  <2>3. ASSUME NEW phase \in Phases, Goto(s, phase)
        PROVE  script' \in [Scripts -> ScriptState]
    <3>1. [script[s] EXCEPT !.phase = phase] \in ScriptState
      BY <2>0 DEF ScriptState
    <3> QED
      BY <2>3, <3>1 DEF Goto, TypeOK
  <2>4. Idle \in ScriptState
    BY DEF Idle, ScriptState, Phases
  <2>5. CASE Refuse(s) \/ CannotLaunch(s)
    BY <2>4, <2>5 DEF Refuse, CannotLaunch, TypeOK
  <2>6. CASE NothingToStop(s)
    BY <2>3, <2>6 DEF NothingToStop, TypeOK, Phases
  <2>7. CASE CleanUpStale(s)
    BY <2>4, <2>7 DEF CleanUpStale, TypeOK
  <2>8. script[s].found \in SUBSET Pids
    BY <2>0 DEF ScriptState
  <2>9. CASE Terminate(s)
    BY <2>8, <2>9, SignalType DEF Terminate, Phases
  <2>10. CASE AllGone(s)
    <3>1. script' \in [Scripts -> ScriptState]
      BY <2>3, <2>10 DEF AllGone, Phases
    <3> QED
      BY <2>10, <3>1 DEF AllGone, TypeOK
  <2>11. CASE TimeIsUp(s)
    BY <2>8, <2>11, SignalType DEF TimeIsUp, Phases
  <2>12. CASE Clear(s)
    <3>1. CASE script[s].kind = "stop"
      BY <2>4, <2>12, <3>1 DEF Clear, TypeOK
    <3>2. CASE script[s].kind # "stop"
      <4>1. script' \in [Scripts -> ScriptState]
        BY <2>3, <2>12, <3>2 DEF Clear, Phases
      <4> QED
        BY <2>12, <4>1 DEF Clear, TypeOK
    <3> QED
      BY <3>1, <3>2
  <2>13. CASE Launch(s)
    BY <2>4, <2>13 DEF Launch, TypeOK, KnowsDir, Diskwatcher, Stages, Process
  <2> QED
    BY <1>6, <2>1, <2>2, <2>5, <2>6, <2>7, <2>9, <2>10, <2>11, <2>12, <2>13
       DEF ScriptStep
<1>7. ASSUME NEW p \in Pids, ProcessStep(p) PROVE TypeOK'
  <2>1. CASE Fork(p)
    <3>1. ASSUME NEW stage \in Stages
          PROVE  [proc[p] EXCEPT !.stage = stage] \in Process
      BY <2>1, ProcessEntry DEF Fork, Process
    <3>2. proc' \in [Pids -> Others \cup Process]
      BY <2>1, <3>1 DEF Fork, TypeOK, Stages, Others
    <3> QED
      BY <2>1, <3>2, EndedType DEF Fork, TypeOK
  <2>2. CASE WritePidFile(p)
    <3>1. proc[p].dir \in Dirs
      BY <2>2, ProcessEntry DEF WritePidFile, Running, Process
    <3> QED
      BY <2>2, <3>1, StageType DEF WritePidFile, Running, TypeOK, Stages
  <2>3. CASE Hangs(p)
    <3>1. [proc[p] EXCEPT !.hung = TRUE] \in Process
      BY <2>3, ProcessEntry DEF Hangs, Running, Process
    <3> QED
      BY <2>3, <3>1 DEF Hangs, TypeOK
  <2>4. CASE ComesBack(p)
    <3>1. [proc[p] EXCEPT !.hung = FALSE] \in Process
      BY <2>4, ProcessEntry DEF ComesBack, Process
    <3>2. proc' \in [Pids -> Others \cup Process]
      BY <2>4, <3>1 DEF ComesBack, TypeOK, Others
    <3> QED
      BY <2>4, <3>2, EndedType DEF ComesBack, TypeOK
  <2>5. CASE Bind(p)
    BY <2>5, StageType DEF Bind, Running, TypeOK, Stages
  <2>6. CASE GivesUp(p)
    BY <2>6, StageType DEF GivesUp, Running, TypeOK, Stages
  <2>7. CASE StopsServing(p)
    BY <2>7, StageType DEF StopsServing, Running, TypeOK, Stages
  <2>8. CASE Leave(p)
    BY <2>8, EndedType DEF Leave, Running, TypeOK, Others
  <2> QED
    BY <1>7, <2>1, <2>2, <2>3, <2>4, <2>5, <2>6, <2>7, <2>8 DEF ProcessStep
<1>8. CASE UNCHANGED vars
  BY <1>8 DEF vars, TypeOK
<1> QED
  BY <1>1, <1>2, <1>3, <1>4, <1>5, <1>6, <1>7, <1>8 DEF Next

\* A diskwatcher is alive.
LEMMA RecordIsDiskwatcher ==
  ASSUME NEW x \in Process PROVE x \notin Others /\ x # Free
BY LifecycleAssumption DEF Others

\* When some processes end and the others live on, scripts know as much of the
\* others as before.
LEMMA SomeEnd ==
  ASSUME Inv, NEW P,
         \A s \in Scripts :
           /\ script'[s].phase # "idle" => script[s].phase # "idle"
           /\ script'[s].dir = script[s].dir
           /\ script'[s].found = script[s].found
           /\ script'[s].same = script[s].same \ P,
         \A p \in Pids \ P : Alive(p) => Alive(p)'
  PROVE  KnowsDir' /\ SameLive'
<1>1. \A s \in Scripts : script[s].same \subseteq Pids
  BY DEF Inv, TypeOK, ScriptState
<1>2. KnowsDir'
  BY DEF Inv, KnowsDir
<1>3. SameLive'
  BY <1>1 DEF Inv, SameLive
<1> QED
  BY <1>2, <1>3

LEMMA EndedSame ==
  ASSUME Inv, NEW P, Ended(P),
         \A p \in Pids \ P : Alive(p) => Alive(p)'
  PROVE  KnowsDir' /\ SameLive'
<1>1. ASSUME NEW s \in Scripts
      PROVE  /\ script'[s].phase = script[s].phase
             /\ script'[s].dir = script[s].dir
             /\ script'[s].found = script[s].found
             /\ script'[s].same = script[s].same \ P
  BY <1>1 DEF Inv, TypeOK, ScriptState, Ended
<1> QED
  BY <1>1, SomeEnd

\* What a script step and a process step do to the two conjuncts that relate
\* scripts to processes.
LEMMA NextSame ==
  ASSUME Inv, [Next]_vars PROVE KnowsDir' /\ SameLive'
<1> USE LifecycleAssumption DEF Inv, TypeOK, ScriptState
<1> DEFINE Good == KnowsDir' /\ SameLive'
<1>1. CASE StrangerComes
  BY <1>1 DEF StrangerComes, Alive, IsDiskwatcher, KnowsDir, SameLive
<1>2. CASE Dies
  BY <1>2, EndedSame DEF Dies, Alive, IsDiskwatcher
<1>3. CASE Reboot
  BY <1>3 DEF Reboot, Idle, KnowsDir, SameLive
<1>4. CASE StartsByHand
  BY <1>4 DEF StartsByHand, Diskwatcher, Alive, IsDiskwatcher, KnowsDir,
              SameLive
<1>5. ASSUME NEW s \in Scripts, NEW d \in Dirs,
             NEW kind \in {"start", "keep", "stop"}, Call(s, d, kind)
      PROVE  Good
  BY <1>5 DEF Call, Alive, IsDiskwatcher, KnowsDir, SameLive
<1>6. ASSUME NEW s \in Scripts, ScriptStep(s) PROVE Good
  <2>1. CASE ReadPidFiles(s)
    <3>1. /\ script'[s].same = {p \in Pids : Alive(p)}
          /\ script'[s].dir = script[s].dir /\ script[s].phase # "idle"
      <4>1. PICK found, same :
              /\ same = {p \in Pids : Alive(p)}
              /\ script' = [script EXCEPT ![s].found = found, ![s].same = same,
                                          ![s].phase = "sweeping"]
        BY <2>1 DEF ReadPidFiles
      <4>2. script[s].phase = "reading"
        BY <2>1 DEF ReadPidFiles
      <4>3. script[s] \in ScriptState /\ DOMAIN script = Scripts
        OBVIOUS
      <4>4. script'[s] = [script[s] EXCEPT !.found = found, !.same = same,
                                           !.phase = "sweeping"]
        BY <4>1, <4>3
      <4>5. script'[s].same = same /\ script'[s].dir = script[s].dir
        BY <4>3, <4>4
      <4> QED
        BY <4>1, <4>2, <4>5
    <3>2. \A t \in Scripts \ {s} : script'[t] = script[t]
      BY <2>1 DEF ReadPidFiles
    <3>3. proc' = proc
      BY <2>1 DEF ReadPidFiles
    <3> QED
      BY <3>1, <3>2, <3>3 DEF Alive, IsDiskwatcher, KnowsDir, SameLive
  <2>2. CASE Sweep(s)
    BY <2>2 DEF Sweep, dw_is_diskwatcher, Alive, IsDiskwatcher,
                KnowsDir, SameLive
  <2>3. CASE Refuse(s) \/ NothingToStop(s) \/ CleanUpStale(s) \/ AllGone(s)
             \/ Clear(s) \/ CannotLaunch(s)
    BY <2>3 DEF CannotLaunch, Refuse, NothingToStop, CleanUpStale, AllGone, Clear, Goto, Idle,
                Alive, IsDiskwatcher, KnowsDir, SameLive
  <2>4. ASSUME NEW phase \in Phases, phase # "idle", script[s].phase # "idle",
               Signal(script[s].found, s, phase)
        PROVE  Good
    <3> DEFINE P       == script[s].found
               hanging == {p \in P : IsDiskwatcher(p) /\ proc[p].hung}
    <3>1. ASSUME NEW p \in hanging
          PROVE  [proc[p] EXCEPT !.doomed = TRUE] \notin Others
      BY ProcessEntry, RecordIsDiskwatcher DEF Process
    <3>2. \A p \in Pids \ (P \ hanging) : Alive(p) => Alive(p)'
      BY <2>4, <3>1 DEF Signal, Alive, IsDiskwatcher, Others
    <3>3. ASSUME NEW t \in Scripts
          PROVE  /\ script'[t].phase # "idle" => script[t].phase # "idle"
                 /\ script'[t].dir = script[t].dir
                 /\ script'[t].found = script[t].found
                 /\ script'[t].same = script[t].same \ (P \ hanging)
      BY <2>4 DEF Signal
    <3> DEFINE dying == P \ hanging
    <3> HIDE DEF dying
    <3>4. \A p \in Pids \ dying : Alive(p) => Alive(p)'
      BY <3>2 DEF dying
    <3>5. \A t \in Scripts :
             /\ script'[t].phase # "idle" => script[t].phase # "idle"
             /\ script'[t].dir = script[t].dir
             /\ script'[t].found = script[t].found
             /\ script'[t].same = script[t].same \ dying
      BY <3>3 DEF dying
    <3> QED
      BY <3>4, <3>5, SomeEnd
  <2>5. CASE Terminate(s)
    BY <2>4, <2>5 DEF Terminate, Phases
  <2>6. CASE TimeIsUp(s)
    BY <2>4, <2>6 DEF TimeIsUp, Phases
  <2>7. CASE Launch(s)
    BY <2>7 DEF Launch, Diskwatcher, Idle, Alive, IsDiskwatcher, KnowsDir,
                SameLive
  <2> QED
    BY <1>6, <2>1, <2>2, <2>3, <2>5, <2>6, <2>7 DEF ScriptStep
<1>7. ASSUME NEW p \in Pids, ProcessStep(p) PROVE Good
  <2>1. CASE Fork(p)
    <3>1. ASSUME NEW stage \in Stages
          PROVE  [proc[p] EXCEPT !.stage = stage] \notin Others
      BY <2>1, ProcessEntry, RecordIsDiskwatcher DEF Fork, Process
    <3>2. PICK q \in Pids : /\ ~Alive(q)
                           /\ proc' = [proc EXCEPT
                                ![p] = Free,
                                ![q] = [proc[p] EXCEPT !.stage =
                                  IF proc[p].stage = "loading" THEN "child"
                                  ELSE "daemon"]]
      BY <2>1 DEF Fork
    <3> QED
      BY <2>1, <3>1, <3>2, EndedSame DEF Fork, Alive, IsDiskwatcher, Stages
  <2>2. CASE ComesBack(p)
    <3>1. [proc[p] EXCEPT !.hung = FALSE] \notin Others
      BY <2>2, ProcessEntry, RecordIsDiskwatcher DEF ComesBack, Process
    <3>2. CASE proc[p].doomed
      BY <2>2, <3>2, EndedSame DEF ComesBack, Alive, IsDiskwatcher
    <3>3. CASE ~proc[p].doomed
      BY <2>2, <3>1, <3>3 DEF ComesBack, Alive, IsDiskwatcher, KnowsDir, SameLive, Others
    <3> QED
      BY <3>2, <3>3
  <2>3. CASE Leave(p)
    BY <2>3, EndedSame DEF Leave, Alive, IsDiskwatcher
  <2>4. CASE WritePidFile(p) \/ Hangs(p) \/ Bind(p) \/ GivesUp(p) \/ StopsServing(p)
    <3>1. ASSUME NEW stage \in Stages
          PROVE  [proc[p] EXCEPT !.stage = stage] \notin Others
      BY <2>4, ProcessEntry, RecordIsDiskwatcher
         DEF WritePidFile, Hangs, Bind, GivesUp, StopsServing, Running, Process
    <3>2. [proc[p] EXCEPT !.hung = TRUE] \notin Others
      BY <2>4, ProcessEntry, RecordIsDiskwatcher
         DEF WritePidFile, Hangs, Bind, GivesUp, StopsServing, Running, Process
    <3>3. \A q \in Pids : Alive(q) => Alive(q)'
      BY <2>4, <3>1, <3>2 DEF WritePidFile, Hangs, Bind, GivesUp, StopsServing,
                              Stage, Stages, Alive, IsDiskwatcher, Others
    <3>4. script' = script
      BY <2>4 DEF WritePidFile, Hangs, Bind, GivesUp, StopsServing
    <3>5. \A s \in Scripts : script[s].same \subseteq Pids
      OBVIOUS
    <3> QED
      <4>1. KnowsDir'
        BY <3>4 DEF KnowsDir
      <4>2. SameLive'
        BY <3>3, <3>4, <3>5 DEF SameLive
      <4> QED
        BY <4>1, <4>2
  <2> QED
    BY <1>7, <2>1, <2>2, <2>3, <2>4 DEF ProcessStep
<1>8. CASE UNCHANGED vars
  BY <1>8 DEF vars, Alive, IsDiskwatcher, KnowsDir, SameLive
<1> QED
  BY <1>1, <1>2, <1>3, <1>4, <1>5, <1>6, <1>7, <1>8 DEF Next

\* The invariant is inductive.
THEOREM InvHolds == Spec => []Inv
<1>1. Inv /\ [Next]_vars => Inv'
  BY NextType, NextSame DEF Inv
<1> QED
  BY InitInv, <1>1, PTL DEF Spec

\* The variables keep their types.
THEOREM TypeCorrect == Spec => []TypeOK
BY InvHolds, PTL DEF Inv

-------------------------------------------------------------------------------
\* From the sweep to the end of the signals, what ran out of the directory when
\* the script began to look is among what it found; after them it is doomed.
Covered(s) ==
  \A p \in script[s].same : RunsIn(p, script[s].dir) =>
    /\ script[s].phase \in {"chosen", "waiting"} => p \in script[s].found
    /\ script[s].phase \in {"clearing", "launching"} => proc[p].doomed

SweepInv == \A s \in Scripts : Covered(s)

\* A process that lives on stays where it is, and what is doomed stays so.
LEMMA AliveKeeps ==
  ASSUME TypeOK, [Next]_vars, NEW p \in Pids, Alive(p),
         proc'[p] \notin Others
  PROVE  /\ IsDiskwatcher(p)
         /\ proc'[p].dir = proc[p].dir
         /\ proc[p].doomed => proc'[p].doomed
<1> USE DEF TypeOK
<1>1. CASE StrangerComes \/ Dies \/ Reboot \/ StartsByHand
  BY <1>1 DEF StrangerComes, Dies, Reboot, StartsByHand, Alive, IsDiskwatcher, Others
<1>2. CASE proc' = proc
  BY <1>2 DEF IsDiskwatcher
<1>3. ASSUME NEW s \in Scripts, NEW d \in Dirs,
             NEW kind \in {"start", "keep", "stop"}, Call(s, d, kind)
      PROVE  proc' = proc
  BY <1>3 DEF Call
<1>4. ASSUME NEW s \in Scripts, NEW phase \in Phases,
             Signal(script[s].found, s, phase)
      PROVE  /\ IsDiskwatcher(p)
             /\ proc'[p].dir = proc[p].dir
             /\ proc[p].doomed => proc'[p].doomed
  <2>1. CASE p \in script[s].found /\ IsDiskwatcher(p) /\ proc[p].hung
    <3>1. proc'[p] = [proc[p] EXCEPT !.doomed = TRUE]
      BY <1>4, <2>1 DEF Signal
    <3>2. proc[p] \in Process
      BY <2>1, ProcessEntry
    <3> QED
      BY <2>1, <3>1, <3>2 DEF Process
  <2>2. CASE ~(p \in script[s].found /\ IsDiskwatcher(p) /\ proc[p].hung)
    BY <1>4, <2>2 DEF Signal, IsDiskwatcher, Others
  <2> QED
    BY <2>1, <2>2
<1>5. ASSUME NEW s \in Scripts, ScriptStep(s)
      PROVE  /\ IsDiskwatcher(p)
             /\ proc'[p].dir = proc[p].dir
             /\ proc[p].doomed => proc'[p].doomed
  <2>1. CASE Terminate(s) \/ TimeIsUp(s)
    BY <1>4, <2>1 DEF Terminate, TimeIsUp, Phases
  <2>2. CASE Launch(s)
    BY <2>2 DEF Launch, Alive, IsDiskwatcher
  <2>3. CASE ~(Terminate(s) \/ TimeIsUp(s) \/ Launch(s))
    <3>1. proc' = proc
      BY <1>5, <2>3 DEF ScriptStep, ReadPidFiles, Sweep, Refuse, NothingToStop,
                        CleanUpStale, AllGone, Clear, CannotLaunch
    <3> QED
      BY <1>2, <3>1
  <2> QED
    BY <2>1, <2>2, <2>3
<1>6. ASSUME NEW q \in Pids, ProcessStep(q)
      PROVE  /\ IsDiskwatcher(p)
             /\ proc'[p].dir = proc[p].dir
             /\ proc[p].doomed => proc'[p].doomed
  <2>1. CASE Fork(q) \/ Leave(q) \/ (ComesBack(q) /\ proc[q].doomed)
    BY <2>1 DEF Fork, Leave, ComesBack, Alive, IsDiskwatcher, Others
  <2>2. ASSUME IsDiskwatcher(q), NEW stage \in Stages, Stage(q, stage)
        PROVE  /\ IsDiskwatcher(p)
               /\ proc'[p].dir = proc[p].dir
               /\ proc[p].doomed => proc'[p].doomed
    BY <2>2, ProcessEntry DEF Stage, IsDiskwatcher, Process
  <2>3. CASE WritePidFile(q) \/ Bind(q) \/ GivesUp(q) \/ StopsServing(q)
    BY <2>2, <2>3 DEF WritePidFile, Bind, GivesUp, StopsServing, Running, Stages
  <2>4. CASE Hangs(q) \/ (ComesBack(q) /\ ~proc[q].doomed)
    BY <2>4, ProcessEntry DEF Hangs, ComesBack, Running, IsDiskwatcher, Process
  <2> QED
    BY <1>6, <2>1, <2>3, <2>4 DEF ProcessStep
<1>7. CASE UNCHANGED vars
  BY <1>2, <1>7 DEF vars
<1> QED
  BY <1>1, <1>2, <1>3, <1>5, <1>6, <1>7 DEF Next

\* Scripts that only lose what ended keep what they cover.
LEMMA CoveredKept ==
  ASSUME Inv, [Next]_vars, NEW s \in Scripts, Covered(s),
         script'[s].phase = script[s].phase,
         script'[s].dir = script[s].dir,
         script'[s].found = script[s].found,
         script'[s].same \subseteq script[s].same
  PROVE  Covered(s)'
<1> SUFFICES ASSUME NEW p \in script'[s].same, RunsIn(p, script[s].dir)'
             PROVE  /\ script'[s].phase \in {"chosen", "waiting"}
                         => p \in script'[s].found
                    /\ script'[s].phase \in {"clearing", "launching"}
                         => proc'[p].doomed
  BY DEF Covered
<1>1. p \in Pids /\ Alive(p)
  BY DEF Inv, TypeOK, ScriptState, SameLive
<1>2. proc'[p] \notin Others /\ proc'[p].dir = script[s].dir
  BY DEF RunsIn, IsDiskwatcher
<1>3. RunsIn(p, script[s].dir) /\ (proc[p].doomed => proc'[p].doomed)
  BY <1>1, <1>2, AliveKeeps DEF Inv, RunsIn
<1> QED
  BY <1>3 DEF Covered

\* A script with nothing to cover.
LEMMA CoveredEmpty ==
  ASSUME NEW s \in Scripts, script'[s].same = {} PROVE Covered(s)'
BY DEF Covered

\* With lsof, no step of the script itself uncovers a copy.
LEMMA OwnStep ==
  ASSUME Inv, [Next]_vars, HasLsof, NEW s \in Scripts, Covered(s), ScriptStep(s)
  PROVE  Covered(s)'
<1> USE DEF Inv, TypeOK
<1>1. CASE ReadPidFiles(s)
  <2>1. script'[s].phase = "sweeping"
    BY <1>1 DEF ReadPidFiles, ScriptState
  <2> QED
    BY <2>1 DEF Covered
<1>2. CASE Sweep(s)
  <2>1. /\ proc' = proc /\ script'[s].phase = "chosen"
        /\ script'[s].dir = script[s].dir
        /\ script'[s].same = script[s].same /\ script[s].same \subseteq Pids
        /\ \A p \in Pids : IsDiskwatcher(p) /\ RunsIn(p, script[s].dir)
                             => p \in script'[s].found
    BY <1>2 DEF Sweep, dw_is_diskwatcher, ScriptState
  <2> QED
    BY <2>1 DEF Covered, RunsIn, IsDiskwatcher
<1>3. CASE Refuse(s) \/ CleanUpStale(s) \/ CannotLaunch(s) \/ Launch(s)
  <2>1. script'[s] = Idle
    BY <1>3 DEF Refuse, CleanUpStale, CannotLaunch, Launch
  <2> QED
    BY <2>1, CoveredEmpty DEF Idle
<1>4. CASE NothingToStop(s)
  <2>1. /\ proc' = proc /\ script'[s].dir = script[s].dir
        /\ script'[s].same = script[s].same
        /\ script[s].phase = "chosen" /\ script[s].found = {}
    BY <1>4 DEF NothingToStop, Goto, ScriptState
  <2> QED
    BY <2>1 DEF Covered, RunsIn, IsDiskwatcher
<1>5. CASE AllGone(s)
  <2>1. /\ proc' = proc /\ script'[s].dir = script[s].dir
        /\ script'[s].same = script[s].same
        /\ script[s].phase = "waiting"
        /\ \A p \in script[s].found : ~Alive(p)
    BY <1>5 DEF AllGone, Goto, ScriptState
  <2> QED
    BY <2>1 DEF Covered, RunsIn, IsDiskwatcher, SameLive
<1>6. CASE Clear(s)
  <2>1. CASE script[s].kind = "stop"
    BY <1>6, <2>1, CoveredEmpty DEF Clear, Idle
  <2>2. CASE script[s].kind # "stop"
    <3>1. /\ proc' = proc /\ script'[s].dir = script[s].dir
          /\ script'[s].same = script[s].same
          /\ script[s].phase = "clearing" /\ script'[s].phase = "launching"
      BY <1>6, <2>2 DEF Clear, Goto, ScriptState
    <3> QED
      BY <3>1 DEF Covered, RunsIn, IsDiskwatcher
  <2> QED
    BY <2>1, <2>2
<1>7. ASSUME NEW phase \in {"waiting", "clearing"},
             script[s].phase \in {"chosen", "waiting"},
             Signal(script[s].found, s, phase)
      PROVE  Covered(s)'
  <2> DEFINE P       == script[s].found
             hanging == {p \in P : IsDiskwatcher(p) /\ proc[p].hung}
  <2>1. /\ script'[s].phase = phase /\ script'[s].dir = script[s].dir
        /\ script'[s].found = P
        /\ script'[s].same = script[s].same \ (P \ hanging)
        /\ P \subseteq Pids /\ script[s].same \subseteq Pids
    BY <1>7 DEF Signal, ScriptState
  <2> SUFFICES ASSUME NEW p \in script'[s].same, RunsIn(p, script[s].dir)'
               PROVE  p \in P /\ proc'[p].doomed
    BY <2>1 DEF Covered
  <2>2. p \in Pids /\ Alive(p) /\ p \in script[s].same
    BY <2>1 DEF SameLive
  <2>3. proc'[p] \notin Others /\ proc'[p].dir = script[s].dir
    BY <2>1 DEF RunsIn, IsDiskwatcher
  <2>4. RunsIn(p, script[s].dir)
    BY <2>2, <2>3, AliveKeeps DEF RunsIn
  <2>5. p \in P
    BY <1>7, <2>2, <2>4 DEF Covered
  <2>6. p \in hanging
    BY <2>1, <2>5
  <2>7. proc'[p] = [proc[p] EXCEPT !.doomed = TRUE]
    BY <1>7, <2>2, <2>6 DEF Signal
  <2>8. proc[p] \in Process
    BY <2>2, <2>6, ProcessEntry
  <2> QED
    BY <2>5, <2>7, <2>8 DEF Process
<1>8. CASE Terminate(s)
  BY <1>7, <1>8 DEF Terminate
<1>9. CASE TimeIsUp(s)
  BY <1>7, <1>9 DEF TimeIsUp
<1> QED
  BY <1>1, <1>2, <1>3, <1>4, <1>5, <1>6, <1>8, <1>9 DEF ScriptStep

\* The steps of everybody else only take from what a script knows to be the same.
LEMMA OthersStep ==
  ASSUME Inv, [Next]_vars, NEW s \in Scripts, ~ScriptStep(s)
  PROVE  \/ script'[s].same = {}
         \/ /\ script'[s].phase = script[s].phase
            /\ script'[s].dir = script[s].dir
            /\ script'[s].found = script[s].found
            /\ script'[s].same \subseteq script[s].same
<1> USE DEF Inv, TypeOK, ScriptState
<1>1. CASE StrangerComes \/ StartsByHand
  BY <1>1 DEF StrangerComes, StartsByHand
<1>2. CASE Dies \/ Reboot
  BY <1>2 DEF Dies, Ended, Reboot, Idle
<1>3. ASSUME NEW t \in Scripts, NEW d \in Dirs,
             NEW kind \in {"start", "keep", "stop"}, Call(t, d, kind)
      PROVE  \/ script'[s].same = {}
             \/ script'[s] = script[s]
  BY <1>3 DEF Call
<1>4. ASSUME NEW t \in Scripts, ScriptStep(t)
      PROVE  /\ script'[s].phase = script[s].phase
             /\ script'[s].dir = script[s].dir
             /\ script'[s].found = script[s].found
             /\ script'[s].same \subseteq script[s].same
  <2>1. t # s
    BY <1>4
  <2>2. ASSUME NEW phase, Signal(script[t].found, t, phase)
        PROVE  /\ script'[s].phase = script[s].phase
               /\ script'[s].dir = script[s].dir
               /\ script'[s].found = script[s].found
               /\ script'[s].same \subseteq script[s].same
    <3> DEFINE dying == script[t].found \ {p \in script[t].found :
                                             IsDiskwatcher(p) /\ proc[p].hung}
    <3>1. script'[s] = [script[s] EXCEPT !.same  = script[s].same \ dying,
                                         !.phase = script[s].phase]
      BY <2>1, <2>2 DEF Signal
    <3> QED
      BY <3>1
  <2>3. CASE ~(Terminate(t) \/ TimeIsUp(t))
    <3>1. script'[s] = script[s]
      BY <1>4, <2>1, <2>3 DEF ScriptStep, ReadPidFiles, Sweep, Refuse,
           NothingToStop, CleanUpStale, AllGone, Clear, CannotLaunch, Launch, Goto
    <3> QED
      BY <3>1
  <2> QED
    BY <2>2, <2>3 DEF Terminate, TimeIsUp
<1>5. ASSUME NEW p \in Pids, ProcessStep(p)
      PROVE  /\ script'[s].phase = script[s].phase
             /\ script'[s].dir = script[s].dir
             /\ script'[s].found = script[s].found
             /\ script'[s].same \subseteq script[s].same
  BY <1>5 DEF ProcessStep, Fork, WritePidFile, Hangs, ComesBack, Bind, GivesUp,
              StopsServing, Leave, Ended
<1>6. CASE UNCHANGED vars
  BY <1>6 DEF vars
<1> QED
  BY <1>1, <1>2, <1>3, <1>4, <1>5, <1>6 DEF Next

\* With lsof, every copy that runs out of the directory when a start or a stop
\* begins to look has ended after its signals, or ends as soon as the kernel
\* lets it: whatever the pid files say and however many scripts run.
THEOREM OldCopiesAreGone == HasLsof => (Spec => []OldCopiesEnd)
<1> SUFFICES ASSUME HasLsof PROVE Spec => []OldCopiesEnd
  OBVIOUS
<1>1. Init => SweepInv
  BY CoveredEmpty DEF Init, SweepInv, Covered, Idle
<1>2. Inv /\ SweepInv /\ [Next]_vars => SweepInv'
  <2> SUFFICES ASSUME Inv, SweepInv, [Next]_vars, NEW s \in Scripts
               PROVE  Covered(s)'
    BY DEF SweepInv
  <2>1. CASE ScriptStep(s)
    BY <2>1, OwnStep DEF SweepInv
  <2>2. CASE ~ScriptStep(s)
    <3>1. CASE script'[s].same = {}
      BY <3>1, CoveredEmpty
    <3>2. CASE script'[s].same # {}
      <4>1. Covered(s)
        BY DEF SweepInv
      <4> QED
        BY <2>2, <3>2, <4>1, OthersStep, CoveredKept
    <3> QED
      BY <3>1, <3>2
  <2> QED
    BY <2>1, <2>2
<1>3. SweepInv => OldCopiesEnd
  BY DEF SweepInv, Covered, OldCopiesEnd
<1> QED
  BY InvHolds, <1>1, <1>2, <1>3, PTL DEF Spec

-------------------------------------------------------------------------------
\* The setting in which pid files are right: scripts run one at a time, each
\* after the last start has forked; lsof is there; daemons are started by scripts.
OneAtATime ==
  /\ HasLsof /\ Patient
  /\ ByHand \subseteq {"foreground"}
  /\ \A s, t \in Scripts : s = t

\* A daemon of a checkout that no signal waits for, and one past write_pid_file.
Live(p, d) == RunsIn(p, d) /\ proc[p].daemon /\ ~proc[p].doomed
HasWritten(p) == proc[p].stage \in {"polling", "serving", "leaving"}

\* Only what hangs outlives a signal, and only daemons write the pid file.
Doomed(p) == IsDiskwatcher(p) /\ proc[p].doomed => proc[p].hung
Writers(p) == IsDiskwatcher(p) /\ ~HasWritten(p) => proc[p].daemon

\* One daemon of a checkout, and it has its name in the file.
OneLive ==
  \A d \in Dirs : \A p \in Pids : Live(p, d) =>
    /\ \A q \in Pids : Live(q, d) => p = q
    /\ HasWritten(p) => pidFile[d] = p

\* While a script runs nothing forks, and once it has swept the process table it
\* has found the daemons of its checkout; after its signals there are none.
Swept(s) ==
  /\ script[s].phase # "idle" => \A p \in Pids : Forked(p)
  /\ script[s].phase = "chosen" =>
       \A p \in Pids : Live(p, script[s].dir) => p \in script[s].found
  /\ script[s].phase \in {"waiting", "clearing", "launching"} =>
       \A p \in Pids : ~Live(p, script[s].dir)

\* The inductive invariant.
NamedInv ==
  /\ \A p \in Pids : Doomed(p) /\ Writers(p)
  /\ OneLive
  /\ \A s \in Scripts : Swept(s)

\* A process that is a diskwatcher after a step is a new copy in the foreground, or
\* it was one before, in the same place and of the same kind.
Stays(p) ==
  /\ IsDiskwatcher(p)
  /\ proc'[p].dir = proc[p].dir /\ proc'[p].daemon = proc[p].daemon
  /\ proc[p].doomed => proc'[p].doomed
  /\ proc'[p].doomed => proc'[p].hung
  /\ HasWritten(p)' <=> HasWritten(p)
  /\ Forked(p) => Forked(p)'

Keeps(p) ==
  IsDiskwatcher(p)' =>
    \/ ~proc'[p].daemon /\ HasWritten(p)' /\ ~proc'[p].doomed
    \/ Stays(p)

\* What stays live was live before.
LEMMA LiveBefore ==
  ASSUME NEW p \in Pids, NEW d, Keeps(p), Live(p, d)'
  PROVE  Live(p, d) /\ Stays(p)
BY DEF Keeps, Stays, Live, RunsIn, IsDiskwatcher

\* Where all processes are kept, and no file is touched of a checkout with a live
\* daemon, files stay right.
LEMMA OneLiveKept ==
  ASSUME NamedInv, \A p \in Pids : Keeps(p),
         \A d \in Dirs : pidFile'[d] = pidFile[d] \/ \A p \in Pids : ~Live(p, d)'
  PROVE  (\A p \in Pids : Doomed(p)' /\ Writers(p)') /\ OneLive'
<1>1. ASSUME NEW p \in Pids
      PROVE  Doomed(p)' /\ Writers(p)'
  BY <1>1 DEF NamedInv, Keeps, Stays, Doomed, Writers, IsDiskwatcher
<1>2. ASSUME NEW d \in Dirs, NEW p \in Pids, Live(p, d)'
      PROVE  /\ \A q \in Pids : Live(q, d)' => p = q
             /\ HasWritten(p)' => pidFile'[d] = p
  <2>1. Live(p, d) /\ Stays(p)
    BY <1>2, LiveBefore
  <2>2. ASSUME NEW q \in Pids, Live(q, d)' PROVE p = q
    <3>1. Live(q, d)
      BY <2>2, LiveBefore
    <3> QED
      BY <2>1, <3>1 DEF NamedInv, OneLive
  <2>3. pidFile'[d] = pidFile[d]
    BY <1>2
  <2>4. HasWritten(p)' => pidFile'[d] = p
    BY <2>1, <2>3 DEF NamedInv, OneLive, Stays
  <2> QED
    BY <2>2, <2>4
<1> QED
  BY <1>1, <1>2 DEF OneLive

\* So do scripts with what they have found.
LEMMA SweptKept ==
  ASSUME NamedInv, NEW s \in Scripts, \A p \in Pids : Keeps(p),
         script'[s].phase = script[s].phase, script'[s].dir = script[s].dir,
         script'[s].found = script[s].found
  PROVE  Swept(s)'
<1>1. ASSUME NEW p \in Pids, Forked(p) PROVE Forked(p)'
  BY <1>1 DEF Keeps, Stays, Forked, HasWritten, IsDiskwatcher
<1>2. PICK d : d = script[s].dir
  OBVIOUS
<1>3. \A p \in Pids : Live(p, d)' => Live(p, d)
  BY LiveBefore
<1>4. \A p \in Pids : /\ Live(p, script[s].dir)' => Live(p, d)'
                      /\ Live(p, d) => Live(p, script[s].dir)
  BY <1>2 DEF Live, RunsIn, IsDiskwatcher
<1>5. Swept(s)
  BY DEF NamedInv
<1>6. \A p \in Pids : Live(p, script[s].dir)' => Live(p, script[s].dir)
  BY <1>3, <1>4
<1> QED
  BY <1>1, <1>5, <1>6 DEF Swept

LEMMA SweptIdle ==
  ASSUME NEW s \in Scripts, script'[s].phase = "idle" PROVE Swept(s)'
BY DEF Swept

\* What leaves the process table alone keeps all processes.
LEMMA SameProcesses ==
  ASSUME NamedInv, proc' = proc PROVE \A p \in Pids : Keeps(p)
BY DEF NamedInv, Doomed, Keeps, Stays, HasWritten, Forked, IsDiskwatcher

\* A signal leaves nothing live among those that it is sent to.
LEMMA SignalKeeps ==
  ASSUME Inv, NamedInv, NEW P \in SUBSET Pids, NEW s \in Scripts, NEW phase,
         Signal(P, s, phase)
  PROVE  /\ \A p \in Pids : Keeps(p)
         /\ \A p \in P : \A d : ~Live(p, d)'
<1> DEFINE hanging == {p \in P : IsDiskwatcher(p) /\ proc[p].hung}
<1>1. ASSUME NEW p \in hanging
      PROVE  Stays(p) /\ proc'[p].doomed
  <2>1. proc[p] \in Process /\ proc'[p] = [proc[p] EXCEPT !.doomed = TRUE]
    BY ProcessEntry DEF Signal, Inv
  <2> QED
    BY <2>1 DEF Stays, HasWritten, Forked, IsDiskwatcher, Process
<1>2. ASSUME NEW p \in P \ hanging
      PROVE  ~IsDiskwatcher(p)'
  BY DEF Signal, IsDiskwatcher, Others
<1>3. ASSUME NEW p \in Pids \ P
      PROVE  Keeps(p)
  <2>1. proc'[p] = proc[p]
    BY DEF Signal
  <2> QED
    BY <2>1 DEF NamedInv, Doomed, Keeps, Stays, HasWritten, Forked, IsDiskwatcher
<1>4. \A p \in Pids : Keeps(p)
  BY <1>1, <1>2, <1>3 DEF Keeps
<1>5. \A p \in P : \A d : ~Live(p, d)'
  BY <1>1, <1>2 DEF Live, RunsIn
<1> QED
  BY <1>4, <1>5

\* Steps of processes that fork nothing, write no pid file and remove none.
LEMMA ProcessKeeps ==
  ASSUME Inv, NamedInv, OneAtATime,
         \/ StrangerComes \/ Dies \/ Reboot \/ StartsByHand
         \/ \E p \in Pids : \/ Hangs(p) \/ ComesBack(p) \/ Bind(p) \/ GivesUp(p)
                            \/ StopsServing(p) \/ Leave(p)
  PROVE  \A q \in Pids : Keeps(q)
<1> SUFFICES ASSUME NEW q \in Pids, IsDiskwatcher(q)' PROVE Keeps(q)
  BY DEF Keeps
<1>0. proc \in [Pids -> Others \cup Process]
  BY DEF Inv, TypeOK
<1>1. ASSUME proc'[q] = proc[q] PROVE Keeps(q)
  BY <1>1 DEF NamedInv, Doomed, Keeps, Stays, HasWritten, Forked, IsDiskwatcher
<1>2. CASE StrangerComes \/ Dies \/ Reboot
  BY <1>0, <1>1, <1>2 DEF StrangerComes, Dies, Reboot, IsDiskwatcher, Others
<1>3. CASE StartsByHand
  <2>1. PICK p \in Pids, d \in Dirs, how \in ByHand :
          proc' = [proc EXCEPT ![p] = Diskwatcher(d, IF how = "daemon" THEN "loading"
                                                     ELSE "polling", how = "daemon")]
    BY <1>3 DEF StartsByHand
  <2>2. how = "foreground"
    BY DEF OneAtATime
  <2>3. CASE p = q
    BY <1>0, <2>1, <2>2, <2>3 DEF Diskwatcher, Keeps, HasWritten
  <2> QED
    BY <1>0, <1>1, <2>1, <2>3
<1>4. ASSUME NEW p \in Pids, NEW stage \in {"serving", "leaving"}, IsDiskwatcher(p),
             proc[p].stage \in {"polling", "serving"}, Stage(p, stage)
      PROVE  Keeps(q)
  <2>1. CASE p = q
    <3>1. proc[p] \in Process /\ proc'[p] = [proc[p] EXCEPT !.stage = stage]
      BY <1>0, <1>4, ProcessEntry DEF Inv, Stage
    <3> QED
      BY <1>4, <2>1, <3>1
         DEF NamedInv, Doomed, Keeps, Stays, HasWritten, Forked, IsDiskwatcher, Process
  <2> QED
    BY <1>0, <1>1, <1>4, <2>1 DEF Stage
<1>5. ASSUME NEW p \in Pids, Bind(p) \/ GivesUp(p) \/ StopsServing(p) PROVE Keeps(q)
  BY <1>4, <1>5 DEF Bind, GivesUp, StopsServing, Running
<1>6. ASSUME NEW p \in Pids, NEW hung \in BOOLEAN, IsDiskwatcher(p),
             ~hung => ~proc[p].doomed, proc' = [proc EXCEPT ![p].hung = hung]
      PROVE  Keeps(q)
  <2>1. CASE p = q
    <3>1. proc[p] \in Process /\ proc'[p] = [proc[p] EXCEPT !.hung = hung]
      BY <1>0, <1>6, ProcessEntry DEF Inv
    <3> QED
      BY <1>6, <2>1, <3>1
         DEF Keeps, Stays, HasWritten, Forked, IsDiskwatcher, Process
  <2> QED
    BY <1>0, <1>1, <1>6, <2>1
<1>7. ASSUME NEW p \in Pids, proc' = [proc EXCEPT ![p] = Free] PROVE Keeps(q)
  BY <1>0, <1>1, <1>7 DEF IsDiskwatcher, Others
<1>8. ASSUME NEW p \in Pids, Hangs(p) \/ ComesBack(p) \/ Leave(p) PROVE Keeps(q)
  BY <1>6, <1>7, <1>8 DEF Hangs, ComesBack, Leave, Running
<1> QED
  BY <1>2, <1>3, <1>5, <1>8

LEMMA ProcessNamed ==
  ASSUME Inv, NamedInv, OneAtATime,
         \/ StrangerComes \/ Dies \/ Reboot \/ StartsByHand
         \/ \E p \in Pids : \/ Hangs(p) \/ ComesBack(p) \/ Bind(p) \/ GivesUp(p)
                            \/ StopsServing(p) \/ Leave(p)
  PROVE  NamedInv'
<1>1. \A p \in Pids : Keeps(p)
  BY ProcessKeeps
<1>2. ASSUME NEW d \in Dirs
      PROVE  pidFile'[d] = pidFile[d] \/ \A q \in Pids : ~Live(q, d)'
  <2>1. CASE pidFile' = pidFile
    BY <2>1
  <2>2. ASSUME NEW p \in Pids, Leave(p)
        PROVE  pidFile'[d] = pidFile[d] \/ \A q \in Pids : ~Live(q, d)'
    <3>1. CASE ~(proc[p].daemon /\ d = proc[p].dir)
      BY <2>2, <3>1 DEF Leave
    <3>2. CASE proc[p].daemon /\ d = proc[p].dir
      <4>1. Live(p, d)
        BY <2>2, <3>2 DEF Leave, Running, NamedInv, Doomed, Live, RunsIn
      <4>2. proc'[p] = Free
        BY <2>2 DEF Leave, Inv, TypeOK
      <4>3. \A q \in Pids : Live(q, d)' => q = p
        BY <1>1, <4>1, LiveBefore DEF NamedInv, OneLive
      <4> QED
        BY <4>2, <4>3 DEF Live, RunsIn, IsDiskwatcher, Others
    <3> QED
      BY <3>1, <3>2
  <2> QED
    BY <2>1, <2>2 DEF StrangerComes, Dies, Reboot, StartsByHand, Hangs, ComesBack,
                      Bind, GivesUp, StopsServing
<1>3. ASSUME NEW s \in Scripts
      PROVE  \/ script'[s].phase = "idle"
             \/ /\ script'[s].phase = script[s].phase /\ script'[s].dir = script[s].dir
                /\ script'[s].found = script[s].found
  <2>1. script[s] \in ScriptState
    BY DEF Inv, TypeOK
  <2> QED
    BY <2>1 DEF StrangerComes, Dies, Reboot, StartsByHand, Hangs, ComesBack, Bind, GivesUp,
                StopsServing, Leave, Ended, Idle, ScriptState
<1>4. \A s \in Scripts : Swept(s)'
  BY <1>1, <1>3, SweptKept, SweptIdle
<1> QED
  BY <1>1, <1>2, <1>4, OneLiveKept DEF NamedInv

\* A fork passes the one live daemon on to another pid; no script runs meanwhile.
LEMMA ForkNamed ==
  ASSUME Inv, NamedInv, NEW p \in Pids, Fork(p)
  PROVE  NamedInv'
<1>0. proc[p] \in Process /\ IsDiskwatcher(p) /\ proc[p].stage \in {"loading", "child"}
  BY ProcessEntry DEF Inv, Fork
<1>1. PICK q \in Pids, stage \in {"child", "daemon"} :
        /\ ~Alive(q)
        /\ proc' = [proc EXCEPT ![p] = Free, ![q] = [proc[p] EXCEPT !.stage = stage]]
  BY DEF Fork
<1>2. /\ proc'[p] = Free /\ proc'[q] = [proc[p] EXCEPT !.stage = stage]
      /\ \A r \in Pids \ {p, q} : proc'[r] = proc[r]
  BY <1>0, <1>1 DEF Inv, TypeOK, Alive, IsDiskwatcher
<1>3. /\ proc'[q].dir = proc[p].dir /\ proc'[q].daemon = proc[p].daemon
      /\ proc'[q].hung = proc[p].hung /\ proc'[q].doomed = proc[p].doomed
      /\ ~HasWritten(q)'
  BY <1>0, <1>2 DEF Process, HasWritten
<1>4. proc[p].daemon /\ (proc[p].doomed => proc[p].hung)
  BY <1>0 DEF NamedInv, Doomed, Writers, HasWritten
<1>5. ASSUME NEW r \in Pids PROVE Doomed(r)' /\ Writers(r)'
  <2>1. CASE r = q
    BY <1>3, <1>4, <2>1 DEF Doomed, Writers
  <2>2. CASE r # q
    BY <1>2, <2>2 DEF NamedInv, Doomed, Writers, IsDiskwatcher, HasWritten, Others
  <2> QED
    BY <2>1, <2>2
<1>6. ASSUME NEW d \in Dirs, NEW r \in Pids, Live(r, d)'
      PROVE  IF r = q THEN Live(p, d) ELSE Live(r, d) /\ r # p /\ proc'[r] = proc[r]
  <2>1. CASE r = q
    BY <1>0, <1>3, <1>6, <2>1 DEF Live, RunsIn
  <2>2. CASE r # q
    BY <1>2, <1>6, <2>2 DEF Live, RunsIn, IsDiskwatcher, Others
  <2> QED
    BY <2>1, <2>2
<1>7. ASSUME NEW d \in Dirs, NEW r \in Pids, Live(r, d)'
      PROVE  /\ \A t \in Pids : Live(t, d)' => r = t
             /\ HasWritten(r)' => pidFile'[d] = r
  <2>1. \A t \in Pids : Live(t, d)' => r = t
    BY <1>6, <1>7 DEF NamedInv, OneLive
  <2>2. CASE r = q
    BY <1>3, <2>1, <2>2
  <2>3. CASE r # q
    <3>1. Live(r, d) /\ proc'[r] = proc[r] /\ pidFile' = pidFile
      BY <1>6, <1>7, <2>3 DEF Fork
    <3> QED
      BY <2>1, <3>1 DEF NamedInv, OneLive, HasWritten
  <2> QED
    BY <2>2, <2>3
<1>8. ASSUME NEW s \in Scripts PROVE Swept(s)'
  <2>1. script[s].phase = "idle"
    BY <1>0 DEF NamedInv, Swept, Forked
  <2>2. script'[s].phase = script[s].phase
    BY DEF Fork, Ended, Inv, TypeOK, ScriptState
  <2> QED
    BY <2>1, <2>2, SweptIdle
<1> QED
  BY <1>5, <1>7, <1>8 DEF NamedInv, OneLive

\* Who writes the file is the live daemon.
LEMMA WriteNamed ==
  ASSUME Inv, NamedInv, NEW p \in Pids, WritePidFile(p)
  PROVE  NamedInv'
<1>9. PICK home : home = proc[p].dir
  OBVIOUS
<1>0. /\ proc[p] \in Process /\ IsDiskwatcher(p) /\ proc[p].stage = "daemon"
      /\ ~proc[p].hung
  BY ProcessEntry DEF Inv, WritePidFile, Running
<1>1. /\ proc'[p] = [proc[p] EXCEPT !.stage = "polling"]
      /\ \A r \in Pids \ {p} : proc'[r] = proc[r]
  BY DEF WritePidFile, Stage, Inv, TypeOK
<1>2. /\ IsDiskwatcher(p)' /\ proc'[p].dir = home
      /\ proc'[p].daemon = proc[p].daemon /\ proc'[p].hung = proc[p].hung
      /\ proc'[p].doomed = proc[p].doomed /\ proc'[p].stage = "polling"
  <2>1. proc'[p] \in Process
    BY <1>0, <1>1 DEF Process, Stages
  <2> QED
    BY <1>9, <1>0, <1>1, <2>1, RecordIsDiskwatcher DEF IsDiskwatcher, Process
<1>3. home \in Dirs /\ Live(p, home) /\ Live(p, home)' /\ pidFile'[home] = p
  BY <1>9, <1>0, <1>2 DEF WritePidFile, NamedInv, Doomed, Writers, HasWritten, Live, RunsIn,
                    Inv, TypeOK, Process
<1>4. \A d \in Dirs \ {home} : pidFile'[d] = pidFile[d]
  BY <1>9 DEF WritePidFile, Inv, TypeOK
<1>5. ASSUME NEW r \in Pids PROVE \A d : Live(r, d)' => Live(r, d)
  <2>1. CASE r = p
    BY <1>9, <1>0, <1>2, <2>1 DEF Live, RunsIn
  <2>2. CASE r # p
    BY <1>1, <2>2 DEF Live, RunsIn, IsDiskwatcher
  <2> QED
    BY <2>1, <2>2
<1>6. ASSUME NEW r \in Pids PROVE Doomed(r)' /\ Writers(r)'
  <2>1. Doomed(r) /\ Writers(r)
    BY DEF NamedInv
  <2>2. CASE r = p
    BY <1>0, <1>2, <2>1, <2>2 DEF Doomed, Writers, HasWritten
  <2>3. CASE r # p
    BY <1>1, <2>1, <2>3 DEF Doomed, Writers, IsDiskwatcher, HasWritten
  <2> QED
    BY <2>2, <2>3
<1>7. ASSUME NEW d \in Dirs, NEW r \in Pids, Live(r, d)'
      PROVE  /\ \A t \in Pids : Live(t, d)' => r = t
             /\ HasWritten(r)' => pidFile'[d] = r
  <2>1. /\ \A t \in Pids : Live(t, d)' => r = t
        /\ HasWritten(r) => pidFile[d] = r
    BY <1>5, <1>7 DEF NamedInv, OneLive
  <2>2. CASE d = home
    BY <1>3, <2>1, <2>2
  <2>3. CASE d # home
    <3>1. r # p
      BY <1>2, <1>7, <2>3 DEF Live, RunsIn
    <3>2. HasWritten(r)' => HasWritten(r)
      BY <1>1, <3>1 DEF HasWritten
    <3> QED
      BY <1>4, <2>1, <2>3, <3>2
  <2> QED
    BY <2>2, <2>3
<1>8. ASSUME NEW s \in Scripts PROVE Swept(s)'
  <2>1. script' = script
    BY DEF WritePidFile
  <2>2. \A r \in Pids : Forked(r) => Forked(r)'
    BY <1>1, <1>2 DEF Forked, IsDiskwatcher
  <2>3. PICK d : d = script[s].dir
    OBVIOUS
  <2>4. \A r \in Pids : /\ Live(r, script[s].dir)' => Live(r, d)'
                        /\ Live(r, d) => Live(r, script[s].dir)
    BY <2>1, <2>3 DEF Live, RunsIn, IsDiskwatcher
  <2>5. \A r \in Pids : Live(r, script[s].dir)' => Live(r, script[s].dir)
    BY <1>5, <2>4
  <2> QED
    BY <2>1, <2>2, <2>5 DEF NamedInv, Swept
<1> QED
  BY <1>6, <1>7, <1>8 DEF NamedInv, OneLive

\* No step of the process table, and files as they were or of a checkout with no
\* live daemon.
LEMMA ScriptKeeps ==
  ASSUME NamedInv, \A p \in Pids : Keeps(p),
         \A d \in Dirs : pidFile'[d] = pidFile[d] \/ \A p \in Pids : ~Live(p, d)',
         NEW s \in Scripts, Swept(s)', \A t \in Scripts : t = s
  PROVE  NamedInv'
<1>1. \A t \in Scripts : Swept(t)'
  OBVIOUS
<1> QED
  BY <1>1, OneLiveKept DEF NamedInv

LEMMA LaunchNamed ==
  ASSUME Inv, NamedInv, NEW s \in Scripts, \A t \in Scripts : t = s, Launch(s)
  PROVE  NamedInv'
<1>1. PICK d : d = script[s].dir
  OBVIOUS
<1>2. PICK p \in Pids : /\ ~Alive(p)
                        /\ proc' = [proc EXCEPT ![p] = Diskwatcher(d, "loading", TRUE)]
  BY <1>1 DEF Launch
<1>3. /\ proc'[p] = Diskwatcher(d, "loading", TRUE) /\ ~IsDiskwatcher(p)
      /\ \A r \in Pids \ {p} : proc'[r] = proc[r]
  BY <1>2 DEF Inv, TypeOK, Alive, IsDiskwatcher, Others
<1>4. \A r \in Pids : ~Live(r, d)
  BY <1>1 DEF NamedInv, Swept, Launch, Live, RunsIn
<1>5. ASSUME NEW r \in Pids PROVE Doomed(r)' /\ Writers(r)'
  <2>1. CASE r = p
    BY <1>3, <2>1 DEF Doomed, Writers, Diskwatcher
  <2>2. CASE r # p
    BY <1>3, <2>2 DEF NamedInv, Doomed, Writers, IsDiskwatcher, HasWritten
  <2> QED
    BY <2>1, <2>2
<1>6. ASSUME NEW e \in Dirs, NEW r \in Pids, Live(r, e)'
      PROVE  IF r = p THEN e = d /\ ~HasWritten(r)'
             ELSE e # d /\ Live(r, e) /\ (HasWritten(r)' => HasWritten(r))
  <2>1. CASE r = p
    BY <1>3, <1>6, <2>1 DEF Live, RunsIn, Diskwatcher, HasWritten
  <2>2. CASE r # p
    <3>1. Live(r, e) /\ (HasWritten(r)' => HasWritten(r))
      BY <1>3, <1>6, <2>2 DEF Live, RunsIn, IsDiskwatcher, HasWritten
    <3> QED
      BY <1>4, <2>2, <3>1
  <2> QED
    BY <2>1, <2>2
<1>7. ASSUME NEW e \in Dirs, NEW r \in Pids, Live(r, e)'
      PROVE  /\ \A t \in Pids : Live(t, e)' => r = t
             /\ HasWritten(r)' => pidFile'[e] = r
  <2>1. pidFile' = pidFile
    BY DEF Launch
  <2> QED
    BY <1>6, <1>7, <2>1 DEF NamedInv, OneLive
<1>8. Swept(s)'
  BY SweptIdle DEF Launch, Inv, TypeOK, Idle
<1> QED
  BY <1>5, <1>7, <1>8 DEF NamedInv, OneLive

LEMMA ScriptNamed ==
  ASSUME Inv, NamedInv, OneAtATime, NEW s \in Scripts, ScriptStep(s)
  PROVE  NamedInv'
<1>0. /\ \A t \in Scripts : t = s
      /\ script[s] \in ScriptState /\ DOMAIN script = Scripts /\ Swept(s)
  BY DEF OneAtATime, Inv, TypeOK, NamedInv
<1>1. PICK d : d = script[s].dir
  OBVIOUS
<1>2. ASSUME proc' = proc
      PROVE  /\ \A p \in Pids : Keeps(p)
             /\ \A p \in Pids : /\ Forked(p) => Forked(p)'
                                /\ Live(p, d)' => Live(p, script[s].dir)
  BY <1>1, <1>2, SameProcesses DEF Forked, Live, RunsIn, IsDiskwatcher
<1>3. ASSUME script'[s].dir = script[s].dir, NEW p \in Pids
      PROVE  Live(p, script[s].dir)' => Live(p, d)'
  BY <1>1, <1>3 DEF Live, RunsIn, IsDiskwatcher
\* Steps that only go on to another phase.
<1>4. ASSUME proc' = proc, pidFile' = pidFile, Swept(s)' PROVE NamedInv'
  BY <1>0, <1>2, <1>4, ScriptKeeps
<1>5. CASE ReadPidFiles(s)
  <2>1. /\ script'[s].phase = "sweeping" /\ script[s].phase = "reading"
        /\ proc' = proc /\ pidFile' = pidFile
    BY <1>0, <1>5 DEF ReadPidFiles, ScriptState
  <2>2. Swept(s)'
    BY <1>0, <1>2, <2>1 DEF Swept
  <2> QED
    BY <1>4, <2>1, <2>2
<1>6. CASE Sweep(s)
  <2>1. /\ script'[s].phase = "chosen" /\ script[s].phase = "sweeping"
        /\ script'[s].dir = script[s].dir
        /\ \A p \in Pids : RunsIn(p, script[s].dir) => p \in script'[s].found
        /\ proc' = proc /\ pidFile' = pidFile
    BY <1>0, <1>6 DEF Sweep, ScriptState, OneAtATime, RunsIn, dw_is_diskwatcher
  <2>2. \A p \in Pids : Live(p, script[s].dir)' => p \in script'[s].found
    BY <1>2, <1>3, <2>1 DEF Live
  <2>3. Swept(s)'
    BY <1>0, <1>2, <2>1, <2>2 DEF Swept
  <2> QED
    BY <1>4, <2>1, <2>3
<1>7. CASE Refuse(s) \/ CannotLaunch(s)
  <2>1. script'[s].phase = "idle" /\ proc' = proc /\ pidFile' = pidFile
    BY <1>0, <1>7 DEF Refuse, CannotLaunch, Idle
  <2> QED
    BY <1>4, <2>1, SweptIdle
<1>8. CASE NothingToStop(s) \/ AllGone(s)
  <2>1. /\ script'[s].phase \in {"launching", "clearing"} /\ script'[s].dir = script[s].dir
        /\ script[s].phase # "idle" /\ proc' = proc /\ pidFile' = pidFile
        /\ \A p \in Pids : ~Live(p, script[s].dir)
    BY <1>0, <1>8 DEF NothingToStop, AllGone, Goto, ScriptState, Swept
  <2>2. \A p \in Pids : ~Live(p, script[s].dir)'
    BY <1>2, <1>3, <2>1
  <2>3. Swept(s)'
    BY <1>0, <1>2, <2>1, <2>2 DEF Swept
  <2> QED
    BY <1>4, <2>1, <2>3
<1>9. ASSUME proc' = proc, pidFile' = [pidFile EXCEPT ![script[s].dir] = None],
             \A p \in Pids : ~Live(p, script[s].dir), Swept(s)'
      PROVE  NamedInv'
  <2>1. \A p \in Pids : ~Live(p, d)'
    BY <1>2, <1>9
  <2>2. \A e \in Dirs : pidFile'[e] = pidFile[e] \/ \A p \in Pids : ~Live(p, e)'
    BY <1>1, <1>9, <2>1 DEF Inv, TypeOK
  <2> QED
    BY <1>0, <1>2, <1>9, <2>2, ScriptKeeps
<1>10. CASE CleanUpStale(s)
  <2>1. /\ script'[s].phase = "idle" /\ proc' = proc
        /\ pidFile' = [pidFile EXCEPT ![script[s].dir] = None]
        /\ \A p \in Pids : ~Live(p, script[s].dir)
    BY <1>0, <1>10 DEF CleanUpStale, Idle, Swept
  <2> QED
    BY <1>9, <2>1, SweptIdle
<1>11. CASE Clear(s)
  <2>1. /\ script[s].phase = "clearing" /\ proc' = proc
        /\ pidFile' = [pidFile EXCEPT ![script[s].dir] = None]
        /\ \A p \in Pids : ~Live(p, script[s].dir)
    BY <1>0, <1>11 DEF Clear, Swept
  <2>2. \/ script'[s].phase = "idle"
        \/ script'[s].phase = "launching" /\ script'[s].dir = script[s].dir
    BY <1>0, <1>11 DEF Clear, Goto, Idle, ScriptState
  <2>3. Swept(s)'
    <3>1. CASE script'[s].phase = "idle"
      BY <3>1, SweptIdle
    <3>2. CASE script'[s].phase = "launching" /\ script'[s].dir = script[s].dir
      <4>1. \A p \in Pids : ~Live(p, script[s].dir)'
        BY <1>2, <1>3, <2>1, <3>2
      <4> QED
        BY <1>0, <1>2, <2>1, <3>2, <4>1 DEF Swept
    <3> QED
      BY <2>2, <3>1, <3>2
  <2> QED
    BY <1>9, <2>1, <2>3
<1>12. ASSUME NEW phase \in {"waiting", "clearing"},
              script[s].phase \in {"chosen", "waiting"},
              Signal(script[s].found, s, phase)
       PROVE  NamedInv'
  <2>1. script[s].found \in SUBSET Pids
    BY <1>0 DEF ScriptState
  <2>2. /\ \A p \in Pids : Keeps(p)
        /\ \A p \in script[s].found : \A e : ~Live(p, e)'
    BY <1>12, <2>1, SignalKeeps
  <2>3. /\ script'[s].phase = phase /\ script'[s].dir = script[s].dir
        /\ pidFile' = pidFile
    BY <1>0, <1>12 DEF Signal, ScriptState
  <2>4. \A p \in Pids : Live(p, d)' => Live(p, d)
    BY <2>2, LiveBefore
  <2>5. \A p \in Pids : Live(p, d) => p \in script[s].found
    BY <1>0, <1>1, <1>12 DEF Swept, Live, RunsIn
  <2>6. \A p \in Pids : ~Live(p, script[s].dir)'
    BY <1>3, <2>2, <2>3, <2>4, <2>5
  <2>7. \A p \in Pids : Forked(p) => Forked(p)'
    BY <2>2 DEF Keeps, Stays, Forked, HasWritten, IsDiskwatcher
  <2>8. Swept(s)'
    BY <1>0, <1>12, <2>3, <2>6, <2>7 DEF Swept
  <2> QED
    BY <1>0, <2>2, <2>3, <2>8, ScriptKeeps
<1>13. CASE Terminate(s)
  BY <1>12, <1>13 DEF Terminate
<1>14. CASE TimeIsUp(s)
  BY <1>12, <1>14 DEF TimeIsUp
<1>15. CASE Launch(s)
  BY <1>0, <1>15, LaunchNamed
<1> QED
  BY <1>5, <1>6, <1>7, <1>8, <1>10, <1>11, <1>13, <1>14, <1>15 DEF ScriptStep

LEMMA NextNamed ==
  ASSUME Inv, NamedInv, OneAtATime, [Next]_vars
  PROVE  NamedInv'
<1>1. ASSUME NEW s \in Scripts, NEW d \in Dirs,
             NEW kind \in {"start", "keep", "stop"}, Call(s, d, kind)
      PROVE  NamedInv'
  <2>1. /\ script'[s].phase = "reading" /\ proc' = proc /\ pidFile' = pidFile
        /\ \A p \in Pids : Forked(p)
    BY <1>1 DEF Call, OneAtATime, Inv, TypeOK, ScriptState
  <2>2. Swept(s)'
    BY <2>1 DEF Swept, Forked, IsDiskwatcher
  <2>3. \A t \in Scripts : t = s
    BY DEF OneAtATime
  <2> QED
    BY <2>1, <2>2, <2>3, SameProcesses, ScriptKeeps
<1>2. ASSUME NEW p \in Pids, ProcessStep(p)
      PROVE  NamedInv'
  BY <1>2, ForkNamed, WriteNamed, ProcessNamed DEF ProcessStep
<1>3. CASE StrangerComes \/ Dies \/ Reboot \/ StartsByHand
  BY <1>3, ProcessNamed
<1>4. CASE UNCHANGED vars
  <2>1. \A p \in Pids : Keeps(p)
    BY <1>4, SameProcesses DEF vars
  <2>2. \A s \in Scripts : Swept(s)'
    BY <1>4, <2>1, SweptKept DEF vars
  <2> QED
    BY <1>4, <2>1, <2>2, OneLiveKept DEF vars, NamedInv
<1> QED
  BY <1>1, <1>2, <1>3, <1>4, ScriptNamed DEF Next

\* For any checkouts, pids and files of old releases: where scripts run one at a
\* time and lsof is installed, a daemon that serves is the one its pid file names,
\* after any starts, stops, crashes, reboots and copies run in the foreground.
THEOREM PidFilesAreRight == OneAtATime => (Spec => []PidFileNamesDaemon)
<1> SUFFICES ASSUME OneAtATime PROVE Spec => []PidFileNamesDaemon
  OBVIOUS
<1>1. Init => NamedInv
  BY DEF Init, NamedInv, OneLive, Swept, Doomed, Writers, Live, RunsIn, IsDiskwatcher,
         Idle, Others
<1>2. Inv /\ NamedInv /\ [Next]_vars => NamedInv'
  BY NextNamed
<1>3. Inv /\ NamedInv => PidFileNamesDaemon
  <2> SUFFICES ASSUME Inv, NamedInv, Settled, NEW p \in Pids, IsDiskwatcher(p),
                      proc[p].daemon, ~proc[p].doomed
               PROVE  pidFile[proc[p].dir] = p
    BY DEF PidFileNamesDaemon
  <2>1. proc[p].dir \in Dirs
    BY ProcessEntry DEF Inv, Process
  <2>2. Live(p, proc[p].dir) /\ HasWritten(p)
    BY DEF Live, RunsIn, Settled, HasWritten
  <2> QED
    BY <2>1, <2>2 DEF NamedInv, OneLive
<1> QED
  BY InvHolds, <1>1, <1>2, <1>3, PTL DEF Spec

===============================================================================
