-------------------------- MODULE LifecycleProofs --------------------------
(* Proofs about Lifecycle, for any number of generations, controllers,     *)
(* monitors and edits.                                                     *)
EXTENDS Lifecycle, FiniteSetTheorems, TLAPS

(* A controller is a generation and a number.                              *)
LEMMA ControllerShape ==
  ASSUME NEW c \in Controllers
  PROVE  c = <<c[1], c[2]>> /\ c[1] \in 1..MaxGen /\ c[2] \in 1..N
         /\ c[1] \in Nat /\ c[2] \in Nat
BY SizesAssumption DEF Controllers, Gens

(* A Periodic is a controller and a number.                                *)
LEMMA PeriodicShape ==
  ASSUME NEW p \in Periodics
  PROVE  /\ p = <<p[1], p[2], p[3]>> /\ p[3] \in 1..T /\ p[3] \in Nat
         /\ Owner(p) \in Controllers
         /\ Owner(p)[1] = p[1] /\ Owner(p)[2] = p[2]
BY SizesAssumption DEF Periodics, Controllers, Gens, Owner

\* The monitors of a controller are the periodics it owns.
LEMMA OwnerOf ==
  ASSUME NEW c \in Controllers, NEW p \in Periodics
  PROVE  p \in Of(c) <=> Owner(p) = c
BY ControllerShape, PeriodicShape DEF Of, Owner

-----------------------------------------------------------------------------
(* The panel.                                                              *)

\* The steps of the panel that concern one controller.
LEMMA UnderCursor ==
  ASSUME NEW c \in Controllers
  PROVE  c = <<gen, cursor>> <=> c[1] = gen /\ c[2] = cursor
BY ControllerShape

(* Panel.Start begins.                                                     *)
LEMMA StartPanelPanel ==
  ASSUME LifeTypeOK, PanelInv, NEW w \in Callers, StartPanel(w)
  PROVE  LifeTypeOK' /\ PanelInv'
<1> USE SizesAssumption
<1>1. LifeTypeOK'
  BY SMTT(40) DEF StartPanel, LifeTypeOK, PanelInv, Callers, fileVars, timerVars
<1>2. PanelInv'
  BY SMTT(40), ControllerShape DEF StartPanel, LifeTypeOK, PanelInv, Callers, fileVars,
     timerVars
<1> QED
  BY Zenon, <1>1, <1>2

(* Panel.Start returns.                                                    *)
LEMMA StartReturnsPanel ==
  ASSUME LifeTypeOK, PanelInv, NEW w \in Callers, StartReturns(w)
  PROVE  LifeTypeOK' /\ PanelInv'
<1> USE SizesAssumption
<1>1. LifeTypeOK'
  BY Zenon DEF StartReturns, LifeTypeOK, PanelInv, Callers, fileVars, timerVars
<1>2. PanelInv'
  BY ZenonT(40), ControllerShape DEF StartReturns, LifeTypeOK, PanelInv, Callers, fileVars,
     timerVars
<1> QED
  BY <1>1, <1>2

(* Panel.Start panics.                                                     *)
LEMMA StartPanicsPanel ==
  ASSUME LifeTypeOK, PanelInv, NEW w \in Callers, StartPanics(w)
  PROVE  LifeTypeOK' /\ PanelInv'
<1> USE SizesAssumption
<1>1. LifeTypeOK'
  BY Zenon DEF StartPanics, LifeTypeOK, PanelInv, Callers, fileVars, timerVars
<1>2. PanelInv'
  BY ZenonT(40), ControllerShape DEF StartPanics, LifeTypeOK, PanelInv, Callers, fileVars,
     timerVars
<1> QED
  BY <1>1, <1>2

(* Panel.Close begins.                                                     *)
LEMMA ClosePanelPanel ==
  ASSUME LifeTypeOK, PanelInv, NEW w \in Callers, ClosePanel(w)
  PROVE  LifeTypeOK' /\ PanelInv'
<1> USE SizesAssumption
<1>1. LifeTypeOK'
  BY SMTT(40) DEF ClosePanel, LifeTypeOK, PanelInv, Callers, fileVars, timerVars
<1>2. PanelInv'
  BY SMTT(40), ControllerShape DEF ClosePanel, LifeTypeOK, PanelInv, Callers, fileVars,
     timerVars
<1> QED
  BY <1>1, <1>2

(* Controller.Close closes one of its tasks.                               *)
LEMMA CloseTaskPanel ==
  ASSUME LifeTypeOK, PanelInv, NEW w \in Callers, CloseTask(w)
  PROVE  LifeTypeOK' /\ PanelInv'
<1> USE SizesAssumption
<1>1. LifeTypeOK'
  <2>1. running' \in [Periodics -> BOOLEAN] /\ timer' \in [Periodics -> BOOLEAN]
    BY Zenon DEF CloseTask, LifeTypeOK
  <2> QED
    BY <2>1 DEF CloseTask, Closing, LifeTypeOK, fileVars
<1>2. PanelInv'
  BY SMTT(40), Z3T(40), ControllerShape DEF CloseTask, Closing, LifeTypeOK, PanelInv,
     Callers, fileVars, timerVars
<1> QED
  BY <1>1, <1>2

(* Panel.Close returns.                                                    *)
LEMMA CloseReturnsPanel ==
  ASSUME LifeTypeOK, PanelInv, NEW w \in Callers, CloseReturns(w)
  PROVE  LifeTypeOK' /\ PanelInv'
<1> USE SizesAssumption
<1>1. LifeTypeOK'
  BY SMTT(40), Z3T(40) DEF CloseReturns, CloseCore, LifeTypeOK, PanelInv, Callers,
     fileVars, timerVars
<1>2. PanelInv'
  BY SMTT(40), Z3T(40), ControllerShape DEF CloseReturns, CloseCore, LifeTypeOK, PanelInv,
     Callers, fileVars, timerVars
<1> QED
  BY <1>1, <1>2

(* Controller.Start.                                                       *)
LEMMA StartServicePanel ==
  ASSUME LifeTypeOK, PanelInv, NEW w \in Callers, StartService(w)
  PROVE  LifeTypeOK' /\ PanelInv'
<1> USE SizesAssumption
<1>1. LifeTypeOK'
  <2>1. starting' \in [Periodics -> BOOLEAN]
    BY Zenon DEF StartService, LifeTypeOK
  <2>2. at' \in [Periodics -> {"idle", "start", "check", "enter", "monitor", "rearm"}]
    BY Zenon DEF StartService, LifeTypeOK
  <2>3. ctl' \in [Controllers -> {"none", "open", "closing", "closed"}]
    BY ZenonT(40) DEF StartService, LifeTypeOK
  <2> QED
    BY SMTT(40), <2>1, <2>2, <2>3 DEF StartService, LifeTypeOK, fileVars
<1>2. \A c \in Controllers :
        ctl'[c] = IF c[1] = gen /\ c[2] = cursor THEN "open" ELSE ctl[c]
  BY Zenon, UnderCursor DEF StartService, LifeTypeOK
<1>3. PanelInv'
  BY SMTT(40), Z3T(40), <1>2, ControllerShape DEF StartService, LifeTypeOK, PanelInv,
     Callers, fileVars, timerVars
<1> QED
  BY <1>1, <1>3

(* Controller.Close begins.                                                *)
LEMMA MarkClosedPanel ==
  ASSUME LifeTypeOK, PanelInv, NEW w \in Callers, MarkClosed(w)
  PROVE  LifeTypeOK' /\ PanelInv'
<1> USE SizesAssumption
<1>1. LifeTypeOK'
  <2>1. ctl' \in [Controllers -> {"none", "open", "closing", "closed"}]
    BY ZenonT(40) DEF MarkClosed, LifeTypeOK
  <2> QED
    BY SMTT(40), <2>1 DEF MarkClosed, Closing, LifeTypeOK, fileVars, timerVars
<1>2. \A c \in Controllers :
        ctl'[c] = IF c[1] = gen /\ c[2] = cursor THEN "closing" ELSE ctl[c]
  BY ZenonT(40), UnderCursor DEF MarkClosed, LifeTypeOK
<1>3. PanelInv'
  BY SMTT(40), Z3T(40), <1>2, ControllerShape DEF MarkClosed, Closing, LifeTypeOK,
     PanelInv, Callers, fileVars, timerVars
<1> QED
  BY <1>1, <1>3

(* Controller.Close returns.                                               *)
LEMMA ServiceClosedPanel ==
  ASSUME LifeTypeOK, PanelInv, NEW w \in Callers, ServiceClosed(w)
  PROVE  LifeTypeOK' /\ PanelInv'
<1> USE SizesAssumption
<1>1. LifeTypeOK'
  <2>1. ctl' \in [Controllers -> {"none", "open", "closing", "closed"}]
    BY Zenon DEF ServiceClosed, LifeTypeOK
  <2> QED
    BY SMTT(40), <2>1 DEF ServiceClosed, Closing, LifeTypeOK, fileVars, timerVars
<1>2. \A c \in Controllers :
        ctl'[c] = IF c[1] = gen /\ c[2] = cursor THEN "closed" ELSE ctl[c]
  BY ZenonT(40), UnderCursor DEF ServiceClosed, LifeTypeOK
<1>3. PanelInv'
  BY SMTT(40), Z3T(40), <1>2, ControllerShape DEF ServiceClosed, Closing, LifeTypeOK,
     PanelInv, Callers, fileVars, timerVars
<1> QED
  BY <1>1, <1>3

(* Signals, edits and the handler's debounce.                              *)
LEMMA OutsidePanel ==
  ASSUME LifeTypeOK, PanelInv,
         Signal \/ Exit \/ Edit \/ WindowEnds \/ Discard \/ ConfigChange
  PROVE  LifeTypeOK' /\ PanelInv'
<1> USE SizesAssumption, ControllerShape DEF LifeTypeOK, PanelInv, Callers, fileVars, timerVars
<1>1. CASE Signal
  BY SMTT(40), Z3T(40), <1>1 DEF Signal
<1>2. CASE Exit
  BY SMTT(40), Z3T(40), <1>2 DEF Exit
<1>3. CASE Edit
  BY SMTT(40), Z3T(40), <1>3 DEF Edit
<1>4. CASE WindowEnds
  <2>1. gen > 0 /\ cool' = FALSE
    BY Zenon, <1>4 DEF WindowEnds
  <2>2. LifeTypeOK'
    BY ZenonT(40), <1>4, <2>1 DEF WindowEnds
  <2>3. PanelInv'
    BY SMTT(40), Z3T(40), <1>4, <2>1 DEF WindowEnds
  <2> QED
    BY ZenonT(40), <2>2, <2>3
<1>5. CASE Discard
  BY SMTT(40), Z3T(40), <1>5 DEF Discard, Receive
<1>6. CASE ConfigChange
  BY SMTT(60), Z3T(60), <1>6 DEF ConfigChange, Receive
<1> QED
  BY ZenonT(40), <1>1, <1>2, <1>3, <1>4, <1>5, <1>6

\* A Periodic leaves the panel and the state of the controllers alone.
LEMMA PeriodicPanel ==
  ASSUME PanelInv, NEW p \in Periodics, PeriodicStep(p)
  PROVE  PanelInv'
<1>1. UNCHANGED <<panelVars, ctl>>
  BY Zenon DEF PeriodicStep, PeriodicStart, TimerFires, CheckClosed, RunMonitor,
         MonitorReturns, Rearm
<1> QED
  BY ZenonT(40), <1>1 DEF PanelInv, panelVars, fileVars

-----------------------------------------------------------------------------
(* The file.                                                               *)

(* No edit is forgotten but by the debounce.                               *)
LEMMA FileStep ==
  ASSUME LifeTypeOK, FileInv, LifeNext
  PROVE  FileInv'
<1> USE DEF LifeTypeOK, FileInv, Callers, fileVars
<1>1. CASE Edit
  BY SMTT(40), <1>1 DEF Edit
<1>2. CASE Discard
  BY Zenon, <1>2 DEF Discard, Receive
<1>3. CASE ConfigChange
  BY Zenon, <1>3 DEF ConfigChange, Receive
<1>4. ASSUME NEW w \in Callers, CloseReturns(w) PROVE FileInv'
  BY Zenon, <1>4 DEF CloseReturns, CloseCore
<1>5. ASSUME NEW w \in Callers, StartReturns(w) PROVE FileInv'
  BY Zenon, <1>5 DEF StartReturns
<1>6. CASE Signal \/ Exit \/ WindowEnds \/ Gone
  BY ZenonT(40), <1>6 DEF Signal, Exit, WindowEnds, Gone, lifeVars
<1>7. ASSUME NEW w \in Callers,
             StartPanel(w) \/ StartService(w) \/ ClosePanel(w) \/ MarkClosed(w)
               \/ CloseTask(w) \/ ServiceClosed(w) \/ StartPanics(w)
      PROVE  FileInv'
  BY ZenonT(40), <1>7 DEF StartPanel, StartService, ClosePanel, MarkClosed, CloseTask,
              ServiceClosed, StartPanics
<1>8. ASSUME NEW p \in Periodics, PeriodicStep(p) PROVE FileInv'
  BY ZenonT(40), <1>8 DEF PeriodicStep, PeriodicStart, TimerFires, CheckClosed, RunMonitor,
              MonitorReturns, Rearm, panelVars
<1> QED
  BY ZenonT(40), <1>1, <1>2, <1>3, <1>4, <1>5, <1>6, <1>7, <1>8 DEF LifeNext, PanelStep

-----------------------------------------------------------------------------
(* The tasks.                                                              *)

(* Steps that leave the tasks alone.                                       *)
LEMMA TasksAlone ==
  ASSUME TaskInv, UNCHANGED <<ctl, monitorWG, timerVars>>,
         taskAt' = taskAt \/ taskAt' = 0
  PROVE  TaskInv'
<1>1. \A p \in Periodics : ~(p[3] < 0) /\ p[3] \in Nat
  BY SMTT(40), PeriodicShape
<1> QED
  BY <1>1 DEF TaskInv, InMonitor, timerVars

\* The controllers' WaitGroups, when no monitor begins or returns.
LEMMA CountsAlone ==
  ASSUME TaskInv, UNCHANGED monitorWG,
         \A p \in Periodics : at'[p] = "monitor" <=> at[p] = "monitor"
  PROVE  \A c \in Controllers : monitorWG'[c] = Cardinality(InMonitor(c)')
<1> SUFFICES ASSUME NEW c \in Controllers
             PROVE  monitorWG'[c] = Cardinality(InMonitor(c)')
  OBVIOUS
<1>1. InMonitor(c)' = InMonitor(c)
  BY Zenon DEF InMonitor, Of
<1> QED
  BY <1>1 DEF TaskInv

(* Controller.Start starts each task.                                      *)
LEMMA StartServiceTasks ==
  ASSUME LifeTypeOK, PanelInv, TaskInv, NEW w \in Callers, StartService(w)
  PROVE  TaskInv'
<1> DEFINE c == <<gen, cursor>>
<1>1. \A p \in Periodics :
        /\ Owner(p) \in Controllers
        /\ ctl'[Owner(p)] = IF Owner(p) = c THEN "open" ELSE ctl[Owner(p)]
        /\ starting'[p] = (starting[p] \/ Owner(p) = c)
        /\ at'[p] = IF Owner(p) = c THEN "start" ELSE at[p]
        /\ Owner(p) = c => ctl[Owner(p)] = "none"
  <2> SUFFICES ASSUME NEW p \in Periodics
               PROVE  /\ Owner(p) \in Controllers
                      /\ ctl'[Owner(p)] = IF Owner(p) = c THEN "open" ELSE ctl[Owner(p)]
                      /\ starting'[p] = (starting[p] \/ Owner(p) = c)
                      /\ at'[p] = IF Owner(p) = c THEN "start" ELSE at[p]
                      /\ Owner(p) = c => ctl[Owner(p)] = "none"
    OBVIOUS
  <2>1. Owner(p) \in Controllers
    BY PeriodicShape
  <2>2. p \in Of(c) <=> Owner(p) = c
    BY Zenon, PeriodicShape DEF Of, Owner
  <2>3. ctl'[Owner(p)] = IF Owner(p) = c THEN "open" ELSE ctl[Owner(p)]
    BY Zenon, <2>1 DEF StartService, LifeTypeOK
  <2>4. Owner(p) = c => ctl[Owner(p)] = "none"
    BY SMTT(40), Z3T(40), <2>1, UnderCursor, SizesAssumption DEF StartService, PanelInv,
       LifeTypeOK, Callers
  <2> QED
    BY <2>1, <2>2, <2>3, <2>4, Zenon DEF StartService
<1>2. UNCHANGED <<taskAt, monitorWG, running, timer>>
  BY Zenon DEF StartService
<1>3. \A d \in Controllers : monitorWG'[d] = Cardinality(InMonitor(d)')
  BY ZenonT(40), <1>1, <1>2, CountsAlone DEF TaskInv
<1> HIDE DEF c
<1>4. ASSUME NEW p \in Periodics, Owner(p) = c
      PROVE  /\ ctl'[Owner(p)] = "open" /\ starting'[p] /\ at'[p] = "start"
             /\ ~timer'[p] /\ ~running'[p]
  BY Zenon, <1>1, <1>2, <1>4 DEF TaskInv
<1>5. ASSUME NEW p \in Periodics, Owner(p) # c
      PROVE  /\ ctl'[Owner(p)] = ctl[Owner(p)] /\ at'[p] = at[p]
             /\ starting'[p] <=> starting[p]
             /\ timer'[p] = timer[p] /\ running'[p] = running[p]
  BY ZenonT(40), <1>1, <1>2, <1>5
<1> QED
  BY SMTT(40), <1>2, <1>3, <1>4, <1>5 DEF TaskInv

(* What TaskInv says of one task.                                          *)
TaskOK(p) ==
  /\ ctl[Owner(p)] = "none" =>
       at[p] = "idle" /\ ~timer[p] /\ ~running[p] /\ ~starting[p]
  /\ timer[p] => at[p] = "idle"
  /\ starting[p] => ctl[Owner(p)] = "open"
  /\ at[p] = "start" => starting[p]
  /\ at[p] = "monitor" => ctl[Owner(p)] \in {"open", "closing"}
  /\ \/ ctl[Owner(p)] = "closing" /\ p[3] < taskAt
     \/ ctl[Owner(p)] = "closed"
     => ~timer[p] /\ ~running[p]

(* TaskInv speaks of each task by itself.                                  *)
LEMMA TaskSplit ==
  TaskInv <=> /\ \A p \in Periodics : TaskOK(p)
              /\ \A c \in Controllers : monitorWG[c] = Cardinality(InMonitor(c))
BY Zenon DEF TaskInv, TaskOK

(* The same in the next state.                                             *)
LEMMA TaskSplitNext ==
  ASSUME \A p \in Periodics : TaskOK(p)',
         \A c \in Controllers : monitorWG'[c] = Cardinality(InMonitor(c)')
  PROVE  TaskInv'
BY DEF TaskInv, TaskOK

(* Controller.Close begins.                                                *)
LEMMA MarkClosedTasks ==
  ASSUME LifeTypeOK, PanelInv, TaskInv, NEW w \in Callers, MarkClosed(w)
  PROVE  TaskInv'
<1> DEFINE c == <<gen, cursor>>
<1>1. \A p \in Periodics :
        /\ Owner(p) \in Controllers /\ p[3] \in 1..T
        /\ ctl'[Owner(p)] = IF Owner(p) = c THEN "closing" ELSE ctl[Owner(p)]
        /\ p \in Of(c) <=> Owner(p) = c
  BY ZenonT(40), PeriodicShape DEF MarkClosed, LifeTypeOK, Of, Owner
<1>2. UNCHANGED <<monitorWG, running, timer, starting, at>>
  BY Zenon DEF MarkClosed, timerVars
<1>3. \A d \in Controllers : monitorWG'[d] = Cardinality(InMonitor(d)')
  BY ZenonT(40), <1>1, <1>2, CountsAlone DEF TaskInv
<1>4. taskAt' = 1 /\ \A p \in Periodics : Owner(p) = c => ~starting[p]
  BY Zenon, <1>1 DEF MarkClosed
<1> HIDE DEF c
<1>5. ASSUME NEW p \in Periodics PROVE TaskOK(p)'
  <2>1. TaskOK(p)
    BY Zenon, TaskSplit
  <2>2. CASE Owner(p) = c
    <3>1. ctl'[Owner(p)] = "closing" /\ ~(p[3] < taskAt') /\ ~starting[p]
      BY <1>1, <1>4, <2>2, SizesAssumption
    <3> QED
      BY ZenonT(40), <1>2, <2>1, <3>1 DEF TaskOK
  <2>3. CASE Owner(p) # c
    <3>1. ctl'[Owner(p)] = ctl[Owner(p)] /\ ~(p[3] < taskAt')
      BY SMTT(40), Z3T(40), <1>1, <1>4, <2>3, SizesAssumption
    <3> QED
      BY ZenonT(40), <1>2, <2>1, <3>1 DEF TaskOK
  <2> QED
    BY Zenon, <2>2, <2>3
<1> QED
  BY Zenon, <1>3, <1>5, TaskSplitNext

(* A task that Close has passed is stopped.                                *)
LEMMA CloseTaskTasks ==
  ASSUME LifeTypeOK, PanelInv, TaskInv, NEW w \in Callers, CloseTask(w)
  PROVE  TaskInv'
<1> DEFINE q == <<gen, cursor, taskAt>>
<1>1. UNCHANGED <<ctl, monitorWG, starting, at>> /\ taskAt' = taskAt + 1 /\ taskAt \in Nat
  BY SizesAssumption DEF CloseTask, LifeTypeOK
<1>2. \A d \in Controllers : monitorWG'[d] = Cardinality(InMonitor(d)')
  BY Zenon, <1>1, CountsAlone
<1>3. \A p \in Periodics :
        /\ p # q => timer'[p] = timer[p] /\ running'[p] = running[p]
        /\ p = q => ~timer'[p] /\ ~running'[p]
  BY ZenonT(40) DEF CloseTask, LifeTypeOK
<1>4. ASSUME NEW p \in Periodics, ctl[Owner(p)] = "closing", p[3] < taskAt + 1
      PROVE  p = q \/ p[3] < taskAt
  <2>1. Owner(p)[1] = gen /\ Owner(p)[2] = cursor
    BY Zenon, <1>4, PeriodicShape DEF PanelInv
  <2> QED
    BY SMTT(40), Z3T(40), <1>1, <1>4, <2>1, PeriodicShape
<1> HIDE DEF q
<1>5. ASSUME NEW p \in Periodics
      PROVE  ~timer[p] /\ ~running[p] => ~timer'[p] /\ ~running'[p]
  BY <1>3
<1>6. ASSUME NEW p \in Periodics PROVE timer'[p] => timer[p]
  BY Zenon, <1>3
<1>7. ASSUME NEW p \in Periodics, ctl[Owner(p)] = "closing", p[3] < taskAt'
      PROVE  ~timer'[p] /\ ~running'[p]
  BY ZenonT(40), <1>1, <1>3, <1>4, <1>5, <1>7 DEF TaskInv
<1> QED
  BY ZenonT(40), <1>1, <1>2, <1>5, <1>6, <1>7 DEF TaskInv

-----------------------------------------------------------------------------
(* Counting.                                                               *)

(* A controller has at most T monitors.                                    *)
LEMMA OfFinite ==
  ASSUME NEW c \in Controllers, NEW S \in SUBSET Of(c)
  PROVE  IsFiniteSet(S) /\ Cardinality(S) \in 0..T
<1> DEFINE f == [p \in S |-> p[3]]
<1>1. \A p \in S : p \in Periodics /\ p = <<c[1], c[2], p[3]>> /\ p[3] \in 1..T
  BY PeriodicShape DEF Of
<1>2. f \in Injection(S, 1..T)
  BY <1>1 DEF Injection, IsInjective
<1>3. IsFiniteSet(1..T) /\ Cardinality(1..T) = T
  BY FS_Interval, SizesAssumption
<1>4. IsFiniteSet(S) /\ Cardinality(S) <= T
  BY <1>2, <1>3, FS_Injection
<1> QED
  BY <1>4, FS_CardinalityType, SizesAssumption

(* The first state satisfies the invariant.                                *)
LEMMA LifeInvInit == LifeInit => LifeInv
<1> SUFFICES ASSUME LifeInit PROVE LifeInv
  OBVIOUS
<1> USE SizesAssumption
<1>1. LifeTypeOK
  <2>1. /\ running \in [Periodics -> BOOLEAN] /\ timer \in [Periodics -> BOOLEAN]
        /\ starting \in [Periodics -> BOOLEAN]
        /\ cool \in BOOLEAN /\ missed \in BOOLEAN
    BY Zenon DEF LifeInit
  <2> QED
    BY <2>1 DEF LifeInit, LifeTypeOK, Callers
<1>2. PanelInv
  BY Zenon, ControllerShape DEF LifeInit, PanelInv, Callers
<1>3. TaskInv
  <2>1. \A p \in Periodics : Owner(p) \in Controllers
    BY Zenon, PeriodicShape
  <2>2. \A c \in Controllers : InMonitor(c) = {}
    BY DEF InMonitor, Of, LifeInit
  <2>3. \A c \in Controllers : monitorWG[c] = Cardinality(InMonitor(c))
    BY Zenon, <2>2, FS_EmptySet DEF LifeInit
  <2> QED
    BY Zenon, <2>1, <2>3 DEF TaskInv, LifeInit
<1>4. FileInv
  BY ZenonT(40) DEF LifeInit, FileInv
<1> QED
  BY Zenon, <1>1, <1>2, <1>3, <1>4 DEF LifeInv

(* Controller.Close returns when monitorWG is zero.                        *)
LEMMA ServiceClosedTasks ==
  ASSUME LifeTypeOK, PanelInv, TaskInv, NEW w \in Callers, ServiceClosed(w)
  PROVE  TaskInv'
<1> DEFINE c == <<gen, cursor>>
<1>1. \A p \in Periodics :
        /\ Owner(p) \in Controllers /\ p[3] \in 1..T
        /\ ctl'[Owner(p)] = IF Owner(p) = c THEN "closed" ELSE ctl[Owner(p)]
        /\ p \in Of(c) <=> Owner(p) = c
  BY ZenonT(40), PeriodicShape DEF ServiceClosed, LifeTypeOK, Of, Owner
<1>2. UNCHANGED <<monitorWG, running, timer, starting, at>>
  BY Zenon DEF ServiceClosed, timerVars
<1>3. \A d \in Controllers : monitorWG'[d] = Cardinality(InMonitor(d)')
  BY ZenonT(40), <1>2, CountsAlone
<1>4. \A p \in Periodics : Owner(p) = c =>
        /\ at[p] # "monitor" /\ ~starting[p]
        /\ ~timer[p] /\ ~running[p]
  <2> SUFFICES ASSUME NEW p \in Periodics, Owner(p) = c
               PROVE  /\ at[p] # "monitor" /\ ~starting[p]
                      /\ ~timer[p] /\ ~running[p]
    BY Zenon
  <2>a. c \in Controllers /\ c[1] = gen /\ c[2] = cursor
    BY Zenon, <1>1
  <2>b. services = N /\ taskAt > 0 /\ lock = w /\ op[lock] = "close"
    BY SMTT(40), Z3T(40), SizesAssumption DEF ServiceClosed, Closing, LifeTypeOK
  <2>1. c \in Controllers /\ ctl[c] = "closing"
    BY Zenon, <2>a, <2>b DEF PanelInv, Callers
  <2>2. IsFiniteSet(InMonitor(c)) /\ Cardinality(InMonitor(c)) = 0
    BY Zenon, <2>1, OfFinite DEF InMonitor, ServiceClosed, TaskInv
  <2>3. InMonitor(c) = {}
    BY Zenon, <2>2, FS_EmptySet
  <2>4. p[3] < taskAt
    BY SMTT(40), <1>1, SizesAssumption DEF ServiceClosed
  <2> QED
    BY ZenonT(40), <1>1, <2>1, <2>3, <2>4 DEF TaskInv, InMonitor
<1>5. taskAt' = 0 /\ \A p \in Periodics : ~(p[3] < 0)
  BY SMTT(40), <1>1, SizesAssumption DEF ServiceClosed
<1> HIDE DEF c
<1>6. ASSUME NEW p \in Periodics PROVE TaskOK(p)'
  <2>1. TaskOK(p) /\ ~(p[3] < taskAt')
    BY Zenon, <1>5, TaskSplit
  <2> QED
    BY ZenonT(40), <1>1, <1>2, <1>4, <2>1 DEF TaskOK
<1> QED
  BY Zenon, <1>3, <1>6, TaskSplitNext

\* A monitor begins or returns: the WaitGroup follows.
LEMMA MonitorBegins ==
  ASSUME LifeTypeOK, TaskInv, NEW p \in Periodics, at[p] # "monitor",
         at' = [at EXCEPT ![p] = "monitor"],
         monitorWG' = [monitorWG EXCEPT ![Owner(p)] = @ + 1]
  PROVE  \A c \in Controllers :
           monitorWG'[c] = Cardinality(InMonitor(c)') /\ monitorWG'[c] \in 0..T
<1> SUFFICES ASSUME NEW c \in Controllers
             PROVE  monitorWG'[c] = Cardinality(InMonitor(c)') /\ monitorWG'[c] \in 0..T
  BY ZenonT(40)
<1>1. IsFiniteSet(InMonitor(c)) /\ monitorWG[c] = Cardinality(InMonitor(c))
  BY Zenon, OfFinite DEF InMonitor, TaskInv
<1>2. Cardinality(InMonitor(c)') \in 0..T
  <2>1. InMonitor(c)' \in SUBSET Of(c)
    BY Zenon DEF InMonitor, Of
  <2> QED
    BY <2>1, OfFinite
<1>3. CASE Owner(p) = c
  <2>1. p \in Of(c)
    BY Zenon, <1>3, OwnerOf
  <2>2. InMonitor(c)' = InMonitor(c) \cup {p} /\ p \notin InMonitor(c)
    BY ZenonT(40), <2>1 DEF InMonitor, Of, LifeTypeOK
  <2>3. Cardinality(InMonitor(c)') = Cardinality(InMonitor(c)) + 1
    BY ZenonT(40), <1>1, <2>2, FS_AddElement
  <2> QED
    BY ZenonT(40), <1>1, <1>2, <1>3, <2>3 DEF LifeTypeOK
<1>4. CASE Owner(p) # c
  <2>1. p \notin Of(c)
    BY ZenonT(40), <1>4, OwnerOf
  <2>2. InMonitor(c)' = InMonitor(c)
    BY ZenonT(40), <2>1 DEF InMonitor, Of, LifeTypeOK
  <2> QED
    BY ZenonT(40), <1>1, <1>2, <1>4, <2>2 DEF LifeTypeOK
<1> QED
  BY Zenon, <1>3, <1>4

(* So it does when a monitor returns.                                      *)
LEMMA MonitorEnds ==
  ASSUME LifeTypeOK, TaskInv, NEW p \in Periodics, at[p] = "monitor",
         at' = [at EXCEPT ![p] = "rearm"],
         monitorWG' = [monitorWG EXCEPT ![Owner(p)] = @ - 1]
  PROVE  \A c \in Controllers :
           monitorWG'[c] = Cardinality(InMonitor(c)') /\ monitorWG'[c] \in 0..T
<1> SUFFICES ASSUME NEW c \in Controllers
             PROVE  monitorWG'[c] = Cardinality(InMonitor(c)') /\ monitorWG'[c] \in 0..T
  BY Zenon
<1>1. IsFiniteSet(InMonitor(c)) /\ monitorWG[c] = Cardinality(InMonitor(c))
  BY Zenon, OfFinite DEF InMonitor, TaskInv
<1>2. Cardinality(InMonitor(c)') \in 0..T
  <2>1. InMonitor(c)' \in SUBSET Of(c)
    BY Zenon DEF InMonitor, Of
  <2> QED
    BY <2>1, OfFinite
<1>3. CASE Owner(p) = c
  <2>1. p \in Of(c)
    BY Zenon, <1>3, OwnerOf
  <2>2. InMonitor(c)' = InMonitor(c) \ {p} /\ p \in InMonitor(c)
    BY Zenon, <2>1 DEF InMonitor, Of, LifeTypeOK
  <2>3. Cardinality(InMonitor(c)') = Cardinality(InMonitor(c)) - 1
    BY ZenonT(40), <1>1, <2>2, FS_RemoveElement
  <2> QED
    BY ZenonT(40), <1>1, <1>2, <1>3, <2>3 DEF LifeTypeOK
<1>4. CASE Owner(p) # c
  <2>1. p \notin Of(c)
    BY Zenon, <1>4, OwnerOf
  <2>2. InMonitor(c)' = InMonitor(c)
    BY Zenon, <2>1 DEF InMonitor, Of, LifeTypeOK
  <2> QED
    BY ZenonT(40), <1>1, <1>2, <1>4, <2>2 DEF LifeTypeOK
<1> QED
  BY <1>3, <1>4

(* Every step of a Periodic.                                               *)
LEMMA PeriodicTasks ==
  ASSUME LifeTypeOK, TaskInv, NEW p \in Periodics, PeriodicStep(p)
  PROVE  LifeTypeOK' /\ TaskInv'
<1>0. \A q \in Periodics : Owner(q) \in Controllers
  BY Zenon, PeriodicShape
<1>1. CASE PeriodicStart(p)
  <2>1. at'= [at EXCEPT ![p] = "check"] /\ at[p] = "start" /\ running' = [running EXCEPT ![p] = TRUE]
        /\ UNCHANGED <<panelVars, ctl, monitorWG, timer, starting>>
    BY <1>1 DEF PeriodicStart
  <2>2. running' \in [Periodics -> BOOLEAN]
    BY <2>1, Zenon DEF LifeTypeOK
  <2>3. LifeTypeOK'
    BY ZenonT(40), <2>1, <2>2 DEF LifeTypeOK, panelVars, fileVars
  <2>4. \A c \in Controllers : monitorWG'[c] = Cardinality(InMonitor(c)')
    BY ZenonT(40), <2>1, CountsAlone DEF LifeTypeOK
  <2>5. ASSUME NEW q \in Periodics PROVE TaskOK(q)'
    <3>1. TaskOK(q) /\ UNCHANGED <<ctl, timer, starting, taskAt>>
      BY Zenon, <2>1, TaskSplit DEF panelVars
    <3>2. q # p => at'[q] = at[q] /\ running'[q] = running[q]
      BY ZenonT(40), <2>1 DEF LifeTypeOK
    <3>3. q = p => at[q] = "start" /\ at'[q] = "check"
      BY ZenonT(40), <2>1 DEF LifeTypeOK
    <3> QED
      BY ZenonT(40), <3>1, <3>2, <3>3 DEF TaskOK
  <2> QED
    BY Zenon, <2>3, <2>4, <2>5, TaskSplitNext
<1>2. CASE TimerFires(p)
  <2>1. at'= [at EXCEPT ![p] = "check"] /\ timer[p] /\ timer' = [timer EXCEPT ![p] = FALSE]
        /\ UNCHANGED <<panelVars, ctl, monitorWG, running, starting>>
    BY Zenon, <1>2 DEF TimerFires
  <2>2. timer' \in [Periodics -> BOOLEAN]
    BY <2>1, Zenon DEF LifeTypeOK
  <2>3. LifeTypeOK'
    BY ZenonT(40), <2>1, <2>2 DEF LifeTypeOK, panelVars, fileVars
  <2>4. \A c \in Controllers : monitorWG'[c] = Cardinality(InMonitor(c)')
    <3>1. at[p] = "idle"
      BY Zenon, <2>1 DEF TaskInv
    <3> QED
      BY ZenonT(40), <2>1, <3>1, CountsAlone DEF LifeTypeOK
  <2>5. ASSUME NEW q \in Periodics PROVE TaskOK(q)'
    <3>1. TaskOK(q) /\ UNCHANGED <<ctl, running, starting, taskAt>>
      BY Zenon, <2>1, TaskSplit DEF panelVars
    <3>2. q # p => at'[q] = at[q] /\ timer'[q] = timer[q]
      BY ZenonT(40), <2>1 DEF LifeTypeOK
    <3>3. q = p => timer[q] /\ at'[q] = "check" /\ ~timer'[q]
      BY ZenonT(40), <2>1 DEF LifeTypeOK
    <3> QED
      BY ZenonT(40), <3>1, <3>2, <3>3 DEF TaskOK
  <2> QED
    BY Zenon, <2>3, <2>4, <2>5, TaskSplitNext
<1>3. CASE CheckClosed(p)
  <2>1. at'= [at EXCEPT ![p] = IF running[p] THEN "enter" ELSE "idle"] /\ at[p] = "check"
        /\ starting' = [starting EXCEPT ![p] = @ /\ running[p]]
        /\ UNCHANGED <<panelVars, ctl, monitorWG, running, timer>>
    BY Zenon, <1>3 DEF CheckClosed
  <2>2. starting' \in [Periodics -> BOOLEAN]
    BY <2>1, Zenon DEF LifeTypeOK
  <2>3. LifeTypeOK'
    BY ZenonT(40), <2>1, <2>2 DEF LifeTypeOK, panelVars, fileVars
  <2>4. \A c \in Controllers : monitorWG'[c] = Cardinality(InMonitor(c)')
    BY ZenonT(40), <2>1, CountsAlone DEF LifeTypeOK
  <2>5. \A q \in Periodics : (starting'[q] => starting[q]) /\ (q # p => starting'[q] = starting[q])
    BY ZenonT(40), <2>1 DEF LifeTypeOK
  <2>6. ASSUME NEW q \in Periodics PROVE TaskOK(q)'
    <3>1. TaskOK(q) /\ UNCHANGED <<ctl, running, timer, taskAt>>
      BY Zenon, <2>1, TaskSplit DEF panelVars
    <3>2. q # p => at'[q] = at[q] /\ starting'[q] = starting[q]
      BY ZenonT(40), <2>1, <2>5 DEF LifeTypeOK
    <3>3. q = p => at'[q] \in {"enter", "idle"} /\ (starting'[q] => starting[q])
      BY ZenonT(40), <2>1, <2>5 DEF LifeTypeOK
    <3> QED
      BY ZenonT(40), <2>1, <3>1, <3>2, <3>3 DEF TaskOK
  <2> QED
    BY Zenon, <2>3, <2>4, <2>6, TaskSplitNext
<1>4. CASE RunMonitor(p)
  <2>1. UNCHANGED <<panelVars, ctl, running, timer, starting>> /\ at[p] = "enter"
    BY <1>4 DEF RunMonitor
  <2>2. CASE ctl[Owner(p)] = "open"
    <3>1. /\ at' = [at EXCEPT ![p] = "monitor"]
          /\ monitorWG' = [monitorWG EXCEPT ![Owner(p)] = @ + 1]
      BY Zenon, <1>4, <2>2 DEF RunMonitor, Owner
    <3>2. \A c \in Controllers :
            monitorWG'[c] = Cardinality(InMonitor(c)') /\ monitorWG'[c] \in 0..T
      BY Zenon, <2>1, <3>1, MonitorBegins
    <3>3. LifeTypeOK'
      BY ZenonT(40), <2>1, <3>1, <3>2 DEF LifeTypeOK, panelVars, fileVars
    <3>4. ASSUME NEW q \in Periodics PROVE TaskOK(q)'
      <4>1. TaskOK(q) /\ UNCHANGED <<ctl, running, timer, starting, taskAt>>
        BY ZenonT(40), <2>1, TaskSplit DEF panelVars
      <4>2. (q # p => at'[q] = at[q]) /\ (q = p => at'[q] = "monitor")
        BY ZenonT(40), <3>1 DEF LifeTypeOK
      <4> QED
        BY Zenon, <2>1, <2>2, <4>1, <4>2 DEF TaskOK
    <3> QED
      BY Zenon, <3>2, <3>3, <3>4, TaskSplitNext
  <2>3. CASE ctl[Owner(p)] # "open"
    <3>1. at' = [at EXCEPT ![p] = "rearm"] /\ UNCHANGED monitorWG
      BY Zenon, <1>4, <2>3 DEF RunMonitor, Owner
    <3>2. \A c \in Controllers : monitorWG'[c] = Cardinality(InMonitor(c)')
      BY ZenonT(40), <2>1, <3>1, CountsAlone DEF LifeTypeOK
    <3>3. LifeTypeOK'
      BY ZenonT(40), <2>1, <3>1 DEF LifeTypeOK, panelVars, fileVars
    <3>4. ASSUME NEW q \in Periodics PROVE TaskOK(q)'
      <4>1. TaskOK(q) /\ UNCHANGED <<ctl, running, timer, starting, taskAt>>
        BY Zenon, <2>1, TaskSplit DEF panelVars
      <4>2. (q # p => at'[q] = at[q]) /\ (q = p => at'[q] = "rearm")
        BY ZenonT(40), <3>1 DEF LifeTypeOK
      <4> QED
        BY ZenonT(40), <2>1, <4>1, <4>2 DEF TaskOK
    <3> QED
      BY Zenon, <3>2, <3>3, <3>4, TaskSplitNext
  <2> QED
    BY Zenon, <2>2, <2>3
<1>5. CASE MonitorReturns(p)
  <2>1. /\ UNCHANGED <<panelVars, ctl, running, timer, starting>> /\ at[p] = "monitor"
        /\ at' = [at EXCEPT ![p] = "rearm"]
        /\ monitorWG' = [monitorWG EXCEPT ![Owner(p)] = @ - 1]
    BY Zenon, <1>5 DEF MonitorReturns, Owner
  <2>2. \A c \in Controllers :
          monitorWG'[c] = Cardinality(InMonitor(c)') /\ monitorWG'[c] \in 0..T
    BY Zenon, <2>1, MonitorEnds
  <2>3. LifeTypeOK'
    BY ZenonT(40), <2>1, <2>2 DEF LifeTypeOK, panelVars, fileVars
  <2>4. ASSUME NEW q \in Periodics PROVE TaskOK(q)'
    <3>1. TaskOK(q) /\ UNCHANGED <<ctl, running, timer, starting, taskAt>>
      BY Zenon, <2>1, TaskSplit DEF panelVars
    <3>2. (q # p => at'[q] = at[q]) /\ (q = p => at'[q] = "rearm")
      BY ZenonT(40), <2>1 DEF LifeTypeOK
    <3> QED
      BY Zenon, <2>1, <3>1, <3>2 DEF TaskOK
  <2> QED
    BY Zenon, <2>2, <2>3, <2>4, TaskSplitNext
<1>6. CASE Rearm(p)
  <2>1. /\ at'= [at EXCEPT ![p] = "idle"] /\ at[p] = "rearm"
        /\ timer' = [timer EXCEPT ![p] = running[p]]
        /\ starting' = [starting EXCEPT ![p] = FALSE]
        /\ UNCHANGED <<panelVars, ctl, monitorWG, running>>
    BY Zenon, <1>6 DEF Rearm
  <2>2. starting' \in [Periodics -> BOOLEAN] /\ timer' \in [Periodics -> BOOLEAN]
    BY <2>1, Zenon DEF LifeTypeOK
  <2>3. LifeTypeOK'
    BY ZenonT(40), <2>1, <2>2 DEF LifeTypeOK, panelVars, fileVars
  <2>4. \A c \in Controllers : monitorWG'[c] = Cardinality(InMonitor(c)')
    BY ZenonT(40), <2>1, CountsAlone DEF LifeTypeOK
  <2>5. ASSUME NEW q \in Periodics PROVE TaskOK(q)'
    <3>1. TaskOK(q) /\ UNCHANGED <<ctl, running, taskAt>>
      BY ZenonT(40), <2>1, TaskSplit DEF panelVars
    <3>2. q # p => at'[q] = at[q] /\ timer'[q] = timer[q] /\ starting'[q] = starting[q]
      BY ZenonT(40), <2>1 DEF LifeTypeOK
    <3>3. q = p => at'[q] = "idle" /\ timer'[q] = running[q] /\ ~starting'[q]
      BY ZenonT(40), <2>1 DEF LifeTypeOK
    <3> QED
      BY ZenonT(40), <2>1, <3>1, <3>2, <3>3 DEF TaskOK
  <2> QED
    BY Zenon, <2>3, <2>4, <2>5, TaskSplitNext
<1> QED
  BY ZenonT(40), <1>1, <1>2, <1>3, <1>4, <1>5, <1>6 DEF PeriodicStep

-----------------------------------------------------------------------------
(* Together.                                                               *)

(* Every step keeps the invariant.                                         *)
LEMMA LifeInvStep == LifeInv /\ [LifeNext]_lifeVars => LifeInv'
<1> SUFFICES ASSUME LifeInv, [LifeNext]_lifeVars PROVE LifeInv'
  OBVIOUS
<1> USE DEF LifeInv
<1>1. ASSUME NEW w \in Callers, PanelStep(w) \/ StartPanics(w)
      PROVE  LifeTypeOK' /\ PanelInv' /\ TaskInv'
  <2>1. CASE StartService(w)
    BY Zenon, <2>1, StartServicePanel, StartServiceTasks
  <2>2. CASE MarkClosed(w)
    BY ZenonT(40), <2>2, MarkClosedPanel, MarkClosedTasks
  <2>3. CASE CloseTask(w)
    BY <2>3, CloseTaskPanel, CloseTaskTasks
  <2>4. CASE ServiceClosed(w)
    BY <2>4, ServiceClosedPanel, ServiceClosedTasks
  <2>5. CASE StartPanel(w) \/ StartReturns(w) \/ StartPanics(w)
               \/ ClosePanel(w) \/ CloseReturns(w)
    <3>1. LifeTypeOK' /\ PanelInv'
      BY ZenonT(40), <2>5, StartPanelPanel, StartReturnsPanel, StartPanicsPanel,
         ClosePanelPanel, CloseReturnsPanel
    <3>2. UNCHANGED <<ctl, monitorWG, timerVars>> /\ (taskAt' = taskAt \/ taskAt' = 0)
      BY <2>5 DEF StartPanel, StartReturns, StartPanics, ClosePanel, CloseReturns, CloseCore
    <3> QED
      BY Zenon, <3>1, <3>2, TasksAlone
  <2> QED
    BY ZenonT(40), <1>1, <2>1, <2>2, <2>3, <2>4, <2>5 DEF PanelStep
<1>2. ASSUME NEW p \in Periodics, PeriodicStep(p)
      PROVE  LifeTypeOK' /\ PanelInv' /\ TaskInv'
  BY Zenon, <1>2, PeriodicPanel, PeriodicTasks
<1>3. CASE Signal \/ Exit \/ Edit \/ WindowEnds \/ Discard \/ ConfigChange
  <2>1. UNCHANGED <<ctl, monitorWG, timerVars, taskAt>>
    BY <1>3 DEF Signal, Exit, Edit, WindowEnds, Discard, ConfigChange, Receive
  <2> QED
    BY ZenonT(40), <1>3, <2>1, OutsidePanel, TasksAlone, FileStep DEF LifeNext
<1>4. CASE UNCHANGED lifeVars
  <2>1. LifeTypeOK'
    BY ZenonT(40), <1>4 DEF lifeVars, fileVars, LifeTypeOK
  <2>2. PanelInv'
    BY ZenonT(40), <1>4 DEF lifeVars, fileVars, PanelInv
  <2>3. TaskInv'
    BY ZenonT(40), <1>4 DEF lifeVars, TaskInv, InMonitor
  <2>4. FileInv'
    BY <1>4 DEF lifeVars, fileVars, FileInv
  <2> QED
    BY ZenonT(40), <2>1, <2>2, <2>3, <2>4
<1>5. CASE LifeNext
  <2>1. LifeTypeOK' /\ PanelInv' /\ TaskInv'
    <3> HIDE DEF LifeInv
    <3>1. CASE Gone
      BY Zenon, <3>1, <1>4 DEF Gone, LifeInv
    <3>2. CASE Signal \/ Exit \/ Edit \/ WindowEnds \/ Discard \/ ConfigChange
      BY Zenon, <3>2, <1>3 DEF LifeInv
    <3> QED
      BY ZenonT(40), <1>1, <1>2, <1>5, <3>1, <3>2 DEF LifeNext
  <2>2. FileInv'
    BY <1>5, FileStep
  <2> QED
    BY Zenon, <2>1, <2>2
<1> QED
  BY <1>4, <1>5

(* The invariant holds throughout, with any number of controllers and      *)
(* monitors and however often the panel is reloaded (panel.Start, Close,   *)
(* controller.Close, runMonitor, task.Periodic, the watcher of main.go).   *)
THEOREM LifeInvariant == LifeSpec => []LifeInv
<1>1. LifeInit => LifeInv
  BY LifeInvInit
<1>2. LifeInv /\ [LifeNext]_lifeVars => LifeInv'
  BY LifeInvStep
<1> QED
  BY <1>1, <1>2, PTL DEF LifeSpec

(* No monitor runs once Controller.Close has returned and none can start   *)
(* any more; a monitor works on a core that is up (controller.Close,       *)
(* runMonitor, Periodic.Close against Periodic.checkedExecute).            *)
THEOREM Quiet == LifeSpec => []ClosedIsQuiet
<1>1. LifeInv => ClosedIsQuiet
  <2> SUFFICES ASSUME LifeInv, NEW p \in Periodics
               PROVE  /\ at[p] = "monitor" =>
                           ctl[Owner(p)] \in {"open", "closing"} /\ p[1] \in server
                      /\ ctl[Owner(p)] = "closed" => ~timer[p] /\ ~running[p]
    BY Zenon DEF ClosedIsQuiet, Owner
  <2>1. Owner(p) \in Controllers /\ Owner(p)[1] = p[1]
    BY Zenon, PeriodicShape
  <2>2. /\ at[p] = "monitor" => ctl[Owner(p)] \in {"open", "closing"}
        /\ ctl[Owner(p)] = "closed" => ~timer[p] /\ ~running[p]
    BY ZenonT(40) DEF LifeInv, TaskInv
  <2>3. ctl[Owner(p)] \in {"open", "closing"} => p[1] = gen /\ services = N
    BY ZenonT(40), <2>1 DEF LifeInv, PanelInv
  <2>4. services = N => gen \in server
    BY ZenonT(40) DEF LifeInv, PanelInv
  <2> QED
    BY ZenonT(40), <2>2, <2>3, <2>4
<1> QED
  BY <1>1, LifeInvariant, PTL

(* An edit of the configuration file is lost only to the three seconds in  *)
(* which the handler of main.go discards events.                           *)
THEOREM EditsReachPanel == LifeSpec => []StaleOnlyByDebounce
<1>1. LifeInv => StaleOnlyByDebounce
  BY DEF LifeInv, FileInv, StaleOnlyByDebounce
<1> QED
  BY <1>1, LifeInvariant, PTL
=============================================================================
