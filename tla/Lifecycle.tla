----------------------------- MODULE Lifecycle -----------------------------
(***************************************************************************)
(* Start, hot reload and shutdown of the program: the main goroutine and   *)
(* the configuration watcher (main/main.go) start and close the panel      *)
(* (panel/panel.go), which starts and closes one controller per node       *)
(* (controller.Start, Close, runMonitor), whose monitors are run by        *)
(* task.Periodic timers (third_party/xray-core/common/task/periodic.go).   *)
(*                                                                         *)
(* Each Panel.Start makes a new generation of controllers and timers; what *)
(* is left of an older one goes on running beside it.                      *)
(***************************************************************************)
EXTENDS Integers, FiniteSets

CONSTANTS
  MaxGen,   \* bound: generations of the panel
  N,        \* controllers of a panel
  T,        \* monitors of a controller
  MaxEdits  \* bound: edits of the configuration file

ASSUME SizesAssumption ==
  MaxGen \in Nat \ {0} /\ N \in Nat \ {0} /\ T \in Nat \ {0} /\ MaxEdits \in Nat

Gens == 1..MaxGen
Controllers == Gens \X (1..N)
Periodics == Gens \X (1..N) \X (1..T)
Callers == {"main", "watcher"}

VARIABLES
  proc,      \* the process: "up", "crashed" or "exited"
  op,        \* what each caller is about
  lock,      \* Panel.access: its holder or "none"
  gen,       \* the last generation started
  services,  \* number of controllers in Panel.Service
  server,    \* generations whose core.Instance is up
  cursor,    \* the controller the holder of the lock is at
  taskAt,    \* the task Controller.Close is at; 0 before it marked monitorClosed
  ctl,       \* state of each controller
  monitorWG, \* its monitorWG
  running,   \* Periodic.running
  timer,     \* Periodic.timer is armed
  starting,  \* the Periodic's Start has not returned (taskStartWG)
  at,        \* where the Periodic's goroutine is
  file,      \* the version of the configuration file
  events,    \* events of the file the watcher has not received
  read,      \* the version viper read last
  applied,   \* the version panelConfig holds
  cool,      \* less than three seconds since lastTime
  missed     \* history: an event was discarded since the last reload

fileVars == <<file, events, read, applied, cool, missed>>
lifeVars == <<proc, op, lock, gen, services, server, cursor, taskAt, ctl,
              monitorWG, running, timer, starting, at, fileVars>>
panelVars == <<proc, op, lock, gen, services, server, cursor, taskAt, fileVars>>
timerVars == <<running, timer, starting, at>>

LifeTypeOK ==
  /\ proc \in {"up", "crashed", "exited"}
  /\ op \in [Callers -> {"start", "idle", "close", "exit"}]
  /\ lock \in Callers \cup {"none"}
  /\ gen \in 0..MaxGen
  /\ services \in {0, N}
  /\ server \subseteq {gen}
  /\ cursor \in 1..(N + 1) /\ taskAt \in 0..(T + 1)
  /\ ctl \in [Controllers -> {"none", "open", "closing", "closed"}]
  /\ monitorWG \in [Controllers -> 0..T]
  /\ running \in [Periodics -> BOOLEAN]
  /\ timer \in [Periodics -> BOOLEAN]
  /\ starting \in [Periodics -> BOOLEAN]
  /\ at \in [Periodics -> {"idle", "start", "check", "enter", "monitor", "rearm"}]
  /\ file \in 0..MaxEdits /\ events \in 0..file
  /\ read \in 0..file /\ applied \in 0..read
  /\ cool \in BOOLEAN /\ missed \in BOOLEAN

LifeInit ==
  /\ proc = "up"
  /\ op = [w \in Callers |-> IF w = "main" THEN "start" ELSE "idle"]
  /\ lock = "none"
  /\ gen = 0 /\ services = 0 /\ server = {}
  /\ cursor = 1 /\ taskAt = 0
  /\ ctl = [c \in Controllers |-> "none"]
  /\ monitorWG = [c \in Controllers |-> 0]
  /\ running = [p \in Periodics |-> FALSE]
  /\ timer = [p \in Periodics |-> FALSE]
  /\ starting = [p \in Periodics |-> FALSE]
  /\ at = [p \in Periodics |-> "idle"]
  /\ file = 0 /\ events = 0 /\ read = 0 /\ applied = 0
  /\ cool = TRUE /\ missed = FALSE

Of(c) == {p \in Periodics : p[1] = c[1] /\ p[2] = c[2]}

-----------------------------------------------------------------------------
(* The main goroutine and the watcher.                                     *)

Signal ==
  /\ proc = "up" /\ op["main"] = "idle"
  /\ op' = [op EXCEPT !["main"] = "close"]
  /\ UNCHANGED <<proc, lock, gen, services, server, cursor, taskAt, ctl,
                 monitorWG, timerVars, fileVars>>

\* main returns after its deferred p.Close().
Exit ==
  /\ proc = "up" /\ op["main"] = "exit"
  /\ proc' = "exited"
  /\ UNCHANGED <<op, lock, gen, services, server, cursor, taskAt, ctl,
                 monitorWG, timerVars, fileVars>>

\* Someone edits the file.
Edit ==
  /\ proc = "up" /\ file < MaxEdits
  /\ file' = file + 1 /\ events' = events + 1
  /\ UNCHANGED <<proc, op, lock, gen, services, server, cursor, taskAt, ctl,
                 monitorWG, timerVars, read, applied, cool, missed>>

\* Three seconds have passed since lastTime; main has entered Panel.Start by
\* then.
WindowEnds ==
  /\ proc = "up" /\ cool /\ gen > 0
  /\ cool' = FALSE
  /\ UNCHANGED <<proc, op, lock, gen, services, server, cursor, taskAt, ctl,
                 monitorWG, timerVars, file, events, read, applied, missed>>

\* viper, in the watcher's goroutine, reads the file and calls the handler,
Receive ==
  /\ proc = "up" /\ op["watcher"] = "idle" /\ events > 0
  /\ events' = events - 1
  /\ read' = file
  /\ UNCHANGED <<proc, lock, gen, services, server, cursor, taskAt, ctl,
                 monitorWG, timerVars, file, applied, cool>>

\* which discards the event ...
Discard ==
  /\ Receive /\ cool
  /\ missed' = TRUE
  /\ UNCHANGED op

\* ... or reloads, beginning with p.Close().
ConfigChange ==
  /\ Receive /\ ~cool
  /\ gen < MaxGen
  /\ op' = [op EXCEPT !["watcher"] = "close"]
  /\ UNCHANGED missed

-----------------------------------------------------------------------------
(* Panel.Start.                                                            *)

\* Lock the panel, load and start a new core.
StartPanel(w) ==
  /\ proc = "up" /\ op[w] = "start" /\ lock = "none"
  /\ lock' = w
  /\ gen' = gen + 1
  /\ server' = server \cup {gen + 1}
  /\ services' = N
  /\ cursor' = 1
  /\ UNCHANGED <<proc, op, taskAt, ctl, monitorWG, timerVars, fileVars>>

\* Controller.Start: the goroutines of its Periodics are started.
StartService(w) ==
  LET c == <<gen, cursor>>
  IN  /\ proc = "up" /\ op[w] = "start" /\ lock = w /\ cursor <= services
      /\ ctl' = [ctl EXCEPT ![c] = "open"]
      /\ starting' = [p \in Periodics |-> starting[p] \/ p \in Of(c)]
      /\ at' = [p \in Periodics |-> IF p \in Of(c) THEN "start" ELSE at[p]]
      /\ cursor' = cursor + 1
      /\ UNCHANGED <<proc, op, lock, gen, services, server, taskAt, monitorWG,
                     running, timer, fileVars>>

\* loadCore, a Controller.Start or the parsing of the file fails.
StartPanics(w) ==
  /\ proc = "up" /\ op[w] = "start"
  /\ w = "main" => lock = w
  /\ proc' = "crashed"
  /\ UNCHANGED <<op, lock, gen, services, server, cursor, taskAt, ctl,
                 monitorWG, timerVars, fileVars>>

\* Panel.Start returns; the watcher's handler sets lastTime.
StartReturns(w) ==
  /\ proc = "up" /\ op[w] = "start" /\ lock = w /\ cursor > services
  /\ lock' = "none"
  /\ op' = [op EXCEPT ![w] = "idle"]
  /\ cool' = (cool \/ w = "watcher")
  /\ UNCHANGED <<proc, gen, services, server, cursor, taskAt, ctl, monitorWG,
                 timerVars, file, events, read, applied, missed>>

-----------------------------------------------------------------------------
(* Panel.Close and Controller.Close.                                       *)

ClosePanel(w) ==
  /\ proc = "up" /\ op[w] = "close" /\ lock = "none"
  /\ lock' = w
  /\ cursor' = 1 /\ taskAt' = 0
  /\ UNCHANGED <<proc, op, gen, services, server, ctl, monitorWG, timerVars, fileVars>>

Closing(w) == proc = "up" /\ op[w] = "close" /\ lock = w /\ cursor <= services

\* taskStartWG.Wait, then monitorClosed is set.
MarkClosed(w) ==
  LET c == <<gen, cursor>>
  IN  /\ Closing(w) /\ taskAt = 0
      /\ \A p \in Of(c) : ~starting[p]
      /\ ctl' = [ctl EXCEPT ![c] = "closing"]
      /\ taskAt' = 1
      /\ UNCHANGED <<proc, op, lock, gen, services, server, cursor, monitorWG,
                     timerVars, fileVars>>

\* Periodic.Close of the next task.
CloseTask(w) ==
  LET p == <<gen, cursor, taskAt>>
  IN  /\ Closing(w) /\ taskAt \in 1..T
      /\ running' = [running EXCEPT ![p] = FALSE]
      /\ timer' = [timer EXCEPT ![p] = FALSE]
      /\ taskAt' = taskAt + 1
      /\ UNCHANGED <<proc, op, lock, gen, services, server, cursor, ctl,
                     monitorWG, starting, at, fileVars>>

\* Mutant: Close does not wait for the monitors.
ReturnAtOnce(w) ==
  LET c == <<gen, cursor>>
  IN  /\ Closing(w) /\ taskAt = T + 1
      /\ ctl' = [ctl EXCEPT ![c] = "closed"]
      /\ cursor' = cursor + 1 /\ taskAt' = 0
      /\ UNCHANGED <<proc, op, lock, gen, services, server, monitorWG, timerVars, fileVars>>

\* monitorWG.Wait, then Close returns.
ServiceClosed(w) ==
  LET c == <<gen, cursor>>
  IN  /\ Closing(w) /\ taskAt = T + 1 /\ monitorWG[c] = 0
      /\ ctl' = [ctl EXCEPT ![c] = "closed"]
      /\ cursor' = cursor + 1 /\ taskAt' = 0
      /\ UNCHANGED <<proc, op, lock, gen, services, server, monitorWG, timerVars, fileVars>>

CloseCore(w) ==
  /\ proc = "up" /\ op[w] = "close" /\ lock = w /\ cursor > services
  /\ services' = 0
  /\ server' = server \ {gen}
  /\ lock' = "none"
  /\ op' = [op EXCEPT ![w] = IF w = "main" THEN "exit" ELSE "start"]
  /\ UNCHANGED <<proc, gen, cursor, taskAt, ctl, monitorWG, timerVars>>

\* Mutant: the panel is started again without parsing what was read.
CloseReturnsUnparsed(w) == CloseCore(w) /\ UNCHANGED fileVars

\* Panel.Service = nil, Server.Close(); the watcher parses what viper read
\* and goes on to p.Start(), main returns.
CloseReturns(w) ==
  /\ CloseCore(w)
  /\ applied' = IF w = "watcher" THEN read ELSE applied
  /\ missed' = (missed /\ w # "watcher")
  /\ UNCHANGED <<file, events, read, cool>>

-----------------------------------------------------------------------------
(* task.Periodic and runMonitor.                                           *)

\* Periodic.Start marks the task running ...
PeriodicStart(p) ==
  /\ proc = "up" /\ at[p] = "start"
  /\ running' = [running EXCEPT ![p] = TRUE]
  /\ at' = [at EXCEPT ![p] = "check"]
  /\ UNCHANGED <<panelVars, ctl, monitorWG, timer, starting>>

TimerFires(p) ==
  /\ proc = "up" /\ timer[p]
  /\ timer' = [timer EXCEPT ![p] = FALSE]
  /\ at' = [at EXCEPT ![p] = "check"]
  /\ UNCHANGED <<panelVars, ctl, monitorWG, running, starting>>

\* ... checkedExecute: hasClosed, ...
CheckClosed(p) ==
  /\ proc = "up" /\ at[p] = "check"
  /\ at' = [at EXCEPT ![p] = IF running[p] THEN "enter" ELSE "idle"]
  /\ starting' = [starting EXCEPT ![p] = @ /\ running[p]]
  /\ UNCHANGED <<panelVars, ctl, monitorWG, running, timer>>

\* ... runMonitor under monitorMu, ...
RunMonitor(p) ==
  LET c == <<p[1], p[2]>>
  IN  /\ proc = "up" /\ at[p] = "enter"
      /\ IF ctl[c] = "open"
           THEN /\ monitorWG' = [monitorWG EXCEPT ![c] = @ + 1]
                /\ at' = [at EXCEPT ![p] = "monitor"]
           ELSE /\ at' = [at EXCEPT ![p] = "rearm"]
                /\ UNCHANGED monitorWG
      /\ UNCHANGED <<panelVars, ctl, running, timer, starting>>

\* ... the monitor, which always returns nil, ...
MonitorReturns(p) ==
  LET c == <<p[1], p[2]>>
  IN  /\ proc = "up" /\ at[p] = "monitor"
      /\ monitorWG' = [monitorWG EXCEPT ![c] = @ - 1]
      /\ at' = [at EXCEPT ![p] = "rearm"]
      /\ UNCHANGED <<panelVars, ctl, running, timer, starting>>

\* Mutant: only the first execution arms the timer.
RearmOnce(p) ==
  /\ proc = "up" /\ at[p] = "rearm"
  /\ timer' = [timer EXCEPT ![p] = running[p] /\ starting[p]]
  /\ at' = [at EXCEPT ![p] = "idle"]
  /\ starting' = [starting EXCEPT ![p] = FALSE]
  /\ UNCHANGED <<panelVars, ctl, monitorWG, running>>

\* Mutant: the goroutine that started the task does not end.
RearmInStart(p) ==
  /\ proc = "up" /\ at[p] = "rearm"
  /\ timer' = [timer EXCEPT ![p] = running[p]]
  /\ at' = [at EXCEPT ![p] = "idle"]
  /\ UNCHANGED <<panelVars, ctl, monitorWG, running, starting>>

\* ... and the next timer unless the task was closed.
Rearm(p) ==
  /\ proc = "up" /\ at[p] = "rearm"
  /\ timer' = [timer EXCEPT ![p] = running[p]]
  /\ at' = [at EXCEPT ![p] = "idle"]
  /\ starting' = [starting EXCEPT ![p] = FALSE]
  /\ UNCHANGED <<panelVars, ctl, monitorWG, running>>

-----------------------------------------------------------------------------
PanelStep(w) ==
  \/ StartPanel(w) \/ StartService(w) \/ StartReturns(w)
  \/ ClosePanel(w) \/ MarkClosed(w) \/ CloseTask(w)
  \/ ServiceClosed(w) \/ CloseReturns(w)

PeriodicStep(p) ==
  \/ PeriodicStart(p) \/ TimerFires(p) \/ CheckClosed(p)
  \/ RunMonitor(p) \/ MonitorReturns(p) \/ Rearm(p)

\* The process is gone.
Gone == proc # "up" /\ UNCHANGED lifeVars

LifeNext ==
  \/ Signal \/ Exit
  \/ Edit \/ WindowEnds \/ Discard \/ ConfigChange
  \/ \E w \in Callers : PanelStep(w) \/ StartPanics(w)
  \/ \E p \in Periodics : PeriodicStep(p)
  \/ Gone

\* Goroutines are scheduled, timers fire, and monitors return: their calls
\* of the panel's API have a timeout.
LifeFairness ==
  /\ WF_lifeVars(Exit)
  /\ \A w \in Callers : WF_lifeVars(PanelStep(w))
  /\ \A p \in Periodics : WF_lifeVars(PeriodicStep(p))

LifeSpec == LifeInit /\ [][LifeNext]_lifeVars /\ LifeFairness

-----------------------------------------------------------------------------
(* Once Controller.Close has returned, however the timers raced with it,   *)
(* no monitor of the controller is executing, and none will be: no timer   *)
(* of it is armed and none of its tasks is marked running.  Monitors of    *)
(* two generations never overlap, and the core a monitor works on is up.   *)
ClosedIsQuiet ==
  \A p \in Periodics :
    /\ at[p] = "monitor" =>
         ctl[<<p[1], p[2]>>] \in {"open", "closing"} /\ p[1] \in server
    /\ ctl[<<p[1], p[2]>>] = "closed" => ~timer[p] /\ ~running[p]

(* Panel.Close returns: the waits of Controller.Close for starting tasks   *)
(* and for monitors in flight end, and a reload reaches p.Start().         *)
ClosesReturn ==
  \A w \in Callers : (op[w] = "close") ~> (op[w] # "close" \/ proc # "up")

(* The panel runs with what is in the file unless an event is still to be  *)
(* received, a reload is in progress or the handler discarded an event,    *)
(* within three seconds of the start or of the end of the last reload:     *)
(* nothing else loses an edit, also one made during a reload.              *)
StaleOnlyByDebounce ==
  applied # file => events > 0 \/ op["watcher"] # "idle" \/ missed

(* Every monitor of an open controller is executed again and again; a      *)
(* Periodic is never left without a timer.                                 *)
MonitorsKeepRunning ==
  \A p \in Periodics :
    (ctl[<<p[1], p[2]>>] = "open") ~>
      (at[p] = "monitor" \/ ctl[<<p[1], p[2]>>] # "open" \/ proc # "up")
-----------------------------------------------------------------------------
(* Why no monitor outlives Controller.Close.                               *)

Owner(p) == <<p[1], p[2]>>
InMonitor(c) == {p \in Of(c) : at[p] = "monitor"}

(* The panel: its lock serialises Start and Close, main starts only before *)
(* and the watcher only after a Close, so that every open controller is of *)
(* the last generation and the one being closed is the one under cursor.   *)
PanelInv ==
  /\ lock # "none" => op[lock] \in {"start", "close"}
  /\ gen = 0 => cool /\ op["watcher"] = "idle"
  /\ op["main"] = "start" /\ lock # "main" => gen = 0
  /\ op["watcher"] = "start" => op["main"] # "start"
  /\ op["watcher"] \in {"start", "close"} /\ gen = MaxGen =>
       op["watcher"] = "start" /\ lock = "watcher"
  /\ \A w \in Callers : op[w] = "start" => services = IF lock = w THEN N ELSE 0
  /\ services = N <=> gen \in server
  /\ \A c \in Controllers :
       /\ c[1] > gen => ctl[c] = "none"
       /\ ctl[c] \in {"open", "closing"} => c[1] = gen /\ services = N
       /\ ctl[c] = "closing" =>
            lock # "none" /\ op[lock] = "close" /\ c[2] = cursor /\ taskAt > 0
       /\ lock # "none" /\ op[lock] = "start" /\ c[1] = gen /\ c[2] >= cursor =>
            ctl[c] = "none"
       /\ lock # "none" /\ op[lock] = "close" /\ c[1] = gen /\ services = N =>
            /\ c[2] < cursor => ctl[c] = "closed"
            /\ c[2] = cursor /\ taskAt > 0 => ctl[c] = "closing"

(* The tasks: a controller's WaitGroups count what they stand for, and a   *)
(* task Close has passed is neither armed nor marked running again.        *)
TaskInv ==
  /\ \A p \in Periodics :
       /\ ctl[Owner(p)] = "none" =>
            at[p] = "idle" /\ ~timer[p] /\ ~running[p] /\ ~starting[p]
       /\ timer[p] => at[p] = "idle"
       /\ starting[p] => ctl[Owner(p)] = "open"
       /\ at[p] = "start" => starting[p]
       /\ at[p] = "monitor" => ctl[Owner(p)] \in {"open", "closing"}
       /\ \/ ctl[Owner(p)] = "closing" /\ p[3] < taskAt
          \/ ctl[Owner(p)] = "closed"
          => ~timer[p] /\ ~running[p]
  /\ \A c \in Controllers : monitorWG[c] = Cardinality(InMonitor(c))

(* The file: what viper has not read is announced by an event, and what    *)
(* the panel does not run with is about to be parsed or was discarded.     *)
FileInv ==
  /\ read # file => events > 0
  /\ applied # read => op["watcher"] = "close" \/ missed

LifeInv == LifeTypeOK /\ PanelInv /\ TaskInv /\ FileInv
=============================================================================
