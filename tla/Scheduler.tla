------------------------------- MODULE Scheduler -------------------------------
(***************************************************************************)
(* The resident batch scheduler (scheduler/scheduler.go, tasks.go,         *)
(* holidays.go).  Every process of `RESTGo scheduler [status|stop]` is an  *)
(* element of Pids and runs once.  A process that finds no live scheduler  *)
(* in the pid file writes its own pid there and looks at the task list on  *)
(* every tick; a task it starts is a script that outlives it.              *)
(*                                                                         *)
(* A day is DayLen units long; the ticker's 30 s is one unit, and TickGap  *)
(* bounds how late a tick may come.  A tick itself takes no time.          *)
(***************************************************************************)
EXTENDS Integers, FiniteSets

CONSTANTS
    NumTasks,    \* the task list is 1..NumTasks, in its order
    Time,        \* Time[t]: the unit of the day t is due at
    DependsOn,   \* DependsOn[t]: the task t waits for, or 0
    Condition,   \* Condition[t]: "always", "trading" or "first"
    LastDay,     \* bound: the calendar is days 1..LastDay
    DayLen,      \* units in a day
    Window,      \* inTimeWindow: 2 minutes
    TickGap,     \* bound: the most units between two ticks
    Weekdays, Holidays, FirstDays,   \* the calendar
    YearOf,      \* YearOf[d]: the year of day d
    FileYears,   \* the years the holiday file may cover; 0: it cannot be read
    Pids,        \* bound: the processes that may ever run
    Serial       \* whether start, status and stop are run one after another

Tasks == 1..NumTasks
Days == 1..LastDay
Units == 0..(DayLen - 1)

\* validateSchedule (times are HH:MM, a predecessor is in the list), and what the
\* ticker's period is to the window and to the minute.
ASSUME ScheduleAssumption ==
    /\ NumTasks \in Nat \ {0} /\ LastDay \in Nat \ {0} /\ DayLen \in Nat \ {0}
    /\ Window \in Nat /\ TickGap \in Nat \ {0} /\ TickGap <= Window
    /\ Time \in [Tasks -> Units]
    /\ \A t \in Tasks : Time[t] + TickGap <= DayLen
    /\ DependsOn \in [Tasks -> 0..NumTasks]
    /\ Condition \in [Tasks -> {"always", "trading", "first"}]
    /\ YearOf \in [Days -> Nat] /\ FileYears \subseteq Nat
    /\ 0 \notin Pids /\ Serial \in BOOLEAN

VARIABLES
    day, clock,  \* now
    pidFile,     \* zpicture/scheduler.pid: a pid, or 0 when there is none
    pc,          \* pc[p]: where process p is
    today,       \* s.today
    completed,   \* s.completed: the <<day, task>> pairs not to be run any more
    next,        \* the task p's tick looks at next, 0 between ticks
    since,       \* units since p's last tick
    born,        \* <<day, clock>> of p's first tick
    list,        \* the year of the holiday list p holds, 0 for none
    launched,    \* launched[p][t]: times p started t today
    running      \* the scripts that run: <<pid, task, day>>

clockVars == <<day, clock>>
procVars == <<today, completed, next, since, born, list>>
jobVars == <<launched, running>>
vars == <<clockVars, pidFile, pc, procVars, jobVars>>

\* A scheduler that got SIGTERM is "stopping" until its select sees stopCh.
Live == {"up", "stopping"}
Alive(p) == pc[p] \in Live
\* Mutant: looks for the pid file in another directory, where there is none.
IsRunningElsewhere == FALSE
\* The path of the pid file is relative: all commands are given from one directory.
IsRunning == \E p \in Pids : pidFile = p /\ Alive(p)

Init ==
    /\ day = 1 /\ clock = 0
    /\ pidFile = 0
    /\ pc = [p \in Pids |-> "new"]
    /\ today = [p \in Pids |-> 1]
    /\ completed = [p \in Pids |-> {}]
    /\ next = [p \in Pids |-> 0]
    /\ since = [p \in Pids |-> 0]
    /\ born = [p \in Pids |-> <<1, 0>>]
    /\ list = [p \in Pids |-> 0]
    /\ launched = [p \in Pids |-> [t \in Tasks |-> 0]]
    /\ running = {}

-----------------------------------------------------------------------------
\* Processes.

\* A command line may be given: in a serial world no other is half done.
MayBegin(p) == /\ pc[p] = "new"
               /\ Serial => \A q \in Pids : pc[q] \notin {"checked", "clean"}

\* run: no live scheduler found; holidays are loaded before the pid is written.
Check(p) ==
    /\ MayBegin(p)
    /\ ~IsRunning
    /\ pc' = [pc EXCEPT ![p] = "checked"]
    /\ UNCHANGED <<clockVars, pidFile, procVars, jobVars>>

\* Mutant: the removal of the pid file is deferred before the check.
RefuseRemovesPid(p) ==
    /\ MayBegin(p)
    /\ IsRunning
    /\ pc' = [pc EXCEPT ![p] = "dead"]
    /\ pidFile' = 0
    /\ UNCHANGED <<clockVars, procVars, jobVars>>

\* run: "already running", os.Exit(1).
Refuse(p) ==
    /\ MayBegin(p)
    /\ IsRunning
    /\ pc' = [pc EXCEPT ![p] = "dead"]
    /\ UNCHANGED <<clockVars, pidFile, procVars, jobVars>>

\* run from LoadKRXHolidays to the first tick, which follows at once.
WritePID(p) ==
    /\ pc[p] = "checked"
    /\ pidFile' = p
    /\ pc' = [pc EXCEPT ![p] = "up"]
    /\ \E y \in FileYears : list' = [list EXCEPT ![p] = y]
    /\ today' = [today EXCEPT ![p] = day]
    /\ completed' = [completed EXCEPT ![p] = {}]
    /\ next' = [next EXCEPT ![p] = 1]
    /\ since' = [since EXCEPT ![p] = 0]
    /\ born' = [born EXCEPT ![p] = <<day, clock>>]
    /\ UNCHANGED <<clockVars, jobVars>>

\* status: removes a pid file whose process is dead.
Status(p) ==
    /\ MayBegin(p)
    /\ pc' = [pc EXCEPT ![p] = IF pidFile # 0 /\ ~IsRunning THEN "clean" ELSE "dead"]
    /\ UNCHANGED <<clockVars, pidFile, procVars, jobVars>>

\* stop: SIGTERM to a live scheduler, else removes the pid file.
Stop(p) ==
    /\ MayBegin(p)
    /\ pc' = IF IsRunning THEN [pc EXCEPT ![p] = "dead", ![pidFile] = "stopping"]
             ELSE [pc EXCEPT ![p] = "clean"]
    /\ UNCHANGED <<clockVars, pidFile, procVars, jobVars>>

\* The os.Remove of status and stop.
CleanUp(p) ==
    /\ pc[p] = "clean"
    /\ pidFile' = 0
    /\ pc' = [pc EXCEPT ![p] = "dead"]
    /\ UNCHANGED <<clockVars, procVars, jobVars>>

\* run returns: the deferred os.Remove takes whatever pid file there is.
Quit(p) ==
    /\ pc[p] = "stopping" /\ next[p] = 0
    /\ pidFile' = 0
    /\ pc' = [pc EXCEPT ![p] = "dead"]
    /\ UNCHANGED <<clockVars, procVars, jobVars>>

\* SIGKILL, a fatal error, a reboot; also SIGTERM before signal.Notify.
Crash(p) ==
    /\ pc[p] \in Live \cup {"checked", "clean"}
    /\ pc' = [pc EXCEPT ![p] = "dead"]
    /\ next' = [next EXCEPT ![p] = 0]
    /\ UNCHANGED <<clockVars, pidFile, today, completed, since, born, list, jobVars>>

-----------------------------------------------------------------------------
\* Ticks.

\* tick up to its loop: a new day empties completed.
BeginTick(p) ==
    /\ Alive(p) /\ next[p] = 0 /\ since[p] > 0
    /\ next' = [next EXCEPT ![p] = 1]
    /\ since' = [since EXCEPT ![p] = 0]
    /\ today' = [today EXCEPT ![p] = day]
    /\ completed' = [completed EXCEPT ![p] = IF today[p] = day THEN @ ELSE {}]
    /\ UNCHANGED <<clockVars, pidFile, pc, born, list, jobVars>>

\* isTradingDay and isFirstOfMonth, with the list p holds.
IsHoliday(p) == list[p] # 0 /\ YearOf[day] = list[p] /\ day \in Holidays
ConditionMet(p, t) ==
    CASE Condition[t] = "trading" -> day \in Weekdays /\ ~IsHoliday(p)
      [] Condition[t] = "first"   -> day \in FirstDays
      [] OTHER                    -> TRUE

\* Mutant: diff > 0.
InTimeWindowAfter(t) == Time[t] < clock /\ clock < Time[t] + Window
InTimeWindow(t) == Time[t] <= clock /\ clock < Time[t] + Window

Done(p, t) == <<today[p], t>> \in completed[p]

\* Mutants: the wait also ends with the window; the predecessor is not looked up.
DependencyMetInWindow(p, t) == InTimeWindow(t) /\ Done(p, DependsOn[t])
DependencyMetByTime(p, t) == Time[t] <= clock
\* isPastTime and the predecessor's mark.
DependencyMet(p, t) == Time[t] <= clock /\ Done(p, DependsOn[t])

\* shouldRun, after the check of the condition.
Due(p, t) == IF DependsOn[t] # 0 THEN DependencyMet(p, t) ELSE InTimeWindow(t)

\* Mutant: marks a task when its script has ended, not when it starts.
MarkLater(p, t) == UNCHANGED completed
Mark(p, t) == completed' = [completed EXCEPT ![p] = @ \cup {<<today[p], t>>}]

\* dispatch: the mark, then the goroutine that runs the script.
Dispatch(p, t) ==
    /\ Mark(p, t)
    /\ launched' = [launched EXCEPT ![p][t] = @ + 1]
    /\ running' = running \cup {<<p, t, day>>}

AfterTask(t) == IF t = NumTasks THEN 0 ELSE t + 1

\* One round of tick's loop.
Consider(p) ==
    /\ Alive(p) /\ next[p] \in Tasks
    /\ LET t == next[p]
       IN  /\ next' = [next EXCEPT ![p] = AfterTask(t)]
           /\ \/ /\ Done(p, t) \/ (ConditionMet(p, t) /\ ~Due(p, t))
                 /\ UNCHANGED <<completed, launched, running>>
              \/ /\ ~Done(p, t) /\ ~ConditionMet(p, t)
                 /\ completed' = [completed EXCEPT ![p] = @ \cup {<<today[p], t>>}]
                 /\ UNCHANGED <<launched, running>>
              \/ /\ ~Done(p, t) /\ ConditionMet(p, t) /\ Due(p, t)
                 /\ Dispatch(p, t)
    /\ UNCHANGED <<clockVars, pidFile, pc, today, since, born, list>>

\* A script ends, well or not: what is made of its exit status is a message only.
JobEnds(j) ==
    /\ running' = running \ {j}
    /\ UNCHANGED <<clockVars, pidFile, pc, procVars, launched>>

-----------------------------------------------------------------------------
\* Time: it passes while no tick is under way or overdue.
TimePasses ==
    /\ \A p \in Pids : Alive(p) => next[p] = 0 /\ since[p] < TickGap
    /\ since' = [p \in Pids |-> IF Alive(p) THEN since[p] + 1 ELSE since[p]]
    /\ UNCHANGED <<pidFile, pc, today, completed, next, born, list,
                   running>>

SameDay == /\ clock < DayLen - 1
           /\ TimePasses
           /\ clock' = clock + 1
           /\ UNCHANGED <<day, launched>>

NewDay == /\ clock = DayLen - 1 /\ day < LastDay
          /\ TimePasses
          /\ clock' = 0 /\ day' = day + 1
          /\ launched' = [p \in Pids |-> [t \in Tasks |-> 0]]

Next ==
    \/ SameDay
    \/ NewDay
    \/ \E p \in Pids :
          \/ Check(p) \/ Refuse(p) \/ WritePID(p)
          \/ Status(p) \/ Stop(p) \/ CleanUp(p)
          \/ Quit(p) \/ Crash(p)
          \/ BeginTick(p) \/ Consider(p)
    \/ \E j \in running : JobEnds(j)

Spec == Init /\ [][Next]_vars

-----------------------------------------------------------------------------
\* Properties.

\* Type correctness of every variable.
TypeOK ==
    /\ day \in Days /\ clock \in Units
    /\ pidFile \in Pids \cup {0}
    /\ pc \in [Pids -> {"new", "checked", "up", "stopping", "clean", "dead"}]
    /\ today \in [Pids -> Days]
    /\ completed \in [Pids -> SUBSET (Days \X Tasks)]
    /\ next \in [Pids -> 0..NumTasks]
    /\ since \in [Pids -> 0..TickGap]
    /\ born \in [Pids -> Days \X Units]
    /\ list \in [Pids -> FileYears \cup {0}]
    /\ launched \in [Pids -> [Tasks -> Nat]]
    /\ running \subseteq Pids \X Tasks \X Days

\* The window is four ticks wide and a script outlives its window: still, one
\* scheduler process starts a task at most once a day (scheduler.go:141,167).
OncePerInstance == \A p \in Pids, t \in Tasks : launched[p][t] <= 1

\* The tick after day d's midnight, and the ones that come late: a scheduler that
\* was up when the window of a task had not passed has started it by the first
\* tick at or after its time (scheduler.go:271-280).
CameUpInTime(p, t) == born[p][1] < day \/ born[p][2] < Time[t] + Window
NoMissedWindow ==
    \A p \in Pids, t \in Tasks :
        /\ Alive(p) /\ next[p] = 0
        /\ DependsOn[t] = 0 /\ ConditionMet(p, t) /\ CameUpInTime(p, t)
        /\ clock - since[p] >= Time[t]
        => launched[p][t] = 1

\* A task with a predecessor waits for it however late it is (scheduler.go:151): no
\* day ends with a task, dependent or not, neither started nor skipped by a
\* scheduler that was up in time for the tasks that depend on nothing.
DayEndsDone ==
    [][day' # day =>
        \A p \in Pids, t \in Tasks :
            /\ Alive(p) /\ ConditionMet(p, t)
            /\ \A r \in Tasks : DependsOn[r] = 0 => CameUpInTime(p, r)
            => launched[p][t] = 1]_vars

\* A dependent is never started before its predecessor was started or skipped
\* that day by the same scheduler (scheduler.go:155).
PredecessorFirst ==
    \A p \in Pids, t \in Tasks :
        Alive(p) /\ DependsOn[t] # 0 /\ launched[p][t] > 0 =>
            \/ launched[p][DependsOn[t]] > 0
            \/ ~ConditionMet(p, DependsOn[t])

\* While commands are given one after another: a scheduler that is up is the one
\* the pid file names, so that stop finds it, and there is no second one.
UpIsFindable == \A p \in Pids : Alive(p) => pidFile = p

\* tasks.go:1: the batches are managed by a single resident process.
SingleInstance == Cardinality({p \in Pids : Alive(p)}) <= 1

=============================================================================
