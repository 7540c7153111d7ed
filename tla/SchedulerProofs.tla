--------------------------- MODULE SchedulerProofs ---------------------------
(***************************************************************************)
(* Theorems about Scheduler, for any task list, calendar, tick period and  *)
(* number of processes that ScheduleAssumption allows.                     *)
(***************************************************************************)
EXTENDS Scheduler, NaturalsInduction, WellFoundedInduction, FiniteSetTheorems, TLAPS

\* A tick in progress is of a live process, began now and knows the day.
TickInv ==
    \A p \in Pids : next[p] # 0 => Alive(p) /\ since[p] = 0 /\ today[p] = day

\* completed holds keys of one day, which is not after now.
KeysInv ==
    \A p \in Pids : today[p] <= day /\ \A k \in completed[p] : k[1] = today[p]

\* What a process started is marked, and what it never did is not counted.
LaunchInv ==
    \A p \in Pids, t \in Tasks :
        /\ launched[p][t] <= 1
        /\ launched[p][t] = 1 /\ Alive(p) => <<day, t>> \in completed[p]
        /\ pc[p] \in {"new", "checked"} => launched[p][t] = 0

\* What is marked today, and is to run today, was started.
MarkInv ==
    \A p \in Pids, t \in Tasks :
        Alive(p) /\ <<day, t>> \in completed[p] /\ ConditionMet(p, t) => launched[p][t] = 1

\* An independent task that the last tick reached at or after its time was
\* started; one the current tick has yet to reach was, or is in its window.
Covered(p, t) ==
    /\ (next[p] = 0 \/ t < next[p]) /\ clock - since[p] >= Time[t] => launched[p][t] = 1
    /\ next[p] # 0 /\ t >= next[p] /\ Time[t] <= clock =>
          launched[p][t] = 1 \/ clock < Time[t] + Window
Independent(p, t) == /\ Alive(p) /\ DependsOn[t] = 0
                     /\ ConditionMet(p, t) /\ CameUpInTime(p, t)
WindowInv == \A p \in Pids, t \in Tasks : Independent(p, t) => Covered(p, t)

IInv == TypeOK /\ TickInv /\ KeysInv /\ LaunchInv /\ MarkInv /\ WindowInv

-----------------------------------------------------------------------------
\* Type correctness.

LEMMA InitType == Init => TypeOK
BY ScheduleAssumption DEF Init, TypeOK, Days, Units, Tasks

\* Every step keeps every variable in its type.
LEMMA NextType == TypeOK /\ [Next]_vars => TypeOK'
<1> SUFFICES ASSUME TypeOK, [Next]_vars PROVE TypeOK'
  OBVIOUS
<1> USE ScheduleAssumption DEF TypeOK
<1>1. CASE SameDay
  <2>1. day' \in Days /\ clock' \in Units BY <1>1 DEF SameDay, Units
  <2>2. since' \in [Pids -> 0..TickGap] BY <1>1 DEF SameDay, TimePasses
  <2>3. QED BY <1>1, <2>1, <2>2 DEF SameDay, TimePasses
<1>2. CASE NewDay
  <2>1. day' \in Days /\ clock' \in Units BY <1>2 DEF NewDay, Days, Units
  <2>2. launched' \in [Pids -> [Tasks -> Nat]] BY <1>2 DEF NewDay
  <2>3. since' \in [Pids -> 0..TickGap] BY <1>2 DEF NewDay, TimePasses
  <2>4. QED BY <1>2, <2>1, <2>2, <2>3 DEF NewDay, TimePasses
<1>3. ASSUME NEW p \in Pids, Check(p) \/ Refuse(p) \/ Status(p) PROVE TypeOK'
  BY <1>3 DEF Check, Refuse, Status, clockVars, procVars, jobVars
<1>4. ASSUME NEW p \in Pids, WritePID(p) PROVE TypeOK'
  <2>1. 1 \in 0..NumTasks /\ 0 \in 0..TickGap BY DEF Tasks
  <2>2. /\ next' \in [Pids -> 0..NumTasks] /\ since' \in [Pids -> 0..TickGap]
        /\ completed' \in [Pids -> SUBSET (Days \X Tasks)]
    BY <1>4, <2>1 DEF WritePID
  <2>3. list' \in [Pids -> FileYears \cup {0}]
    BY <1>4 DEF WritePID
  <2>4. /\ pc' \in [Pids -> {"new", "checked", "up", "stopping", "clean", "dead"}]
        /\ today' \in [Pids -> Days] /\ born' \in [Pids -> Days \X Units]
    BY <1>4 DEF WritePID
  <2>5. QED BY <1>4, <2>2, <2>3, <2>4 DEF WritePID, clockVars, jobVars
<1>5. ASSUME NEW p \in Pids, Stop(p) PROVE TypeOK'
  BY <1>5 DEF Stop, clockVars, procVars, jobVars
<1>6. ASSUME NEW p \in Pids, CleanUp(p) \/ Quit(p) PROVE TypeOK'
  BY <1>6 DEF CleanUp, Quit, clockVars, procVars, jobVars
<1>7. ASSUME NEW p \in Pids, Crash(p) PROVE TypeOK'
  BY <1>7 DEF Crash, clockVars, jobVars
<1>8. ASSUME NEW p \in Pids, BeginTick(p) PROVE TypeOK'
  <2>1. 1 \in 0..NumTasks /\ 0 \in 0..TickGap BY DEF Tasks
  <2>2. /\ next' \in [Pids -> 0..NumTasks] /\ since' \in [Pids -> 0..TickGap]
        /\ completed' \in [Pids -> SUBSET (Days \X Tasks)] /\ today' \in [Pids -> Days]
    BY <1>8, <2>1 DEF BeginTick
  <2>3. QED BY <1>8, <2>2 DEF BeginTick, clockVars, jobVars
<1>9. ASSUME NEW p \in Pids, Consider(p) PROVE TypeOK'
  <2> DEFINE t == next[p]
  <2>1. t \in Tasks /\ next' = [next EXCEPT ![p] = AfterTask(t)] BY <1>9 DEF Consider
  <2>2. next' \in [Pids -> 0..NumTasks]
    <3>1. \A u \in Tasks : AfterTask(u) \in 0..NumTasks
      <4>1. NumTasks \in Nat OBVIOUS
      <4>2. QED BY <4>1 DEF AfterTask, Tasks
    <3>2. QED BY <2>1, <3>1
  <2>3. <<today[p], t>> \in Days \X Tasks /\ <<p, t, day>> \in Pids \X Tasks \X Days
    BY <2>1
  <2>4. completed' \in [Pids -> SUBSET (Days \X Tasks)]
    <3>1. \/ completed' = completed
          \/ completed' = [completed EXCEPT ![p] = @ \cup {<<today[p], t>>}]
      BY <1>9 DEF Consider, Dispatch, Mark
    <3>2. completed[p] \cup {<<today[p], t>>} \in SUBSET (Days \X Tasks) BY <2>3
    <3>3. QED BY <3>1, <3>2
  <2>5. launched' \in [Pids -> [Tasks -> Nat]]
    <3>1. \/ launched' = launched
          \/ launched' = [launched EXCEPT ![p][t] = @ + 1]
      BY <1>9 DEF Consider, Dispatch
    <3>2. launched[p] \in [Tasks -> Nat] OBVIOUS
    <3>3. [launched[p] EXCEPT ![t] = @ + 1] \in [Tasks -> Nat] BY <2>1, <3>2
    <3>4. QED BY <3>1, <3>3
  <2>6. running' \subseteq Pids \X Tasks \X Days
    <3>1. running' = running \/ running' = running \cup {<<p, t, day>>}
      BY <1>9 DEF Consider, Dispatch
    <3>2. QED BY <2>3, <3>1
  <2>7. QED BY <1>9, <2>2, <2>4, <2>5, <2>6 DEF Consider, clockVars
<1>10. ASSUME NEW j \in running, JobEnds(j) PROVE TypeOK'
  BY <1>10 DEF JobEnds, clockVars, procVars
<1>11. CASE UNCHANGED vars
  BY <1>11 DEF vars, clockVars, procVars, jobVars
<1>12. QED BY <1>1, <1>2, <1>3, <1>4, <1>5, <1>6, <1>7, <1>8, <1>9, <1>10, <1>11 DEF Next

-----------------------------------------------------------------------------
\* The strengthening.

\* A step that leaves the clock, what a process holds and what it launched alone
\* keeps the invariant, if it brings no process up and forgets none's past.
LEMMA QuietStep ==
    ASSUME IInv, TypeOK', UNCHANGED <<day, clock, today, completed, since, born, list, launched>>,
           \A p \in Pids : (pc'[p] \in Live => pc[p] \in Live /\ next'[p] = next[p]),
           \A p \in Pids : (pc'[p] \in {"new", "checked"} => pc[p] \in {"new", "checked"}),
           \A p \in Pids : (next'[p] # 0 => pc'[p] \in Live)
    PROVE  IInv'
<1> USE DEF IInv, Alive
<1>1. TickInv' BY DEF TickInv
<1>2. KeysInv' BY DEF KeysInv
<1>3. LaunchInv' BY DEF LaunchInv
<1>4. \A p, t : ConditionMet(p, t)' <=> ConditionMet(p, t) BY DEF ConditionMet, IsHoliday
<1>5. MarkInv' BY <1>4 DEF MarkInv
<1>6. WindowInv' BY <1>4 DEF WindowInv, Independent, Covered, CameUpInTime
<1>7. QED BY <1>1, <1>2, <1>3, <1>5, <1>6

\* The holiday list is fixed, so the condition is settled for the day.
LEMMA SameCondition ==
    ASSUME NEW p, NEW t, day' = day, list'[p] = list[p]
    PROVE  ConditionMet(p, t)' <=> ConditionMet(p, t)
BY DEF ConditionMet, IsHoliday

LEMMA InitIInv == Init => IInv
<1> SUFFICES ASSUME Init PROVE IInv
  OBVIOUS
<1>1. \A p \in Pids : ~Alive(p) BY DEF Init, Alive, Live
<1>2. QED BY <1>1, InitType DEF IInv, Init, TickInv, KeysInv, LaunchInv, MarkInv, WindowInv,
                                Independent

\* Time within a day.
LEMMA SameDayIInv == IInv /\ TypeOK' /\ SameDay => IInv'
<1> SUFFICES ASSUME IInv, TypeOK', SameDay PROVE IInv'
  OBVIOUS
<1> USE DEF IInv, SameDay, TimePasses, Alive
<1>1. TickInv' BY DEF TickInv
<1>2. KeysInv' BY DEF KeysInv
<1>3. LaunchInv' BY DEF LaunchInv
<1>4. \A p, t : ConditionMet(p, t)' <=> ConditionMet(p, t) BY SameCondition
<1>5. MarkInv' BY <1>4 DEF MarkInv
<1>6. ASSUME NEW p \in Pids, NEW t \in Tasks, Independent(p, t)' PROVE Covered(p, t)'
  <2>1. Independent(p, t) BY <1>4, <1>6 DEF Independent, CameUpInTime
  <2>2. Covered(p, t) BY <2>1 DEF WindowInv
  <2>3. next[p] = 0 /\ next'[p] = 0 BY <2>1 DEF Independent
  <2>4. since'[p] = since[p] + 1 BY <2>1 DEF Independent
  <2>5. clock' - since'[p] = clock - since[p]
    BY <2>4 DEF TypeOK, Units
  <2>6. QED BY <2>2, <2>3, <2>5 DEF Covered
<1>7. QED BY <1>1, <1>2, <1>3, <1>5, <1>6 DEF WindowInv

\* Midnight: no tick of the new day has happened.
LEMMA NewDayIInv == IInv /\ TypeOK' /\ NewDay => IInv'
<1> SUFFICES ASSUME IInv, TypeOK', NewDay PROVE IInv'
  OBVIOUS
<1> USE DEF IInv, NewDay, TimePasses, Alive
<1>1. TickInv' BY DEF TickInv
<1>2. \A p \in Pids : today[p] <= day /\ today[p] \in Int /\ day \in Int
  BY DEF KeysInv, TypeOK, Days
<1>3. KeysInv' BY <1>2 DEF KeysInv
<1>4. \A p \in Pids, t \in Tasks : launched'[p][t] = 0 OBVIOUS
<1>5. \A p \in Pids, t \in Tasks : <<day', t>> \notin completed'[p]
  <2> SUFFICES ASSUME NEW p \in Pids, NEW t \in Tasks, <<day', t>> \in completed[p] PROVE FALSE
    OBVIOUS
  <2>1. day' = today[p] BY DEF KeysInv
  <2>2. QED BY <2>1, <1>2
<1>6. LaunchInv' BY <1>4 DEF LaunchInv
<1>7. MarkInv' BY <1>5 DEF MarkInv
<1>8. ASSUME NEW p \in Pids, NEW t \in Tasks, Independent(p, t)' PROVE Covered(p, t)'
  <2>1. next'[p] = 0 /\ since'[p] = since[p] + 1 /\ since[p] \in Nat
    BY <1>8 DEF Independent, TypeOK
  <2>2. clock' - since'[p] < 0 BY <2>1
  <2>3. Time[t] >= 0 /\ Time[t] \in Int BY ScheduleAssumption DEF Units
  <2>4. QED BY <2>1, <2>2, <2>3 DEF Covered
<1>9. QED BY <1>1, <1>3, <1>6, <1>7, <1>8 DEF WindowInv

\* A start: nothing is marked, and every task is yet to be looked at.
LEMMA WritePIDIInv == \A p \in Pids : IInv /\ TypeOK' /\ WritePID(p) => IInv'
<1> SUFFICES ASSUME NEW p \in Pids, IInv, TypeOK', WritePID(p) PROVE IInv'
  OBVIOUS
<1> USE DEF IInv, WritePID, Alive, clockVars, jobVars
<1>1. \A q \in Pids : q # p => /\ pc'[q] = pc[q] /\ today'[q] = today[q] /\ next'[q] = next[q]
                              /\ completed'[q] = completed[q] /\ since'[q] = since[q]
                              /\ born'[q] = born[q] /\ list'[q] = list[q]
  BY DEF TypeOK
<1>2. /\ pc'[p] = "up" /\ today'[p] = day /\ next'[p] = 1 /\ completed'[p] = {}
      /\ since'[p] = 0 /\ born'[p] = <<day, clock>> /\ pc[p] = "checked"
  BY DEF TypeOK
<1>3. TickInv' BY <1>1, <1>2 DEF TickInv, Live
<1>4. KeysInv'
  <2>1. day \in Int BY DEF TypeOK, Days
  <2>2. QED BY <1>1, <1>2, <2>1 DEF KeysInv
<1>5. \A t \in Tasks : launched'[p][t] = 0 BY <1>2 DEF LaunchInv
<1>6. LaunchInv' BY <1>1, <1>2, <1>5 DEF LaunchInv
<1>7. \A q \in Pids, t \in Tasks : q # p => (ConditionMet(q, t)' <=> ConditionMet(q, t))
  BY <1>1, SameCondition
<1>8. MarkInv' BY <1>1, <1>2, <1>7 DEF MarkInv
<1>9. ASSUME NEW q \in Pids, NEW t \in Tasks, Independent(q, t)' PROVE Covered(q, t)'
  <2>1. CASE q = p
    <3>1. day \in Int /\ clock \in Int /\ t \in Int /\ t >= 1 /\ Time[t] \in Int
      BY ScheduleAssumption DEF TypeOK, Days, Units, Tasks
    <3>2. clock < Time[t] + Window BY <1>2, <1>9, <2>1, <3>1 DEF Independent, CameUpInTime
    <3>3. QED BY <1>2, <2>1, <3>1, <3>2 DEF Covered
  <2>2. CASE q # p
    BY <1>1, <1>7, <1>9, <2>2 DEF WindowInv, Independent, Covered, CameUpInTime
  <2>3. QED BY <2>1, <2>2
<1>10. QED BY <1>3, <1>4, <1>6, <1>8, <1>9 DEF WindowInv

\* A tick begins: whatever fell due since the last one is still in its window.
LEMMA BeginTickIInv == \A p \in Pids : IInv /\ TypeOK' /\ BeginTick(p) => IInv'
<1> SUFFICES ASSUME NEW p \in Pids, IInv, TypeOK', BeginTick(p) PROVE IInv'
  OBVIOUS
<1> USE DEF IInv, BeginTick, Alive, clockVars, jobVars
<1>1. \A q \in Pids : q # p => /\ today'[q] = today[q] /\ next'[q] = next[q]
                              /\ completed'[q] = completed[q] /\ since'[q] = since[q]
  BY DEF TypeOK
<1>2. /\ today'[p] = day /\ next'[p] = 1 /\ since'[p] = 0 /\ next[p] = 0
      /\ completed'[p] = IF today[p] = day THEN completed[p] ELSE {}
  BY DEF TypeOK
<1>3. TickInv' BY <1>1, <1>2 DEF TickInv
<1>4. KeysInv'
  <2>1. day \in Int BY DEF TypeOK, Days
  <2>2. QED BY <1>1, <1>2, <2>1 DEF KeysInv
<1>5. \A t \in Tasks : <<day, t>> \in completed'[p] <=> <<day, t>> \in completed[p]
  BY <1>2 DEF KeysInv
<1>6. LaunchInv' BY <1>1, <1>5 DEF LaunchInv
<1>7. \A q \in Pids, t \in Tasks : ConditionMet(q, t)' <=> ConditionMet(q, t)
  BY SameCondition
<1>8. MarkInv' BY <1>1, <1>5, <1>7 DEF MarkInv
<1>9. ASSUME NEW q \in Pids, NEW t \in Tasks, Independent(q, t)' PROVE Covered(q, t)'
  <2>1. Independent(q, t) BY <1>7, <1>9 DEF Independent, CameUpInTime
  <2>2. Covered(q, t) BY <2>1 DEF WindowInv
  <2>3. CASE q = p
    <3>1. clock \in Int /\ t \in Int /\ t >= 1 /\ Time[t] \in Int /\ since[p] \in Int
          /\ since[p] <= TickGap /\ TickGap <= Window /\ TickGap \in Int /\ Window \in Int
      BY ScheduleAssumption DEF TypeOK, Units, Tasks
    <3>2. CASE clock - since[p] >= Time[t]
      BY <1>2, <2>2, <2>3, <3>1, <3>2 DEF Covered
    <3>3. CASE clock - since[p] < Time[t]
      <4>1. clock < Time[t] + Window BY <3>1, <3>3
      <4>2. QED BY <1>2, <2>3, <3>1, <4>1 DEF Covered
    <3>4. QED BY <3>1, <3>2, <3>3
  <2>4. CASE q # p BY <1>1, <2>2, <2>4 DEF Covered
  <2>5. QED BY <2>3, <2>4
<1>10. QED BY <1>3, <1>4, <1>6, <1>8, <1>9 DEF WindowInv

\* One task is looked at.
LEMMA ConsiderIInv == \A p \in Pids : IInv /\ TypeOK' /\ Consider(p) => IInv'
<1> SUFFICES ASSUME NEW p \in Pids, IInv, TypeOK', Consider(p) PROVE IInv'
  OBVIOUS
<1> DEFINE s == next[p]
<1>1. s \in Tasks /\ s # 0 /\ Alive(p) BY DEF Consider, Tasks
<1>2. /\ UNCHANGED <<day, clock, pc, today, since, born, list>>
      /\ next' = [next EXCEPT ![p] = AfterTask(s)]
  BY DEF Consider, clockVars
<1>3. since[p] = 0 /\ today[p] = day BY <1>1 DEF IInv, TickInv
<1>4. /\ \A q \in Pids : q # p => completed'[q] = completed[q] /\ launched'[q] = launched[q]
      /\ \A t \in Tasks : t # s => launched'[p][t] = launched[p][t]
      /\ completed'[p] \in {completed[p], completed[p] \cup {<<day, s>>}}
  BY <1>1, <1>3 DEF Consider, Dispatch, Mark, IInv, TypeOK
<1>5. /\ <<day, s>> \in completed'[p] \/ launched'[p][s] = launched[p][s]
      /\ launched'[p][s] <= 1
      /\ launched'[p][s] = 1 => <<day, s>> \in completed'[p]
      /\ <<day, s>> \in completed'[p] /\ ConditionMet(p, s) => launched'[p][s] = 1
      /\ launched[p][s] = 1 => launched'[p][s] = 1
      /\ DependsOn[s] = 0 /\ ConditionMet(p, s) /\ InTimeWindow(s) => launched'[p][s] = 1
  <2>1. /\ launched[p][s] \in Nat /\ launched[p][s] <= 1
        /\ launched[p][s] = 1 => <<day, s>> \in completed[p]
        /\ <<day, s>> \in completed[p] /\ ConditionMet(p, s) => launched[p][s] = 1
    BY <1>1 DEF IInv, LaunchInv, MarkInv, TypeOK
  <2>2. CASE /\ Done(p, s) \/ (ConditionMet(p, s) /\ ~Due(p, s))
             /\ UNCHANGED <<completed, launched, running>>
    BY <1>3, <2>1, <2>2 DEF Done, Due
  <2>3. CASE /\ ~Done(p, s) /\ ~ConditionMet(p, s)
             /\ completed' = [completed EXCEPT ![p] = @ \cup {<<today[p], s>>}]
             /\ UNCHANGED <<launched, running>>
    <3>1. <<day, s>> \in completed'[p] BY <1>3, <2>3 DEF IInv, TypeOK
    <3>2. launched[p][s] # 1 BY <1>3, <2>1, <2>3 DEF Done
    <3>3. QED BY <2>1, <2>3, <3>1, <3>2
  <2>4. CASE ~Done(p, s) /\ ConditionMet(p, s) /\ Due(p, s) /\ Dispatch(p, s)
    <3>1. <<day, s>> \in completed'[p] BY <1>3, <2>4 DEF Dispatch, Mark, IInv, TypeOK
    <3>2. launched[p][s] = 0 BY <1>3, <2>1, <2>4 DEF Done
    <3>3. launched'[p][s] = 1 BY <1>1, <2>4, <3>2 DEF Dispatch, IInv, TypeOK
    <3>4. QED BY <3>1, <3>3
  <2>5. QED BY <2>2, <2>3, <2>4 DEF Consider
<1>6. next'[p] = (IF s = NumTasks THEN 0 ELSE s + 1) /\ \A q \in Pids : q # p => next'[q] = next[q]
  BY <1>2 DEF AfterTask, IInv, TypeOK
<1>7. TickInv' BY <1>1, <1>2, <1>3, <1>6 DEF IInv, TickInv, Alive
<1>8. KeysInv' BY <1>2, <1>3, <1>4 DEF IInv, KeysInv
<1>9. \A t \in Tasks : t # s => (<<day, t>> \in completed'[p] <=> <<day, t>> \in completed[p])
  BY <1>4
<1>10. LaunchInv'
  BY <1>1, <1>2, <1>4, <1>5, <1>9 DEF IInv, LaunchInv, Alive, Live
<1>11. \A q \in Pids, t \in Tasks : ConditionMet(q, t)' <=> ConditionMet(q, t)
  BY <1>2, SameCondition
<1>12. MarkInv' BY <1>2, <1>4, <1>5, <1>9, <1>11 DEF IInv, MarkInv, Alive
<1>13. ASSUME NEW q \in Pids, NEW t \in Tasks, Independent(q, t)' PROVE Covered(q, t)'
  <2>1. Independent(q, t) BY <1>2, <1>11, <1>13 DEF Independent, CameUpInTime, Alive
  <2>2. Covered(q, t) BY <2>1 DEF IInv, WindowInv
  <2>3. CASE q # p BY <1>2, <1>4, <1>6, <2>2, <2>3 DEF Covered
  <2>4. /\ s \in Int /\ t \in Int /\ clock \in Int /\ Time[t] \in Int /\ s >= 1 /\ t <= NumTasks
        /\ NumTasks \in Int
    BY <1>1, ScheduleAssumption DEF IInv, TypeOK, Tasks, Units
  <2>5. CASE q = p /\ t = s
    <3>1. Time[s] <= clock => launched'[p][s] = 1
      BY <1>1, <1>5, <2>1, <2>2, <2>4, <2>5 DEF Covered, Independent, InTimeWindow
    <3>2. QED BY <1>2, <1>3, <1>6, <2>4, <2>5, <3>1 DEF Covered
  <2>6. CASE q = p /\ t # s
    BY <1>1, <1>2, <1>3, <1>4, <1>6, <2>2, <2>4, <2>6 DEF Covered
  <2>7. QED BY <2>3, <2>5, <2>6
<1>14. QED BY <1>7, <1>8, <1>10, <1>12, <1>13 DEF IInv, WindowInv

\* The invariant is inductive.
LEMMA NextIInv == IInv /\ [Next]_vars => IInv'
<1> SUFFICES ASSUME IInv, [Next]_vars PROVE IInv'
  OBVIOUS
<1>0. TypeOK' /\ TypeOK BY NextType DEF IInv
<1>1. CASE SameDay \/ NewDay BY <1>0, <1>1, SameDayIInv, NewDayIInv
<1>2. ASSUME NEW p \in Pids, WritePID(p) \/ BeginTick(p) \/ Consider(p) PROVE IInv'
  BY <1>0, <1>2, WritePIDIInv, BeginTickIInv, ConsiderIInv
<1>3. ASSUME NEW p \in Pids,
             Check(p) \/ Refuse(p) \/ Status(p) \/ CleanUp(p) \/ Quit(p)
      PROVE  IInv'
  <2>1. /\ UNCHANGED <<day, clock, today, completed, since, born, list, launched, next>>
    BY <1>3 DEF Check, Refuse, Status, CleanUp, Quit, clockVars, procVars, jobVars
  <2>2. \/ pc' = [pc EXCEPT ![p] = "checked"] /\ pc[p] = "new"
        \/ pc' = [pc EXCEPT ![p] = "dead"]
        \/ pc' = [pc EXCEPT ![p] = "clean"]
    BY <1>3 DEF Check, Refuse, Status, CleanUp, Quit, MayBegin
  <2>3. next[p] = 0
    BY <1>3 DEF Check, Refuse, Status, CleanUp, Quit, MayBegin, IInv, TickInv, Alive, Live
  <2>4. \A q \in Pids : /\ pc'[q] \in Live => pc[q] \in Live
                        /\ pc'[q] \in {"new", "checked"} => pc[q] \in {"new", "checked"}
                        /\ next[q] # 0 => pc'[q] \in Live
    BY <1>0, <2>2, <2>3 DEF IInv, TypeOK, TickInv, Alive, Live
  <2>5. QED BY <1>0, <2>1, <2>4, QuietStep
<1>4. ASSUME NEW p \in Pids, Stop(p) PROVE IInv'
  <2>1. /\ UNCHANGED <<day, clock, today, completed, since, born, list, launched, next>>
        /\ pc[p] = "new" /\ next[p] = 0
    BY <1>4 DEF Stop, MayBegin, clockVars, procVars, jobVars, IInv, TickInv, Alive, Live
  <2>2. \A q \in Pids : /\ pc'[q] \in Live => pc[q] \in Live
                        /\ pc'[q] \in {"new", "checked"} => pc[q] \in {"new", "checked"}
                        /\ next[q] # 0 => pc'[q] \in Live
    BY <1>0, <1>4, <2>1 DEF Stop, IsRunning, Alive, Live, IInv, TypeOK, TickInv
  <2>3. QED BY <1>0, <2>1, <2>2, QuietStep
<1>5. ASSUME NEW p \in Pids, Crash(p) PROVE IInv'
  <2>1. /\ UNCHANGED <<day, clock, today, completed, since, born, list, launched>>
        /\ pc' = [pc EXCEPT ![p] = "dead"] /\ next' = [next EXCEPT ![p] = 0]
    BY <1>5 DEF Crash, clockVars, jobVars
  <2>2. QED BY <1>0, <2>1, QuietStep DEF IInv, TypeOK, TickInv, Alive, Live
<1>6. ASSUME NEW j \in running, JobEnds(j) PROVE IInv'
  <2>1. UNCHANGED <<day, clock, pc, today, completed, since, born, list, launched, next>>
    BY <1>6 DEF JobEnds, clockVars, procVars
  <2>2. QED BY <1>0, <2>1, QuietStep DEF IInv, TickInv, Alive
<1>7. CASE UNCHANGED vars
  <2>1. UNCHANGED <<day, clock, pc, today, completed, since, born, list, launched, next>>
    BY <1>7 DEF vars, clockVars, procVars, jobVars
  <2>2. QED BY <1>0, <2>1, QuietStep DEF IInv, TickInv, Alive
<1>8. QED BY <1>1, <1>2, <1>3, <1>4, <1>5, <1>6, <1>7 DEF Next

\* The inductive invariant holds throughout.
THEOREM SchedulerInvariant == Spec => []IInv
<1>1. QED BY InitIInv, NextIInv, PTL DEF Spec

\* Type correctness.
THEOREM SchedulerTypeCorrect == Spec => []TypeOK
<1>1. IInv => TypeOK BY DEF IInv
<1>2. QED BY <1>1, SchedulerInvariant, PTL

\* One process starts a task at most once a day.
THEOREM OncePerInstanceHolds == Spec => []OncePerInstance
<1>1. IInv => OncePerInstance BY DEF IInv, LaunchInv, OncePerInstance
<1>2. QED BY <1>1, SchedulerInvariant, PTL

\* While ticks come within the width of the window, no window passes unnoticed.
THEOREM NoWindowIsMissed == Spec => []NoMissedWindow
<1>1. IInv => NoMissedWindow
  BY DEF IInv, WindowInv, Independent, Covered, NoMissedWindow
<1>2. QED BY <1>1, SchedulerInvariant, PTL

-----------------------------------------------------------------------------
\* The pid file, when commands are given one after another.

\* Whoever is half way through a command is alone, and no scheduler is up.
MidCommand(p) == pc[p] \in {"checked", "clean"}
FindInv ==
    /\ UpIsFindable
    /\ \A p \in Pids : MidCommand(p) =>
          \A q \in Pids : ~Alive(q) /\ (MidCommand(q) => q = p)

\* The pid file's invariant is inductive in a serial world.
LEMMA NextFind == Serial /\ TypeOK /\ FindInv /\ [Next]_vars => FindInv'
<1> SUFFICES ASSUME Serial, TypeOK, FindInv, [Next]_vars PROVE FindInv'
  OBVIOUS
<1> USE ScheduleAssumption DEF FindInv, UpIsFindable, MidCommand, Alive, Live
<1>1. CASE UNCHANGED <<pc, pidFile>> BY <1>1
<1>2. ASSUME NEW p \in Pids, Check(p) PROVE FindInv'
  BY <1>2 DEF Check, MayBegin, IsRunning, TypeOK
<1>3. ASSUME NEW p \in Pids, Refuse(p) PROVE FindInv'
  BY <1>3 DEF Refuse, MayBegin, TypeOK
<1>4. ASSUME NEW p \in Pids, WritePID(p) PROVE FindInv'
  BY <1>4 DEF WritePID, TypeOK
<1>5. ASSUME NEW p \in Pids, Status(p) PROVE FindInv'
  BY <1>5 DEF Status, MayBegin, IsRunning, TypeOK
<1>6. ASSUME NEW p \in Pids, Stop(p) PROVE FindInv'
  BY <1>6 DEF Stop, MayBegin, IsRunning, TypeOK
<1>7. ASSUME NEW p \in Pids, CleanUp(p) PROVE FindInv'
  BY <1>7 DEF CleanUp, TypeOK
<1>8. ASSUME NEW p \in Pids, Quit(p) PROVE FindInv'
  BY <1>8 DEF Quit, TypeOK
<1>9. ASSUME NEW p \in Pids, Crash(p) PROVE FindInv'
  BY <1>9 DEF Crash, TypeOK
<1>10. QED
  BY <1>1, <1>2, <1>3, <1>4, <1>5, <1>6, <1>7, <1>8, <1>9
     DEF Next, SameDay, NewDay, TimePasses, BeginTick, Consider, JobEnds, vars

\* In a serial world the pid file names every scheduler that is up.
THEOREM SchedulerIsFindable == Serial => (Spec => []UpIsFindable)
<1> SUFFICES ASSUME Serial PROVE Spec => []UpIsFindable
  OBVIOUS
<1>1. Init => FindInv
  BY DEF Init, FindInv, UpIsFindable, MidCommand, Alive, Live
<1>2. FindInv => UpIsFindable BY DEF FindInv
<1>3. TypeOK /\ FindInv /\ [Next]_vars => FindInv' BY NextFind
<1>4. QED BY <1>1, <1>2, <1>3, SchedulerTypeCorrect, PTL DEF Spec

\* In a serial world at most one scheduler is up.
THEOREM OneScheduler == Serial => (Spec => []SingleInstance)
<1>1. UpIsFindable => SingleInstance
  <2> SUFFICES ASSUME UpIsFindable PROVE SingleInstance
    OBVIOUS
  <2> DEFINE U == {p \in Pids : Alive(p)}
  <2>1. U = {} \/ U = {pidFile} BY DEF UpIsFindable
  <2>2. Cardinality(U) = 0 \/ Cardinality(U) = 1
    <3> HIDE DEF U
    <3>1. QED BY <2>1, FS_EmptySet, FS_Singleton
  <2>3. QED BY <2>2 DEF SingleInstance
<1>2. QED BY <1>1, SchedulerIsFindable, PTL

-----------------------------------------------------------------------------
\* Predecessors.

\* A dependent that was started today has its predecessor marked today.
DepInv ==
    \A p \in Pids, t \in Tasks :
        Alive(p) /\ DependsOn[t] # 0 /\ launched[p][t] > 0 =>
            <<day, DependsOn[t]>> \in completed[p]

\* Marks of the day are only added while the day lasts.
LEMMA NextDep == IInv /\ DepInv /\ [Next]_vars => DepInv'
<1> SUFFICES ASSUME IInv, DepInv, [Next]_vars PROVE DepInv'
  OBVIOUS
<1> USE ScheduleAssumption DEF IInv, DepInv
<1>1. ASSUME UNCHANGED <<day, completed, launched>>,
             \A p \in Pids : Alive(p)' => Alive(p)
      PROVE  DepInv'
  BY <1>1
<1>2. CASE SameDay BY <1>2, <1>1 DEF SameDay, TimePasses, Alive
<1>3. CASE NewDay
  <2>1. \A p \in Pids, t \in Tasks : launched'[p][t] = 0 BY <1>3 DEF NewDay
  <2>2. QED BY <2>1
<1>4. ASSUME NEW p \in Pids, Check(p) \/ Refuse(p) \/ Status(p) \/ Stop(p) PROVE DepInv'
  <2>1. \A q \in Pids : Alive(q)' => Alive(q)
    BY <1>4 DEF Check, Refuse, Status, Stop, MayBegin, IsRunning, Alive, Live, TypeOK
  <2>2. QED BY <2>1, <1>1, <1>4 DEF Check, Refuse, Status, Stop, clockVars, procVars, jobVars
<1>5. ASSUME NEW p \in Pids, CleanUp(p) \/ Quit(p) \/ Crash(p) PROVE DepInv'
  <2>1. \A q \in Pids : Alive(q)' => Alive(q)
    BY <1>5 DEF CleanUp, Quit, Crash, Alive, Live, TypeOK
  <2>2. QED BY <2>1, <1>1, <1>5 DEF CleanUp, Quit, Crash, clockVars, procVars, jobVars
<1>6. ASSUME NEW p \in Pids, WritePID(p) PROVE DepInv'
  <2>1. \A t \in Tasks : launched[p][t] = 0 BY <1>6 DEF WritePID, LaunchInv
  <2>2. UNCHANGED <<day, launched>> BY <1>6 DEF WritePID, clockVars, jobVars
  <2>3. \A q \in Pids : q # p => completed'[q] = completed[q] /\ (Alive(q)' => Alive(q))
    BY <1>6 DEF WritePID, TypeOK, Alive
  <2>4. QED BY <2>1, <2>2, <2>3
<1>7. ASSUME NEW p \in Pids, BeginTick(p) PROVE DepInv'
  <2>1. UNCHANGED <<day, launched, pc>> BY <1>7 DEF BeginTick, clockVars, jobVars
  <2>2. \A q \in Pids : q # p => completed'[q] = completed[q] BY <1>7 DEF BeginTick, TypeOK
  <2>3. ASSUME NEW t \in Tasks, <<day, DependsOn[t]>> \in completed[p]
        PROVE  completed'[p] = completed[p]
    <3>1. today[p] = day BY <2>3 DEF KeysInv
    <3>2. QED BY <3>1, <1>7 DEF BeginTick, TypeOK
  <2>4. QED BY <2>1, <2>2, <2>3 DEF Alive
<1>8. ASSUME NEW p \in Pids, Consider(p) PROVE DepInv'
  <2> DEFINE t == next[p]
  <2>1. t \in Tasks /\ Alive(p) /\ today[p] = day /\ UNCHANGED <<day, pc>>
    BY <1>8 DEF Consider, clockVars, TickInv, Tasks
  <2>2. \A q \in Pids : completed[q] \subseteq completed'[q]
    <3>1. \/ completed' = completed
          \/ completed' = [completed EXCEPT ![p] = @ \cup {<<today[p], t>>}]
      BY <1>8 DEF Consider, Dispatch, Mark
    <3>2. completed \in [Pids -> SUBSET (Days \X Tasks)] BY DEF TypeOK
    <3>3. QED BY <3>1, <3>2
  <2>3. CASE launched' = launched BY <2>1, <2>2, <2>3 DEF Alive
  <2>4. CASE Due(p, t) /\ launched' = [launched EXCEPT ![p][t] = @ + 1]
    <3>1. DependsOn[t] # 0 => <<day, DependsOn[t]>> \in completed[p]
      BY <2>1, <2>4 DEF Due, DependencyMet, Done
    <3>2. \A q \in Pids, u \in Tasks : q # p \/ u # t => launched'[q][u] = launched[q][u]
      BY <2>4 DEF TypeOK
    <3>3. QED BY <2>1, <2>2, <3>1, <3>2 DEF Alive
  <2>5. QED BY <2>3, <2>4, <1>8 DEF Consider, Dispatch
<1>9. ASSUME NEW j \in running, JobEnds(j) PROVE DepInv'
  BY <1>9, <1>1 DEF JobEnds, clockVars, procVars, Alive
<1>10. CASE UNCHANGED vars
  BY <1>10, <1>1 DEF vars, clockVars, procVars, jobVars, Alive
<1>11. QED BY <1>2, <1>3, <1>4, <1>5, <1>6, <1>7, <1>8, <1>9, <1>10 DEF Next

\* No dependent is started before its predecessor was started or skipped.
THEOREM PredecessorComesFirst == Spec => []PredecessorFirst
<1>1. Init => DepInv BY DEF Init, DepInv
<1>2. IInv /\ DepInv => PredecessorFirst
  <2> SUFFICES ASSUME IInv, DepInv, NEW p \in Pids, NEW t \in Tasks,
                      Alive(p), DependsOn[t] # 0, launched[p][t] > 0
               PROVE  launched[p][DependsOn[t]] > 0 \/ ~ConditionMet(p, DependsOn[t])
    BY DEF PredecessorFirst
  <2>1. DependsOn[t] \in Tasks BY ScheduleAssumption DEF Tasks
  <2>2. <<day, DependsOn[t]>> \in completed[p] BY DEF DepInv
  <2>3. QED BY <2>1, <2>2 DEF IInv, MarkInv
<1>3. QED BY <1>1, <1>2, NextDep, SchedulerInvariant, PTL DEF Spec

-----------------------------------------------------------------------------
\* The end of a day.

\* Ready[t] is a unit at which t can be settled: a task listed before its predecessor
\* is looked at again a tick later, or a window later when the scheduler came up
\* between the two.  No chain of predecessors that closes has one.
SettlesBy(Ready) ==
    /\ Ready \in [Tasks -> Nat]
    /\ \A t \in Tasks :
         /\ Time[t] <= Ready[t] /\ Ready[t] + TickGap <= DayLen
         /\ DependsOn[t] # 0 =>
              Ready[DependsOn[t]] + (IF DependsOn[t] < t THEN 0 ELSE Window) <= Ready[t]

\* In time for the tasks that depend on nothing.
InTime(p) == \A r \in Tasks : DependsOn[r] = 0 => CameUpInTime(p, r)

\* A task the last tick reached when it could be settled is marked; one the current
\* tick has yet to reach is, when the tick before could settle it.
SettledSoFar(p, t, ready) ==
    /\ (next[p] = 0 \/ t < next[p]) /\ clock - since[p] >= ready => <<day, t>> \in completed[p]
    /\ next[p] # 0 /\ t >= next[p] /\ clock >= ready + Window => <<day, t>> \in completed[p]

DoneInv(Ready) ==
    \A p \in Pids : Alive(p) /\ InTime(p) => \A t \in Tasks : SettledSoFar(p, t, Ready[t])

LEMMA LeastNumber ==
    ASSUME NEW S, S \subseteq Nat, S # {}
    PROVE  \E m \in S : \A x \in S : m <= x
<1> DEFINE Less == {p \in Nat \X Nat : p[1] < p[2]}
<1>1. IsWellFoundedOn(Less, Nat)
  BY NatLessThanWellFounded DEF OpToRel
<1>2. PICK m \in S : \A k \in S : ~(<<k, m>> \in Less)
  BY <1>1, WFMin
<1>3. \A k \in S : m <= k
  <2> TAKE k \in S
  <2>1. k \in Nat /\ m \in Nat /\ <<k, m>> \notin Less
    BY <1>2
  <2> QED BY <2>1
<1> QED BY <1>3

\* A scheduler that came up today in time for the tasks that depend on nothing came up
\* within the window of every task's Ready.
LEMMA UpBeforeReady ==
    ASSUME NEW Ready, SettlesBy(Ready), NEW b \in Nat,
           \A r \in Tasks : DependsOn[r] = 0 => b < Time[r] + Window,
           NEW u \in Tasks
    PROVE  b < Ready[u] + Window
<1> USE ScheduleAssumption DEF SettlesBy
<1> DEFINE Late == {t \in Tasks : b >= Ready[t] + Window}
<1>1. SUFFICES ASSUME Late # {} PROVE FALSE
  <2>1. u \notin Late => b < Ready[u] + Window
    OBVIOUS
  <2> QED BY <2>1
<1>2. \A t \in Tasks : t \in Nat /\ Ready[t] \in Nat /\ Time[t] \in Nat
  BY DEF Tasks, Units
<1>3. PICK m \in {Ready[t] : t \in Late} : \A x \in {Ready[t] : t \in Late} : m <= x
  <2>1. {Ready[t] : t \in Late} \subseteq Nat
    BY <1>2
  <2>2. {Ready[t] : t \in Late} # {}
    <3>1. PICK t \in Late : TRUE
      BY <1>1
    <3>2. Ready[t] \in {Ready[x] : x \in Late}
      BY <3>1
    <3> QED BY <3>2
  <2> HIDE DEF Late
  <2> QED BY <2>1, <2>2, LeastNumber
<1> DEFINE First == {t \in Late : Ready[t] = m}
<1>4. PICK n \in First : \A x \in First : n <= x
  <2>1. First \subseteq Nat /\ First # {}
    BY <1>2, <1>3
  <2> QED BY <2>1, LeastNumber
<1>5. n \in Tasks /\ b >= Ready[n] + Window /\ Ready[n] = m
  OBVIOUS
<1>6. DependsOn[n] # 0
  BY <1>2, <1>5
<1>7. DependsOn[n] \in Tasks
  BY <1>5, <1>6 DEF Tasks
<1>8. Ready[DependsOn[n]] + (IF DependsOn[n] < n THEN 0 ELSE Window) <= Ready[n]
  BY <1>5, <1>6
<1>9. Ready[DependsOn[n]] <= Ready[n] /\ (~(DependsOn[n] < n) => Ready[DependsOn[n]] < Ready[n])
  BY <1>2, <1>5, <1>7, <1>8
<1>10. DependsOn[n] \in Late
  BY <1>2, <1>5, <1>7, <1>9
<1>11. m <= Ready[DependsOn[n]]
  BY <1>3, <1>10
<1>12. DependsOn[n] < n /\ Ready[DependsOn[n]] = m
  BY <1>2, <1>5, <1>7, <1>9, <1>11
<1>13. DependsOn[n] \in First
  BY <1>10, <1>12
<1> QED BY <1>2, <1>4, <1>5, <1>7, <1>12, <1>13

\* What one look at a task settles.
LEMMA ConsiderSettles ==
    ASSUME NEW Ready, SettlesBy(Ready), IInv, DoneInv(Ready), NEW p \in Pids, Consider(p), InTime(p),
           clock >= Ready[next[p]]
    PROVE  <<day, next[p]>> \in completed'[p]
<1> DEFINE s == next[p]
<1> USE ScheduleAssumption
<1>1. s \in Tasks /\ s # 0 /\ Alive(p) /\ since[p] = 0 /\ today[p] = day /\ s \in Int /\ clock \in Int
  <2>1. s \in Tasks /\ Alive(p)
    BY DEF Consider
  <2>2. s \in Int /\ s # 0
    BY <2>1 DEF Tasks
  <2>3. since[p] = 0 /\ today[p] = day
    BY <2>2 DEF IInv, TickInv
  <2>4. clock \in Int
    BY DEF IInv, TypeOK, Units
  <2> QED BY <2>1, <2>2, <2>3, <2>4
<1>2. Ready[s] \in Nat /\ Time[s] \in Int /\ Time[s] <= clock /\ clock >= Ready[s]
  BY <1>1 DEF SettlesBy, Units
<1>3. completed \in [Pids -> SUBSET (Days \X Tasks)]
  BY DEF IInv, TypeOK
<1>4. <<day, s>> \in completed[p] \/ ~ConditionMet(p, s) \/ Due(p, s)
  <2>1. CASE DependsOn[s] = 0
    <3>1. ConditionMet(p, s) => Independent(p, s)
      BY <1>1, <2>1 DEF Independent, InTime
    <3>2. ConditionMet(p, s) => launched[p][s] = 1 \/ clock < Time[s] + Window
      BY <1>1, <1>2, <3>1 DEF IInv, WindowInv, Covered
    <3>3. launched[p][s] = 1 => <<day, s>> \in completed[p]
      BY <1>1 DEF IInv, LaunchInv
    <3> QED BY <1>2, <2>1, <3>2, <3>3 DEF Due, InTimeWindow
  <2>2. CASE DependsOn[s] # 0
    <3> DEFINE q == DependsOn[s]
    <3>1. q \in Tasks /\ q \in Int
      BY <1>1, <2>2 DEF Tasks
    <3>2. Ready[q] \in Nat /\ Ready[q] + (IF q < s THEN 0 ELSE Window) <= Ready[s]
      BY <1>1, <2>2, <3>1 DEF SettlesBy
    <3>3. SettledSoFar(p, q, Ready[q])
      BY <1>1, <3>1 DEF DoneInv
    <3>4. <<day, q>> \in completed[p]
      <4>1. CASE q < s
        BY <1>1, <1>2, <3>1, <3>2, <3>3, <4>1 DEF SettledSoFar
      <4>2. CASE ~(q < s)
        BY <1>1, <1>2, <3>1, <3>2, <3>3, <4>2 DEF SettledSoFar
      <4> QED BY <4>1, <4>2
    <3> QED BY <1>1, <1>2, <2>2, <3>4 DEF Due, DependencyMet, Done
  <2> QED BY <2>1, <2>2
<1>5. CASE <<day, s>> \in completed[p]
  <2>1. completed[p] \subseteq completed'[p]
    BY <1>3 DEF Consider, Dispatch, Mark
  <2> QED BY <1>5, <2>1
<1>6. CASE <<day, s>> \notin completed[p]
  <2>1. completed' = [completed EXCEPT ![p] = @ \cup {<<today[p], s>>}]
    BY <1>1, <1>4, <1>6 DEF Consider, Dispatch, Mark, Done
  <2> QED BY <1>1, <1>3, <2>1
<1> QED BY <1>5, <1>6

\* Marks of the day are only added while the day lasts.
LEMMA NextDone ==
    ASSUME NEW Ready, SettlesBy(Ready)
    PROVE  IInv /\ DoneInv(Ready) /\ [Next]_vars => DoneInv(Ready)'
<1> SUFFICES ASSUME IInv, DoneInv(Ready), [Next]_vars PROVE DoneInv(Ready)'
  OBVIOUS
<1> USE ScheduleAssumption
<1>0. /\ \A t \in Tasks : t \in Int /\ t >= 1 /\ t <= NumTasks /\ Ready[t] \in Nat
      /\ \A p \in Pids : since[p] \in Nat /\ since[p] <= TickGap /\ next[p] \in 0..NumTasks
      /\ clock \in Nat /\ clock < DayLen /\ TickGap \in Nat /\ Window \in Nat /\ TickGap <= Window
      /\ DOMAIN completed = Pids /\ DOMAIN next = Pids /\ DOMAIN since = Pids
  <2>1. \A t \in Tasks : t \in Int /\ t >= 1 /\ t <= NumTasks
    BY DEF Tasks
  <2>2. \A t \in Tasks : Ready[t] \in Nat
    BY DEF SettlesBy
  <2>3. since \in [Pids -> 0..TickGap] /\ next \in [Pids -> 0..NumTasks] /\ DOMAIN completed = Pids
    BY DEF IInv, TypeOK
  <2>4. \A p \in Pids : since[p] \in 0..TickGap /\ next[p] \in 0..NumTasks
    BY <2>3
  <2>5. clock \in Nat /\ clock < DayLen
    BY DEF IInv, TypeOK, Units
  <2> QED BY <2>1, <2>2, <2>3, <2>4, <2>5
\* A process for which nothing has changed but that it may have ended.
<1>1. ASSUME UNCHANGED <<day, clock>>, NEW q \in Pids, Alive(q)' => Alive(q), born'[q] = born[q],
             completed'[q] = completed[q], since'[q] = since[q], Alive(q)' => next'[q] = next[q],
             Alive(q)', InTime(q)', NEW t \in Tasks
      PROVE  SettledSoFar(q, t, Ready[t])'
  <2>1. InTime(q) /\ Alive(q)
    BY <1>1 DEF InTime, CameUpInTime
  <2>2. SettledSoFar(q, t, Ready[t])
    BY <2>1 DEF DoneInv
  <2> QED BY <1>1, <2>2 DEF SettledSoFar
<1>2. CASE SameDay
  <2> SUFFICES ASSUME NEW q \in Pids, Alive(q)', InTime(q)', NEW t \in Tasks PROVE SettledSoFar(q, t, Ready[t])'
    BY DEF DoneInv
  <2>1. /\ Alive(q) /\ next[q] = 0 /\ next' = next /\ day' = day /\ completed' = completed /\ born' = born
        /\ clock' = clock + 1 /\ since'[q] = since[q] + 1
    BY <1>2 DEF SameDay, TimePasses, Alive
  <2>2. SettledSoFar(q, t, Ready[t])
    BY <2>1 DEF DoneInv, InTime, CameUpInTime
  <2>3. clock' - since'[q] = clock - since[q]
    BY <1>0, <2>1
  <2> QED BY <2>1, <2>2, <2>3 DEF SettledSoFar
<1>3. CASE NewDay
  <2> SUFFICES ASSUME NEW q \in Pids, Alive(q)', NEW t \in Tasks PROVE SettledSoFar(q, t, Ready[t])'
    BY DEF DoneInv
  <2>1. next'[q] = 0 /\ clock' = 0 /\ since'[q] = since[q] + 1
    BY <1>3 DEF NewDay, TimePasses, Alive
  <2>2. clock' - since'[q] < 0
    BY <1>0, <2>1
  <2> QED BY <1>0, <2>1, <2>2 DEF SettledSoFar
<1>4. ASSUME NEW p \in Pids, WritePID(p) PROVE DoneInv(Ready)'
  <2> SUFFICES ASSUME NEW q \in Pids, Alive(q)', InTime(q)', NEW t \in Tasks PROVE SettledSoFar(q, t, Ready[t])'
    BY DEF DoneInv
  <2>1. UNCHANGED <<day, clock>>
    BY <1>4 DEF WritePID, clockVars
  <2>2. CASE q = p
    <3>1. next'[p] = 1 /\ born'[p] = <<day, clock>>
      BY <1>4 DEF WritePID, IInv, TypeOK
    <3>2. \A r \in Tasks : DependsOn[r] = 0 => clock < Time[r] + Window
      BY <1>0, <2>1, <2>2, <3>1 DEF InTime, CameUpInTime, IInv, TypeOK, Days
    <3>3. clock < Ready[t] + Window
      BY <1>0, <3>2, UpBeforeReady
    <3> QED BY <1>0, <2>1, <2>2, <3>1, <3>3 DEF SettledSoFar
  <2>3. CASE q # p
    <3>1. /\ Alive(q)' = Alive(q) /\ born'[q] = born[q] /\ next'[q] = next[q]
          /\ completed'[q] = completed[q] /\ since'[q] = since[q]
      BY <1>4, <2>3 DEF WritePID, IInv, TypeOK, Alive
    <3> QED BY <1>1, <2>1, <3>1
  <2> QED BY <2>2, <2>3
<1>5. ASSUME NEW p \in Pids, BeginTick(p) PROVE DoneInv(Ready)'
  <2> SUFFICES ASSUME NEW q \in Pids, Alive(q)', InTime(q)', NEW t \in Tasks PROVE SettledSoFar(q, t, Ready[t])'
    BY DEF DoneInv
  <2>1. UNCHANGED <<day, clock, pc, born>>
    BY <1>5 DEF BeginTick, clockVars
  <2>2. SettledSoFar(q, t, Ready[t])
    BY <2>1 DEF DoneInv, InTime, CameUpInTime, Alive
  <2>3. CASE q = p
    <3>1. next'[p] = 1 /\ since'[p] = 0 /\ next[p] = 0
      BY <1>5 DEF BeginTick, IInv, TypeOK
    <3>2. <<day, t>> \in completed[p] => <<day, t>> \in completed'[p]
      <4>1. <<day, t>> \in completed[p] => today[p] = day
        BY DEF IInv, KeysInv
      <4> QED BY <1>5, <1>0, <4>1 DEF BeginTick
    <3>3. clock >= Ready[t] + Window => clock - since[p] >= Ready[t]
      BY <1>0
    <3> QED BY <1>0, <2>1, <2>2, <2>3, <3>1, <3>2, <3>3 DEF SettledSoFar
  <2>4. CASE q # p
    <3>1. completed'[q] = completed[q] /\ since'[q] = since[q] /\ next'[q] = next[q]
      BY <1>5, <2>4 DEF BeginTick, IInv, TypeOK
    <3> QED BY <2>1, <2>2, <3>1 DEF SettledSoFar
  <2> QED BY <2>3, <2>4
<1>6. ASSUME NEW p \in Pids, Consider(p) PROVE DoneInv(Ready)'
  <2> SUFFICES ASSUME NEW q \in Pids, Alive(q)', InTime(q)', NEW t \in Tasks PROVE SettledSoFar(q, t, Ready[t])'
    BY DEF DoneInv
  <2>1. UNCHANGED <<day, clock, pc, born, since>> /\ next' = [next EXCEPT ![p] = AfterTask(next[p])]
    BY <1>6 DEF Consider, clockVars
  <2>2. SettledSoFar(q, t, Ready[t]) /\ InTime(q)
    BY <2>1 DEF DoneInv, InTime, CameUpInTime, Alive
  <2>3. completed[q] \subseteq completed'[q]
    BY <1>0, <1>6 DEF Consider, Dispatch, Mark
  <2>4. CASE q = p
    <3>1. next[p] \in Tasks /\ since[p] = 0
      BY <1>6 DEF Consider, IInv, TickInv, Tasks
    <3>2. next'[p] = IF next[p] = NumTasks THEN 0 ELSE next[p] + 1
      BY <1>0, <2>1 DEF AfterTask
    <3>3. t = next[p] /\ clock >= Ready[t] => <<day, t>> \in completed'[p]
      BY <1>6, <2>2, <2>4, ConsiderSettles
    <3> QED BY <1>0, <2>1, <2>2, <2>3, <2>4, <3>1, <3>2, <3>3 DEF SettledSoFar
  <2>5. CASE q # p
    <3>1. next'[q] = next[q]
      BY <1>0, <2>1, <2>5
    <3> QED BY <2>1, <2>2, <2>3, <3>1 DEF SettledSoFar
  <2> QED BY <2>4, <2>5
<1>7. ASSUME NEW p \in Pids, Check(p) \/ Refuse(p) \/ Status(p) \/ Stop(p) PROVE DoneInv(Ready)'
  <2>1. \A q \in Pids : Alive(q)' => Alive(q)
    BY <1>7 DEF Check, Refuse, Status, Stop, MayBegin, IsRunning, Alive, Live, IInv, TypeOK
  <2> QED BY <1>1, <1>7, <2>1 DEF Check, Refuse, Status, Stop, clockVars, procVars, jobVars, DoneInv
<1>8. ASSUME NEW p \in Pids, CleanUp(p) \/ Quit(p) \/ Crash(p) PROVE DoneInv(Ready)'
  <2>1. /\ UNCHANGED <<day, clock, born, completed, since>>
        /\ \A q \in Pids : (Alive(q)' => Alive(q)) /\ (Alive(q)' => next'[q] = next[q])
    BY <1>8 DEF CleanUp, Quit, Crash, Alive, Live, IInv, TypeOK, clockVars, procVars, jobVars
  <2> QED BY <1>1, <2>1 DEF DoneInv
<1>9. ASSUME NEW j \in running, JobEnds(j) PROVE DoneInv(Ready)'
  BY <1>1, <1>9 DEF JobEnds, clockVars, procVars, Alive, DoneInv
<1>10. CASE UNCHANGED vars
  BY <1>1, <1>10 DEF vars, clockVars, procVars, jobVars, Alive, DoneInv
<1> QED BY <1>2, <1>3, <1>4, <1>5, <1>6, <1>7, <1>8, <1>9, <1>10 DEF Next

\* No day ends with a task neither started nor skipped by a scheduler that was up in time
\* for the tasks that depend on nothing (scheduler.go:151): for any list of tasks, in any
\* order, whose chains of predecessors can be settled before midnight.
THEOREM DaysEndDone ==
    ASSUME NEW CONSTANT Ready, SettlesBy(Ready)
    PROVE  Spec => DayEndsDone
<1>1. Init => DoneInv(Ready)
  BY DEF Init, DoneInv, Alive, Live
<1>2. IInv /\ DoneInv(Ready) /\ [Next]_vars => DoneInv(Ready)'
  BY NextDone
<1>3. IInv /\ DoneInv(Ready) /\ [Next]_vars =>
        [day' # day => \A p \in Pids, t \in Tasks :
           /\ Alive(p) /\ ConditionMet(p, t)
           /\ \A r \in Tasks : DependsOn[r] = 0 => CameUpInTime(p, r)
           => launched[p][t] = 1]_vars
  <2> SUFFICES ASSUME IInv, DoneInv(Ready), Next, day' # day, NEW p \in Pids, NEW t \in Tasks,
                      Alive(p), ConditionMet(p, t), InTime(p)
               PROVE  launched[p][t] = 1
    BY DEF InTime
  <2>1. NewDay
    BY DEF Next, SameDay, Check, Refuse, WritePID, Status, Stop, CleanUp, Quit, Crash, BeginTick, Consider,
           JobEnds, clockVars
  <2>2. clock = DayLen - 1 /\ next[p] = 0 /\ since[p] < TickGap
    BY <2>1 DEF NewDay, TimePasses
  <2>3. SettledSoFar(p, t, Ready[t])
    BY DEF DoneInv
  <2>4. Ready[t] \in Nat /\ Ready[t] + TickGap <= DayLen /\ since[p] \in Nat /\ DayLen \in Nat /\ TickGap \in Nat
    BY ScheduleAssumption DEF SettlesBy, IInv, TypeOK
  <2>5. clock - since[p] >= Ready[t]
    BY <2>2, <2>4
  <2>6. <<day, t>> \in completed[p]
    BY <2>2, <2>3, <2>5 DEF SettledSoFar
  <2> QED BY <2>6 DEF IInv, MarkInv
<1> QED BY <1>1, <1>2, <1>3, SchedulerInvariant, PTL DEF Spec, DayEndsDone
=============================================================================
