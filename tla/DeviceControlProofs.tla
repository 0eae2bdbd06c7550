------------------------ MODULE DeviceControlProofs ------------------------
(***************************************************************************)
(* Proofs about DeviceControl, for any number of devices, processes and    *)
(* command threads and any set of commands.                                *)
(***************************************************************************)
EXTENDS DeviceControl, TLAPS

(* A halt that still polls has polls left.                                  *)
PollsLeft ==
    \A t \in Threads :
      th[t].pc \in {"setGlobal", "poll", "count"} => th[t].polls < MaxPolls

TypeInv == TypeOK /\ PollsLeft

(* A toggled semaphore is 0 or 1 again.                                     *)
LEMMA Complement == ASSUME NEW x \in {0, 1} PROVE 1 - x \in {0, 1}
  OBVIOUS

(* The initial thread has the type of a thread.                             *)
LEMMA IdleThreadType == IdleThread \in Thread
  BY ConstantsAssumption DEF IdleThread, Thread, ThreadPC, Replies

(* The initial states have the types.                                       *)
LEMMA InitType == Init => TypeInv
  <1> SUFFICES ASSUME Init PROVE TypeInv
    OBVIOUS
  <1>1. HE \in [Devices -> Entry]
    BY ConstantsAssumption DEF Init, Entry
  <1>2. pc \in [Procs -> ProcPC]
    BY DEF Init, ProcPC
  <1>3. th \in [Threads -> Thread] /\ PollsLeft
    BY IdleThreadType, ConstantsAssumption DEF Init, PollsLeft, IdleThread
  <1>4. report \in [Procs -> Reports] /\ sig \in [Procs -> SUBSET Senders]
    BY DEF Init, Reports
  <1>5. haltPasses \in [Procs -> 0..2] /\ runPasses \in [Procs -> 0..2]
    BY DEF Init
  <1>6. /\ run \in [Devices -> {0, 1}]
        /\ err \in [Devices -> {0, 1}]
        /\ ack \in [Devices -> {0, 1}]
    BY DEF Init
  <1> QED
    BY <1>1, <1>2, <1>3, <1>4, <1>5, <1>6, Zenon DEF Init, TypeInv, TypeOK

(* A field of an entry is replaced by a value of its type.                  *)
LEMMA EntryUpdate ==
    ASSUME HE \in [Devices -> Entry], NEW d, NEW b \in BOOLEAN
    PROVE  /\ [HE EXCEPT ![d].cont_on_err = b] \in [Devices -> Entry]
           /\ [HE EXCEPT ![d].test_started_time = b] \in [Devices -> Entry]
           /\ [HE EXCEPT ![d].DR_term = b] \in [Devices -> Entry]
           /\ [HE EXCEPT ![d].test_run_period_expired = b] \in [Devices -> Entry]
  <1>1. [HE EXCEPT ![d].cont_on_err = b] \in [Devices -> Entry]
    BY Zenon DEF Entry
  <1>2. [HE EXCEPT ![d].test_started_time = b] \in [Devices -> Entry]
    BY Zenon DEF Entry
  <1>3. [HE EXCEPT ![d].DR_term = b] \in [Devices -> Entry]
    BY Zenon DEF Entry
  <1>4. [HE EXCEPT ![d].test_run_period_expired = b] \in [Devices -> Entry]
    BY Zenon DEF Entry
  <1> QED
    BY <1>1, <1>2, <1>3, <1>4

(* An update of two flags of an entry keeps its type.                       *)
LEMMA EntryUpdateTwo ==
    ASSUME HE \in [Devices -> Entry], NEW d \in Devices, NEW b \in BOOLEAN
    PROVE  /\ [HE EXCEPT ![d].user_term = b, ![d].max_cycles = FALSE]
                 \in [Devices -> Entry]
           /\ [HE EXCEPT ![d].user_term = b, ![d].DR_term = FALSE]
                 \in [Devices -> Entry]
  <1> DEFINE e == [HE[d] EXCEPT !.user_term = b, !.max_cycles = FALSE]
             f == [HE[d] EXCEPT !.user_term = b, !.DR_term = FALSE]
  <1>1. e \in Entry /\ f \in Entry
    BY Zenon DEF Entry
  <1>2. /\ [HE EXCEPT ![d].user_term = b, ![d].max_cycles = FALSE]
              = [HE EXCEPT ![d] = e]
        /\ [HE EXCEPT ![d].user_term = b, ![d].DR_term = FALSE]
              = [HE EXCEPT ![d] = f]
    BY Zenon
  <1> HIDE DEF e, f
  <1> QED
    BY <1>1, <1>2

(* An update of the PID of an entry keeps its type.                         *)
LEMMA EntryUpdatePID ==
    ASSUME HE \in [Devices -> Entry], NEW d, NEW q \in Procs \cup {NoProc}
    PROVE  [HE EXCEPT ![d].PID = q] \in [Devices -> Entry]
  BY Zenon DEF Entry

(* A return changes nothing but the place of the process and the two        *)
(* counters, which stay within their bounds.                                *)
LEMMA ReturnType ==
    ASSUME TypeInv, NEW p \in Procs, Return(p)
    PROVE  /\ pc' \in [Procs -> ProcPC]
           /\ haltPasses' \in [Procs -> 0..2]
           /\ runPasses' \in [Procs -> 0..2]
  BY DEF TypeInv, TypeOK, Return, Goto, ProcPC

(* The steps of an exerciser keep the types.                                *)
LEMMA ExerciserType ==
    ASSUME TypeInv, NEW p \in Procs, Exerciser(p)
    PROVE  TypeInv'
  <1> USE DEF TypeInv, TypeOK, PollsLeft, sems, procs, daemon, history,
              Goto, Await, Return
  <1>1. CASE Start(p)
    <2>1. HE' \in [Devices -> Entry]
      <3>1. [HE EXCEPT ![dev[p]].test_started_time = TRUE] \in [Devices -> Entry]
        BY EntryUpdate, Zenon
      <3> QED
        BY <1>1, <3>1, Zenon DEF Start
    <2>2. pc' \in [Procs -> ProcPC]
      BY <1>1 DEF Start, ProcPC
    <2> QED
      BY <1>1, <2>1, <2>2 DEF Start
  <1>2. CASE LeaveCycles(p)
    BY <1>2 DEF LeaveCycles, ProcPC
  <1>3. CASE SetErr(p)
    <2>1. err' \in [Devices -> {0, 1}]
      BY <1>3, Zenon DEF SetErr
    <2>2. /\ pc' \in [Procs -> ProcPC]
          /\ haltPasses' \in [Procs -> 0..2]
          /\ runPasses' \in [Procs -> 0..2]
      BY <1>3, ReturnType DEF SetErr, ProcPC
    <2> QED
      BY <1>3, <2>1, <2>2 DEF SetErr
  <1>4. CASE PassErr(p)
    BY <1>4 DEF PassErr, ProcPC
  <1>5. CASE PassRun(p)
    BY <1>5 DEF PassRun, ProcPC
  <1>6. CASE ReadGlobal(p)
    BY <1>6 DEF ReadGlobal, ProcPC
  <1>7. CASE SetAck(p)
    BY <1>7, Zenon DEF SetAck, ProcPC
  <1>8. CASE PassAct(p)
    BY <1>8 DEF PassAct, ProcPC
  <1>9. CASE ClearAck(p)
    <2>1. ack' \in [Devices -> {0, 1}]
      BY <1>9, Zenon DEF ClearAck
    <2>2. /\ pc' \in [Procs -> ProcPC]
          /\ haltPasses' \in [Procs -> 0..2]
          /\ runPasses' \in [Procs -> 0..2]
      BY <1>9, ReturnType, Zenon DEF ClearAck
    <2> QED
      BY <1>9, <2>1, <2>2 DEF ClearAck
  <1>10. CASE Interrupt(p)
    BY <1>10 DEF Interrupt, ProcPC
  <1>11. CASE Update(p)
    BY <1>11 DEF Update, ProcPC
  <1>12. CASE Reconfig(p)
    <2>1. HE' \in [Devices -> Entry]
      BY <1>12, EntryUpdate, Zenon DEF Reconfig
    <2>2. pc' \in [Procs -> ProcPC]
      BY <1>12 DEF Reconfig, ProcPC
    <2> QED
      BY <1>12, <2>1, <2>2 DEF Reconfig
  <1>13. CASE FinishLastCycle(p)
    BY <1>13 DEF FinishLastCycle, ProcPC
  <1>14. CASE Error(p)
    BY <1>14 DEF Error, ProcPC
  <1>15. CASE Exit(p)
    BY <1>15 DEF Exit, ProcPC
  <1>16. CASE Reap(p)
    <2>1. HE' \in [Devices -> Entry]
      <3>1. [HE EXCEPT ![dev[p]].PID = NoProc] \in [Devices -> Entry]
        BY EntryUpdatePID, Zenon
      <3> QED
        BY <1>16, <3>1 DEF Reap
    <2>2. report' \in [Procs -> Reports]
      <3>1. EndReport(dev[p]) \in Reports
        BY ONLY Zenon DEF EndReport, Reports
      <3>2. report' = report \/ report' = [report EXCEPT ![p] = EndReport(dev[p])]
        BY <1>16 DEF Reap
      <3> HIDE DEF EndReport
      <3> QED
        BY <3>1, <3>2
    <2>3. pc' \in [Procs -> ProcPC]
      BY <1>16 DEF Reap, ProcPC
    <2> QED
      BY <1>16, <2>1, <2>2, <2>3 DEF Reap
  <1> QED
    BY <1>1, <1>2, <1>3, <1>4, <1>5, <1>6, <1>7, <1>8, <1>9, <1>10, <1>11,
       <1>12, <1>13, <1>14, <1>15, <1>16, Zenon DEF Exerciser, InCall

(* A thread that begins a command.                                          *)
LEMMA BeginType ==
    ASSUME NEW w \in ThreadPC, NEW c \in Cmds, NEW S \in SUBSET Devices
    PROVE  /\ [IdleThread EXCEPT !.pc = w, !.cmd = c] \in Thread
           /\ [IdleThread EXCEPT !.pc = w, !.cmd = c].polls = 0
           /\ [IdleThread EXCEPT !.pc = w, !.cmd = c, !.todo = S] \in Thread
           /\ [IdleThread EXCEPT !.pc = w, !.cmd = c, !.todo = S].polls = 0
  BY IdleThreadType, Zenon DEF Thread, IdleThread

(* The thread goes on to the next device of its list, or becomes idle.      *)
LEMMA NextDeviceType ==
    ASSUME TypeInv, NEW t \in Threads, NEW d \in Devices, NextDevice(t, d)
    PROVE  th' \in [Threads -> Thread] /\ PollsLeft'
  <1>1. IdleThread \in Thread /\ IdleThread.polls < MaxPolls
    BY IdleThreadType, ConstantsAssumption DEF IdleThread
  <1> DEFINE rest == [IdleThread EXCEPT !.pc = "each", !.cmd = th[t].cmd,
                                        !.todo = th[t].todo \ {d}]
  <1>2. rest \in Thread /\ rest.polls < MaxPolls
    <2>1. th[t] \in Thread
      BY DEF TypeInv, TypeOK
    <2> QED
      BY <1>1, <2>1, ConstantsAssumption, Zenon DEF Thread, ThreadPC, IdleThread
  <1>3. th' = [th EXCEPT ![t] = IF @.todo \subseteq {d} THEN IdleThread ELSE rest]
    BY DEF NextDevice
  <1> HIDE DEF rest
  <1> QED
    BY <1>1, <1>2, <1>3, SMTT(30) DEF TypeInv, TypeOK, PollsLeft

(* A SETVAL of a run semaphore keeps the types.                             *)
LEMMA SetRunType ==
    ASSUME TypeInv, NEW d, NEW v \in {0, 1}, SetRun(d, v)
    PROVE  run' \in [Devices -> {0, 1}] /\ runPasses' \in [Procs -> 0..2]
  <1>1. run' \in [Devices -> {0, 1}]
    BY Zenon DEF TypeInv, TypeOK, SetRun
  <1>2. runPasses' \in [Procs -> 0..2]
    BY DEF TypeInv, TypeOK, SetRun
  <1> QED
    BY <1>1, <1>2

(* A SETVAL of the global semaphore keeps the types.                        *)
LEMMA SetSem0Type ==
    ASSUME TypeInv, NEW v \in {0, 1}, SetSem0(v)
    PROVE  sem0' \in {0, 1} /\ haltPasses' \in [Procs -> 0..2]
  BY DEF TypeInv, TypeOK, SetSem0

(* A thread moves on without touching its other local variables.            *)
LEMMA ThreadGoto ==
    ASSUME TypeInv, NEW t \in Threads, NEW w \in ThreadPC,
           w \in {"setGlobal", "poll", "count"} =>
             th[t].pc \in {"setGlobal", "poll", "count"},
           th' = [th EXCEPT ![t].pc = w]
    PROVE  th' \in [Threads -> Thread] /\ PollsLeft'
  <1>1. th \in [Threads -> Thread] /\ PollsLeft
    BY DEF TypeInv, TypeOK
  <1> DEFINE new == [th[t] EXCEPT !.pc = w]
  <1>2. new \in Thread /\ new.pc = w /\ new.polls = th[t].polls
    BY ONLY <1>1, w \in ThreadPC, t \in Threads DEF Thread
  <1>3. th' = [th EXCEPT ![t] = new]
    OBVIOUS
  <1> HIDE DEF new
  <1>4. th' \in [Threads -> Thread]
    BY ONLY <1>1, <1>2, <1>3
  <1>5. PollsLeft'
    BY ONLY <1>1, <1>2, <1>3, w \in {"setGlobal", "poll", "count"} =>
                               th[t].pc \in {"setGlobal", "poll", "count"}
    DEF PollsLeft
  <1> QED
    BY <1>4, <1>5

(* A thread starts or ends a command: its record is replaced.               *)
LEMMA ThreadSet ==
    ASSUME TypeInv, NEW t \in Threads, NEW new \in Thread, new.polls < MaxPolls,
           th' = [th EXCEPT ![t] = new]
    PROVE  th' \in [Threads -> Thread] /\ PollsLeft'
  <1>1. th \in [Threads -> Thread] /\ PollsLeft
    BY SMTT(30) DEF TypeInv, TypeOK
  <1> QED
    BY ONLY <1>1, new \in Thread, new.polls < MaxPolls,
            th' = [th EXCEPT ![t] = new]
    DEF PollsLeft

(* The steps of the halt command keep the types.                            *)
LEMMA HaltType ==
    ASSUME TypeInv, NEW t \in Threads, BeginHalt(t) \/ HaltStep(t)
    PROVE  TypeInv'
  <1> USE DEF TypeInv, TypeOK, sems, procs, daemon, history
  <1>0. th[t] \in Thread
    OBVIOUS
  <1>1. CASE BeginHalt(t)
    <2> DEFINE begun == [IdleThread EXCEPT
                           !.pc = IF sem0 = 0 THEN "setGlobal" ELSE "setActive",
                           !.cmd = "test_activate_halt"]
    <2>1. begun \in Thread /\ begun.polls < MaxPolls
      <3>1. "test_activate_halt" \in Cmds
        BY <1>1 DEF BeginHalt, Accepts
      <3>2. (IF sem0 = 0 THEN "setGlobal" ELSE "setActive") \in ThreadPC
        BY DEF ThreadPC
      <3>3. begun \in Thread /\ begun.polls = 0
        BY ONLY <3>1, <3>2, BeginType, Zenon
      <3> QED
        BY ONLY <3>3, ConstantsAssumption
    <2>2. th' = [th EXCEPT ![t] = begun]
      BY <1>1 DEF BeginHalt
    <2> HIDE DEF begun
    <2>3. th' \in [Threads -> Thread] /\ PollsLeft'
      BY <2>1, <2>2, ThreadSet, Zenon
    <2> QED
      BY <1>1, <2>3 DEF BeginHalt
  <1>2. CASE SetGlobal(t)
    <2>1. th' = [th EXCEPT ![t].pc = "poll"]
      BY <1>2 DEF SetGlobal
    <2>2. th' \in [Threads -> Thread] /\ PollsLeft'
      BY <1>2, <2>1, ThreadGoto, Zenon DEF SetGlobal, ThreadPC
    <2> QED
      BY <1>2, <2>1, <2>2, SetSem0Type DEF SetGlobal
  <1>3. CASE Poll(t)
    <2>1. th' \in [Threads -> Thread]
      BY <1>0, <1>3, Zenon DEF Poll, Thread, ThreadPC
    <2>2. PollsLeft'
      BY <1>3, <1>0, Zenon DEF Poll, PollsLeft, Thread
    <2> QED
      BY <1>3, <2>1, <2>2, Zenon DEF Poll
  <1>4. CASE Halted(t)
    <2> DEFINE idle == [IdleThread EXCEPT !.reply = th[t].reply]
    <2>1. idle \in Thread /\ idle.polls < MaxPolls
      BY <1>0, IdleThreadType, ConstantsAssumption DEF Thread, IdleThread
    <2>2. th' = [th EXCEPT ![t] = idle]
      BY <1>4 DEF Halted
    <2> HIDE DEF idle
    <2>3. th' \in [Threads -> Thread] /\ PollsLeft'
      BY <2>1, <2>2, ThreadSet, Zenon
    <2> QED
      BY <1>4, <2>3 DEF Halted
  <1>5. CASE SetActive(t)
    <2>1. th' = [th EXCEPT ![t].pc = "activated"]
      BY <1>5 DEF SetActive
    <2>2. th' \in [Threads -> Thread] /\ PollsLeft'
      BY <1>5, <2>1, ThreadGoto, Zenon DEF SetActive, ThreadPC
    <2> QED
      BY <1>5, <2>1, <2>2, SetSem0Type DEF SetActive
  <1>6. CASE Activated(t)
    <2> DEFINE idle == [IdleThread EXCEPT !.reply = "activated"]
    <2>1. idle \in Thread /\ idle.polls < MaxPolls
      BY ONLY IdleThreadType, ConstantsAssumption DEF Thread, IdleThread, Replies
    <2>2. th' = [th EXCEPT ![t] = idle]
      BY <1>6 DEF Activated
    <2> HIDE DEF idle
    <2>3. th' \in [Threads -> Thread] /\ PollsLeft'
      BY <2>1, <2>2, ThreadSet, Zenon
    <2> QED
      BY <1>6, <2>3 DEF Activated
  <1>7. ASSUME NEW d \in Devices, CountStopped(t, d)
        PROVE  TypeInv'
    <2> DEFINE last == th[t].todo = {d}
               new == [th[t] EXCEPT
                         !.todo = th[t].todo \ {d},
                         !.pc = IF last THEN "halted" ELSE th[t].pc,
                         !.reply = IF last THEN "stopped" ELSE th[t].reply]
    <2>0. new \in Thread /\ new.polls = th[t].polls
      <3>1. (IF last THEN "halted" ELSE th[t].pc) \in ThreadPC
        BY <1>0 DEF Thread, ThreadPC
      <3>2. (IF last THEN "stopped" ELSE th[t].reply) \in Replies
        BY <1>0 DEF Thread, Replies
      <3>3. th[t].todo \ {d} \in SUBSET Devices
        BY <1>0 DEF Thread
      <3> QED
        BY ONLY <1>0, <3>1, <3>2, <3>3, Zenon DEF Thread
    <2>1. th' = [th EXCEPT ![t] = new]
      BY <1>7, Zenon DEF CountStopped
    <2> HIDE DEF new
    <2>2. PollsLeft'
      BY <1>7, <1>0, <2>0, <2>1, Zenon DEF CountStopped, PollsLeft, Thread
    <2> QED
      <3>1. th' \in [Threads -> Thread]
        BY <2>0, <2>1
      <3> QED
        BY <1>7, <2>2, <3>1, Zenon DEF CountStopped
  <1>8. ASSUME NEW d \in Devices, CountRunning(t, d)
        PROVE  TypeInv'
    <2>0. th[t].polls \in 0..MaxPolls /\ th[t].polls < MaxPolls
      BY <1>8, <1>0 DEF CountRunning, PollsLeft, Thread
    <2> DEFINE more == th[t].polls + 1 < MaxPolls
               new == [th[t] EXCEPT
                         !.polls = th[t].polls + 1,
                         !.pc = IF more THEN "poll" ELSE "halted",
                         !.reply = IF more THEN th[t].reply ELSE "warning"]
    <2>3. new \in Thread
      <3>1. (IF more THEN "poll" ELSE "halted") \in ThreadPC
        BY DEF ThreadPC
      <3>2. (IF more THEN th[t].reply ELSE "warning") \in Replies
        BY <1>0 DEF Thread, Replies
      <3>3. th[t].polls + 1 \in 0..MaxPolls
        BY <2>0, ConstantsAssumption
      <3> QED
        BY ONLY <1>0, <3>1, <3>2, <3>3, Zenon DEF Thread
    <2>4. th' = [th EXCEPT ![t] = new]
      BY <1>8, Zenon DEF CountRunning
    <2>1. th' \in [Threads -> Thread]
      <3> HIDE DEF new
      <3> QED
        BY <1>0, <2>3, <2>4
    <2>2. PollsLeft'
      <3>2. /\ new.pc = IF more THEN "poll" ELSE "halted"
            /\ new.polls = th[t].polls + 1
        BY <1>0, Zenon DEF Thread
      <3> HIDE DEF new
      <3>1. new.pc = "halted" \/ (new.pc = "poll" /\ new.polls < MaxPolls)
        BY ONLY <2>0, <3>2, ConstantsAssumption
      <3> QED
        BY ONLY <1>0, <2>4, <3>1, PollsLeft, th \in [Threads -> Thread]
        DEF PollsLeft
    <2> QED
      BY <1>8, <2>1, <2>2 DEF CountRunning
  <1> QED
    BY <1>1, <1>2, <1>3, <1>4, <1>5, <1>6, <1>7, <1>8 DEF HaltStep

(* The steps of a command on a list of devices keep the types.              *)
LEMMA ListType ==
    ASSUME TypeInv, NEW t \in Threads, NEW d \in Devices, ListStep(t, d)
    PROVE  TypeInv'
  <1> USE DEF TypeInv, TypeOK, sems, procs, daemon, history
  <1>0. th[t] \in Thread /\ th[t].saved \in {0, 1}
    BY DEF Thread
  <1>1. CASE ActivateDevice(t, d)
    BY <1>1, SetRunType, NextDeviceType DEF ActivateDevice
  <1>2. CASE SuspendDevice(t, d)
    BY <1>2, SetRunType, NextDeviceType DEF SuspendDevice
  <1>3. CASE CoeDevice(t, d)
    <2>1. HE' \in [Devices -> Entry]
      BY <1>3, EntryUpdate, Zenon DEF CoeDevice
    <2> QED
      BY <1>3, <2>1, NextDeviceType DEF CoeDevice
  <1>4. CASE SoeDevice(t, d)
    <2>1. HE' \in [Devices -> Entry]
      BY <1>4, EntryUpdate, Zenon DEF SoeDevice
    <2> QED
      BY <1>4, <2>1, NextDeviceType DEF SoeDevice
  <1>5. CASE ToggleRead(t, d)
    <2> DEFINE value == IF th[t].cmd = "activate_halt" THEN run[d]
                        ELSE IF HE[d].cont_on_err THEN 1 ELSE 0
               new == [th[t] EXCEPT !.cur = d, !.saved = value, !.pc = "flip"]
    <2>3. new \in Thread
      <3>1. value \in {0, 1} /\ "flip" \in ThreadPC
        BY DEF ThreadPC
      <3> HIDE DEF value
      <3> QED
        BY ONLY <1>0, <3>1, Zenon DEF Thread
    <2>4. th' = [th EXCEPT ![t] = new]
      BY <1>5, Zenon DEF ToggleRead
    <2>1. th' \in [Threads -> Thread]
      <3> HIDE DEF new
      <3> QED
        BY <1>0, <2>3, <2>4
    <2>2. PollsLeft'
      BY <1>5, <1>0 DEF ToggleRead, PollsLeft, Thread
    <2> QED
      BY <1>5, <2>1, <2>2 DEF ToggleRead
  <1>6. CASE ToggleWrite(t, d)
    <2>1. HE' \in [Devices -> Entry]
      <3>1. [HE EXCEPT ![d].cont_on_err = (th[t].saved = 0)] \in [Devices -> Entry]
        BY EntryUpdate, Zenon
      <3> QED
        BY <1>6, <3>1 DEF ToggleWrite
    <2>2. run' \in [Devices -> {0, 1}] /\ runPasses' \in [Procs -> 0..2]
      <3>1. 1 - th[t].saved \in {0, 1}
        BY <1>0, Complement, Zenon
      <3> QED
        BY <1>6, <3>1, SetRunType DEF ToggleWrite
    <2> QED
      BY <1>6, <2>1, <2>2, NextDeviceType DEF ToggleWrite
  <1>7. CASE RestartDevice(t, d)
    <2>1. HE' \in [Devices -> Entry]
      <3>1. \A p \in Procs : [HE EXCEPT ![d].PID = p] \in [Devices -> Entry]
        BY EntryUpdatePID
      <3> QED
        BY <1>7, <3>1 DEF RestartDevice
    <2>2. pc' \in [Procs -> ProcPC] /\ dev' \in [Procs -> Devices \cup {NoDev}]
      BY <1>7 DEF RestartDevice, Goto, ProcPC
    <2> QED
      BY <1>7, <2>1, <2>2, NextDeviceType DEF RestartDevice
  <1>8. CASE TerminateDevice(t, d)
    <2>1. HE[d].PID \in Procs \cup {NoProc}
      BY DEF Entry
    <2>2. th' \in [Threads -> Thread] /\ PollsLeft'
      <3>1. CASE NextDevice(t, d)
        BY <1>8, <3>1, NextDeviceType DEF TerminateDevice
      <3>2. CASE th' = [th EXCEPT ![t].cur = d, ![t].HE_pid = HE[d].PID,
                                  ![t].saved = run[d], ![t].pc = "termRun"]
        <4>1. th' \in [Threads -> Thread]
          <5> DEFINE new == [th[t] EXCEPT !.cur = d, !.HE_pid = HE[d].PID,
                                          !.saved = run[d], !.pc = "termRun"]
          <5>1. run[d] \in {0, 1} /\ "termRun" \in ThreadPC
            BY DEF ThreadPC
          <5>2. new \in Thread
            BY ONLY <1>0, <2>1, <5>1, Zenon DEF Thread
          <5>3. th' = [th EXCEPT ![t] = new]
            BY <1>8, <3>2, Zenon DEF TerminateDevice
          <5> HIDE DEF new
          <5> QED
            BY <1>0, <5>2, <5>3
        <4>2. PollsLeft'
          BY <1>8, <1>0, <3>2 DEF TerminateDevice, PollsLeft, Thread
        <4> QED
          BY <4>1, <4>2
      <3> QED
        BY <1>8, <3>1, <3>2 DEF TerminateDevice
    <2> QED
      BY <1>8, <2>2 DEF TerminateDevice
  <1>9. CASE TermRun(t, d)
    <2>1. th' = [th EXCEPT ![t].pc = "termErr"]
      BY <1>9 DEF TermRun
    <2>2. th' \in [Threads -> Thread] /\ PollsLeft'
      BY <1>9, <2>1, ThreadGoto, Zenon DEF TermRun, ThreadPC
    <2> QED
      BY <1>9, <2>1, <2>2, SetRunType DEF TermRun
  <1>10. CASE TermErr(t, d)
    <2>1. th' = [th EXCEPT ![t].pc = "termMark"]
      BY <1>10 DEF TermErr
    <2>2. th' \in [Threads -> Thread] /\ PollsLeft'
      BY <1>10, <2>1, ThreadGoto, Zenon DEF TermErr, ThreadPC
    <2> QED
      BY <1>10, <2>1, <2>2 DEF TermErr
  <1>11. CASE TermMark(t, d)
    <2>1. th' = [th EXCEPT ![t].pc = "termKill"]
      BY <1>11 DEF TermMark
    <2>2. th' \in [Threads -> Thread] /\ PollsLeft'
      BY <1>11, <2>1, ThreadGoto, Zenon DEF TermMark, ThreadPC
    <2>3. HE' \in [Devices -> Entry]
      BY <1>11, EntryUpdateTwo, Zenon DEF TermMark
    <2> QED
      BY <1>11, <2>1, <2>2, <2>3 DEF TermMark
  <1>12. CASE TermKill(t, d)
    <2>1. PICK w \in {"termRestore", "termAlarm"} : th' = [th EXCEPT ![t].pc = w]
      BY <1>12 DEF TermKill
    <2>2. th' \in [Threads -> Thread] /\ PollsLeft'
      BY <2>1, ThreadGoto, Zenon DEF ThreadPC
    <2>3. HE' \in [Devices -> Entry]
      <3>1. [HE EXCEPT ![d].user_term = FALSE, ![d].DR_term = FALSE]
              \in [Devices -> Entry]
        BY EntryUpdateTwo, Zenon
      <3> QED
        BY <1>12, <3>1, Zenon DEF TermKill
    <2>4. sig' \in [Procs -> SUBSET Senders]
      BY <1>12 DEF TermKill, Signalled, Senders
    <2> QED
      BY <1>12, <2>1, <2>2, <2>3, <2>4, Zenon DEF TermKill
  <1>13. CASE TermAlarm(t, d)
    <2>1. th' = [th EXCEPT ![t].pc = "termRestore"]
      BY <1>13 DEF TermAlarm
    <2>2. th' \in [Threads -> Thread] /\ PollsLeft'
      BY <1>13, <2>1, ThreadGoto, Zenon DEF TermAlarm, ThreadPC
    <2>3. sig' \in [Procs -> SUBSET Senders]
      <3>1. sig' = sig \/ sig' = Signalled(th[t].HE_pid, "kill")
        BY <1>13 DEF TermAlarm
      <3> QED
        BY ONLY <3>1, sig \in [Procs -> SUBSET Senders] DEF Signalled, Senders
    <2> QED
      BY <1>13, <2>1, <2>2, <2>3, Zenon DEF TermAlarm
  <1>14. CASE TermRestore(t, d)
    <2>1. th' \in [Threads -> Thread] /\ PollsLeft'
      BY <1>14, NextDeviceType, Zenon DEF TermRestore
    <2>2. th[t].saved \in {0, 1}
      BY <1>0, Zenon DEF Thread
    <2>3. run' \in [Devices -> {0, 1}] /\ runPasses' \in [Procs -> 0..2]
      BY <1>14, <2>2, SetRunType, Zenon DEF TermRestore
    <2> QED
      BY <1>14, <2>1, <2>3, Zenon DEF TermRestore
  <1> QED
    BY <1>1, <1>2, <1>3, <1>4, <1>5, <1>6, <1>7, <1>8, <1>9, <1>10, <1>11,
       <1>12, <1>13, <1>14, Zenon DEF ListStep

(* The steps of the unload keep the types.                                  *)
LEMMA UnloadType ==
    ASSUME TypeInv, NEW t \in Threads, BeginShutdown(t) \/ UnloadStep(t)
    PROVE  TypeInv'
  <1> USE DEF TypeInv, TypeOK, sems, procs, daemon, history
  <1>0. th[t] \in Thread
    OBVIOUS
  <1>1. CASE BeginShutdown(t)
    <2> DEFINE begun == [IdleThread EXCEPT !.pc = "unloadFlag", !.cmd = "shutdown"]
    <2>1. begun \in Thread /\ begun.polls < MaxPolls
      <3>1. "shutdown" \in Cmds
        BY <1>1 DEF BeginShutdown, Accepts
      <3>2. "unloadFlag" \in ThreadPC
        BY DEF ThreadPC
      <3>3. begun \in Thread /\ begun.polls = 0
        BY ONLY <3>1, <3>2, BeginType, Zenon
      <3> QED
        BY ONLY <3>3, ConstantsAssumption
    <2>2. th' = [th EXCEPT ![t] = begun]
      BY <1>1 DEF BeginShutdown
    <2> HIDE DEF begun
    <2> QED
      BY <1>1, <2>1, <2>2 DEF BeginShutdown, PollsLeft
  <1>2. CASE UnloadFlag(t)
    <2>1. th' = [th EXCEPT ![t].pc = "unloadRelease"]
      BY <1>2 DEF UnloadFlag
    <2>2. th' \in [Threads -> Thread] /\ PollsLeft'
      BY <1>2, <2>1, ThreadGoto, Zenon DEF UnloadFlag, ThreadPC
    <2> QED
      BY <1>2, <2>1, <2>2 DEF UnloadFlag
  <1>3. CASE UnloadRelease(t)
    <2> DEFINE new == [th[t] EXCEPT !.todo = Devices, !.pc = "unloadKill"]
    <2>3. new \in Thread /\ new.pc = "unloadKill"
      BY ONLY <1>0, Zenon DEF Thread, ThreadPC
    <2>4. th' = [th EXCEPT ![t] = new]
      BY <1>3, Zenon DEF UnloadRelease
    <2> HIDE DEF new
    <2>1. th' \in [Threads -> Thread]
      BY ONLY <2>3, <2>4, th \in [Threads -> Thread]
    <2>2. PollsLeft'
      BY ONLY <2>3, <2>4, th \in [Threads -> Thread], PollsLeft DEF PollsLeft
    <2> QED
      BY <1>3, <2>1, <2>2 DEF UnloadRelease
  <1>4. CASE UnloadWait(t)
    <2>1. th' = [th EXCEPT ![t].pc = "done"]
      BY <1>4 DEF UnloadWait
    <2>2. th' \in [Threads -> Thread] /\ PollsLeft'
      BY <1>4, <2>1, ThreadGoto, Zenon DEF UnloadWait, ThreadPC
    <2> QED
      BY <1>4, <2>1, <2>2 DEF UnloadWait
  <1>5. ASSUME NEW d \in Devices, UnloadKill(t, d)
        PROVE  TypeInv'
    <2> DEFINE last == th[t].todo = {d}
               new == [th[t] EXCEPT !.todo = th[t].todo \ {d},
                                    !.pc = IF last THEN "unloadWait" ELSE th[t].pc]
    <2>4. new \in Thread
      <3>1. (IF last THEN "unloadWait" ELSE th[t].pc) \in ThreadPC
        BY <1>0 DEF Thread, ThreadPC
      <3>2. th[t].todo \ {d} \in SUBSET Devices
        BY <1>0 DEF Thread
      <3> QED
        BY ONLY <1>0, <3>1, <3>2, Zenon DEF Thread
    <2>5. th' = [th EXCEPT ![t] = new]
      BY <1>5, Zenon DEF UnloadKill
    <2>1. th' \in [Threads -> Thread]
      <3> HIDE DEF new
      <3> QED
        BY <1>0, <2>4, <2>5
    <2>2. PollsLeft'
      BY <1>5, <1>0 DEF UnloadKill, PollsLeft, Thread
    <2>3. sig' \in [Procs -> SUBSET Senders]
      BY <1>5, Zenon DEF UnloadKill, Signalled, Senders
    <2> QED
      BY <1>5, <2>1, <2>2, <2>3 DEF UnloadKill
  <1> QED
    BY <1>1, <1>2, <1>3, <1>4, <1>5 DEF UnloadStep
(* The stop watch keeps the types.                                          *)
LEMMA StopWatchType ==
    ASSUME TypeInv, NEW d \in Devices, Expire(d) \/ WatchSignal(d)
    PROVE  TypeInv'
  <1> USE DEF TypeInv, TypeOK, PollsLeft, sems, procs, daemon, history
  <1>1. CASE Expire(d)
    <2>1. HE' \in [Devices -> Entry]
      BY <1>1, EntryUpdate, Zenon DEF Expire
    <2> QED
      BY <1>1, <2>1 DEF Expire
  <1>2. CASE WatchSignal(d)
    <2>1. sig' \in [Procs -> SUBSET Senders]
      BY <1>2 DEF WatchSignal, Signalled, Senders
    <2> QED
      BY <1>2, <2>1, Zenon DEF WatchSignal
  <1> QED
    BY <1>1, <1>2

(* The begin of a command on a list keeps the types.                        *)
LEMMA BeginListType ==
    ASSUME TypeInv, NEW t \in Threads, NEW c, NEW S \in SUBSET Devices,
           BeginList(t, c, S)
    PROVE  TypeInv'
  <1> DEFINE begun == [IdleThread EXCEPT !.pc = "each", !.cmd = c, !.todo = S]
  <1>1. begun \in Thread /\ begun.polls < MaxPolls
    <2>1. c \in Cmds /\ "each" \in ThreadPC
      BY DEF BeginList, Accepts, ThreadPC
    <2>2. begun \in Thread /\ begun.polls = 0
      BY ONLY <2>1, BeginType, S \in SUBSET Devices, Zenon
    <2> QED
      BY ONLY <2>2, ConstantsAssumption
  <1>2. th' = [th EXCEPT ![t] = begun]
    BY DEF BeginList
  <1> HIDE DEF begun
  <1> QED
    BY <1>1, <1>2 DEF BeginList, PollsLeft, TypeInv, TypeOK, sems, procs,
                      daemon, history

(* Every step keeps the types.                                              *)
LEMMA NextType == TypeInv /\ [Next]_vars => TypeInv'
  <1> SUFFICES ASSUME TypeInv, [Next]_vars PROVE TypeInv'
    OBVIOUS
  <1>1. ASSUME NEW p \in Procs, Exerciser(p) PROVE TypeInv'
    BY <1>1, ExerciserType
  <1>2. ASSUME NEW t \in Threads, Command(t) PROVE TypeInv'
    BY <1>2, HaltType, ListType, UnloadType, BeginListType
    DEF Command, Working
  <1>3. CASE StopWatch
    BY <1>3, StopWatchType DEF StopWatch
  <1>4. CASE UNCHANGED vars
    BY <1>4 DEF vars, sems, procs, daemon, history, TypeInv, TypeOK, PollsLeft
  <1> QED
    BY <1>1, <1>2, <1>3, <1>4 DEF Next

(* Type correctness: in every reachable state every variable has a value of *)
(* its type; in particular the poll counter of                              *)
(* htxd_option_method_test_activate_halt never passes its bound.            *)
THEOREM TypeCorrect == Spec => []TypeOK
  <1>1. TypeInv => TypeOK
    BY DEF TypeInv
  <1> QED
    BY <1>1, InitType, NextType, PTL DEF Spec
-----------------------------------------------------------------------------
(***************************************************************************)
(* HaltTakesEffect.  The invariant is not inductive alone: the one return  *)
(* that is allowed is the one of a process that has already passed its     *)
(* wait on semaphore 0 and is about to clear its acknowledgement, so such  *)
(* a process must not have returned before.                                *)
(***************************************************************************)
HeldByHalt(p) ==
    sem0 = 1 /\ ~shutdown =>
      /\ haltPasses[p] <= 1
      /\ pc[p] = "clearAck" => haltPasses[p] = 0

HaltInv == TypeOK /\ \A p \in Procs : HeldByHalt(p)

(* An exerciser that the halt holds stays held.                             *)
LEMMA ExerciserHalt ==
    ASSUME HaltInv, NEW p \in Procs, Exerciser(p), NEW q \in Procs
    PROVE  HeldByHalt(q)'
  <1> USE DEF HaltInv, HeldByHalt, TypeOK, sems, procs, daemon, history,
              Goto, Await, Return
  <1>0. HeldByHalt(q) /\ HeldByHalt(p)
    OBVIOUS
  <1>1. CASE Start(p) \/ Reconfig(p) \/ Reap(p)
    BY <1>0, <1>1, SMTT(30) DEF Start, Reconfig, Reap
  <1>7. CASE Update(p) \/ FinishLastCycle(p) \/ LeaveCycles(p)
    BY <1>0, <1>7, SMTT(30) DEF Update, FinishLastCycle, LeaveCycles
  <1>8. CASE Error(p) \/ PassRun(p) \/ Exit(p)
    BY <1>0, <1>8, SMTT(30) DEF Error, PassRun, Exit
  <1>2. CASE SetErr(p) \/ PassErr(p)
    BY <1>0, <1>2 DEF SetErr, PassErr
  <1>5. CASE ReadGlobal(p)
    BY <1>0, <1>5, SMTT(30) DEF ReadGlobal
  <1>6. CASE Interrupt(p)
    BY <1>0, <1>6 DEF Interrupt
  <1>3. CASE SetAck(p) \/ PassAct(p)
    BY <1>0, <1>3, SMTT(30) DEF SetAck, PassAct
  <1>4. CASE ClearAck(p)
    BY <1>0, <1>4 DEF ClearAck
  <1> QED
    BY <1>1, <1>2, <1>3, <1>4, <1>5, <1>6, <1>7, <1>8, Zenon DEF Exerciser, InCall

(* A SETVAL of the global semaphore starts the count anew.                  *)
LEMMA SetSem0Halt ==
    ASSUME HaltInv, NEW v \in {0, 1}, SetSem0(v), UNCHANGED <<pc, shutdown>>,
           NEW q \in Procs
    PROVE  HeldByHalt(q)'
  BY DEF HaltInv, HeldByHalt, TypeOK, SetSem0

(* No command lets a halted exerciser go.                                   *)
LEMMA CommandHalt ==
    ASSUME HaltInv, NEW t \in Threads, Command(t), NEW q \in Procs
    PROVE  HeldByHalt(q)'
  <1> USE DEF sems, procs, daemon, history
  <1>1. CASE SetGlobal(t) \/ SetActive(t)
    BY <1>1, SetSem0Halt DEF SetGlobal, SetActive
  <1>2. CASE UNCHANGED <<sem0, shutdown, pc, haltPasses>>
    BY <1>2 DEF HaltInv, HeldByHalt
  <1>3. CASE BeginHalt(t) \/ BeginShutdown(t)
    BY <1>2, <1>3 DEF BeginHalt, BeginShutdown
  <1>4. CASE Poll(t) \/ Halted(t) \/ Activated(t) \/ UnloadWait(t)
    BY <1>2, <1>4, Zenon DEF Poll, Halted, Activated, UnloadWait
  <1>5. CASE UnloadFlag(t)
    BY <1>5 DEF UnloadFlag, HeldByHalt
  <1>6. CASE UnloadRelease(t)
    BY <1>6 DEF UnloadRelease, HeldByHalt
  <1>7. ASSUME NEW d \in Devices, CountStopped(t, d) \/ CountRunning(t, d)
                                  \/ UnloadKill(t, d)
        PROVE  HeldByHalt(q)'
    BY <1>2, <1>7, Zenon DEF CountStopped, CountRunning, UnloadKill
  <1>8. ASSUME NEW c, NEW S, BeginList(t, c, S)
        PROVE  HeldByHalt(q)'
    BY <1>2, <1>8 DEF BeginList
  <1>9. ASSUME NEW d \in Devices, ListStep(t, d)
        PROVE  HeldByHalt(q)'
    <2>1. CASE RestartDevice(t, d)
      BY <2>1 DEF RestartDevice, Goto, HaltInv, HeldByHalt, TypeOK
    <2>2. CASE ActivateDevice(t, d) \/ SuspendDevice(t, d) \/ CoeDevice(t, d)
               \/ SoeDevice(t, d)
      BY <1>2, <2>2 DEF ActivateDevice, SuspendDevice, CoeDevice, SoeDevice
    <2>3. CASE ToggleRead(t, d) \/ ToggleWrite(t, d) \/ TerminateDevice(t, d)
      BY <1>2, <2>3 DEF ToggleRead, ToggleWrite, TerminateDevice
    <2>4. CASE TermRun(t, d) \/ TermErr(t, d) \/ TermMark(t, d)
               \/ TermRestore(t, d)
      BY <1>2, <2>4 DEF TermRun, TermErr, TermMark, TermRestore
    <2>5. CASE TermKill(t, d) \/ TermAlarm(t, d)
      BY <1>2, <2>5 DEF TermKill, TermAlarm
    <2> QED
      BY <1>9, <2>1, <2>2, <2>3, <2>4, <2>5 DEF ListStep
  <1> QED
    BY <1>1, <1>3, <1>4, <1>5, <1>6, <1>7, <1>8, <1>9
    DEF Command, Working, HaltStep, UnloadStep

(* A halt takes effect on every exerciser: whatever the interleaving of     *)
(* commands, and however many exercisers and sessions there are, a process  *)
(* returns at most once from a waiting call of hxfupdate while the test is  *)
(* halted (hxfupdate_tunsafe, htxd_option_method_test_activate_halt).       *)
THEOREM HaltEffective == Spec => []HaltTakesEffect
  <1>1. Init => HaltInv
    <2>1. Init => TypeOK
      BY InitType DEF TypeInv
    <2>2. Init => sem0 = 0
      BY DEF Init
    <2> QED
      BY <2>1, <2>2 DEF HaltInv, HeldByHalt
  <1>2. HaltInv /\ TypeOK' /\ [Next]_vars => HaltInv'
    <2> SUFFICES ASSUME HaltInv, TypeOK', [Next]_vars, NEW q \in Procs
                 PROVE  HeldByHalt(q)'
      BY DEF HaltInv
    <2>1. ASSUME NEW d \in Devices, Expire(d) \/ WatchSignal(d)
          PROVE  HeldByHalt(q)'
      BY <2>1 DEF Expire, WatchSignal, HaltInv, HeldByHalt, sems, procs, history
    <2>2. CASE UNCHANGED vars
      <3>1. UNCHANGED <<sem0, shutdown, pc, haltPasses>>
        BY <2>2, Zenon DEF vars, sems, procs, history
      <3> QED
        BY <3>1, Zenon DEF HaltInv, HeldByHalt
    <2> QED
      BY <2>1, <2>2, ExerciserHalt, CommandHalt DEF Next, StopWatch
  <1>3. HaltInv => HaltTakesEffect
    BY DEF HaltInv, HeldByHalt, HaltTakesEffect
  <1> QED
    BY <1>1, <1>2, <1>3, TypeCorrect, PTL DEF Spec
-----------------------------------------------------------------------------
(***************************************************************************)
(* SuspendTakesEffect.  A process that has passed the wait on its run      *)
(* semaphore may return once more, so it must not have returned before;    *)
(* and a process that restart is about to fork starts with no return.      *)
(***************************************************************************)
PastRunWait == {"readGlobal", "setAck", "inAct", "clearAck"}

HeldBySuspend(p) ==
    /\ pc[p] = "unused" => runPasses[p] = 0
    /\ pc[p] # "unused" => dev[p] \in Devices
    /\ ~shutdown /\ dev[p] \in Devices /\ run[dev[p]] = 1 =>
         /\ runPasses[p] <= 1
         /\ pc[p] \in PastRunWait => runPasses[p] = 0

SuspendInv == TypeOK /\ \A p \in Procs : HeldBySuspend(p)

(* An exerciser that a suspension holds stays held.                         *)
LEMMA ExerciserSuspend ==
    ASSUME SuspendInv, NEW p \in Procs, Exerciser(p), NEW q \in Procs
    PROVE  HeldBySuspend(q)'
  <1> USE DEF SuspendInv, HeldBySuspend, TypeOK, sems, procs, daemon, history,
              Goto, Await, Return, PastRunWait
  <1>0. HeldBySuspend(q) /\ HeldBySuspend(p)
    OBVIOUS
  <1>1. CASE Start(p) \/ Reconfig(p) \/ Reap(p)
    BY <1>0, <1>1, SMTT(30) DEF Start, Reconfig, Reap
  <1>7. CASE Update(p) \/ FinishLastCycle(p) \/ LeaveCycles(p)
    BY <1>0, <1>7, SMTT(30) DEF Update, FinishLastCycle, LeaveCycles
  <1>8. CASE Error(p) \/ PassRun(p) \/ Exit(p)
    BY <1>0, <1>8, SMTT(30) DEF Error, PassRun, Exit, Live
  <1>2. CASE SetErr(p) \/ PassErr(p)
    BY <1>0, <1>2, SMTT(30) DEF SetErr, PassErr
  <1>3. CASE ReadGlobal(p)
    BY <1>0, <1>3, SMTT(30) DEF ReadGlobal
  <1>4. CASE Interrupt(p)
    BY <1>0, <1>4, SMTT(30) DEF Interrupt
  <1>5. CASE SetAck(p) \/ PassAct(p)
    BY <1>0, <1>5, SMTT(30) DEF SetAck, PassAct
  <1>6. CASE ClearAck(p)
    BY <1>0, <1>6 DEF ClearAck
  <1> QED
    BY <1>1, <1>2, <1>3, <1>4, <1>5, <1>6, <1>7, <1>8, Zenon DEF Exerciser, InCall

(* A SETVAL of the run semaphore starts the count anew.                     *)
LEMMA SetRunSuspend ==
    ASSUME SuspendInv, NEW d \in Devices, NEW v \in {0, 1}, SetRun(d, v),
           UNCHANGED <<pc, dev, shutdown>>, NEW q \in Procs
    PROVE  HeldBySuspend(q)'
  BY DEF SuspendInv, HeldBySuspend, TypeOK, SetRun

(* No command lets a suspended exerciser go.                                *)
LEMMA CommandSuspend ==
    ASSUME SuspendInv, NEW t \in Threads, Command(t), NEW q \in Procs
    PROVE  HeldBySuspend(q)'
  <1> USE DEF sems, procs, daemon, history
  <1>0. th[t].saved \in {0, 1}
    BY DEF SuspendInv, TypeOK, Thread
  <1>2. CASE UNCHANGED <<run, shutdown, pc, dev, runPasses>>
    BY <1>2, Zenon DEF SuspendInv, HeldBySuspend
  <1>3. CASE BeginHalt(t) \/ BeginShutdown(t)
    BY <1>2, <1>3 DEF BeginHalt, BeginShutdown
  <1>4. CASE Poll(t) \/ Halted(t) \/ Activated(t) \/ UnloadWait(t)
    BY <1>2, <1>4, Zenon DEF Poll, Halted, Activated, UnloadWait
  <1>1. CASE SetGlobal(t) \/ SetActive(t)
    BY <1>2, <1>1 DEF SetGlobal, SetActive
  <1>5. CASE UnloadFlag(t)
    BY <1>5 DEF UnloadFlag, SuspendInv, HeldBySuspend
  <1>6. CASE UnloadRelease(t)
    BY <1>6 DEF UnloadRelease, SuspendInv, HeldBySuspend
  <1>7. ASSUME NEW d \in Devices, CountStopped(t, d) \/ CountRunning(t, d)
                                  \/ UnloadKill(t, d)
        PROVE  HeldBySuspend(q)'
    BY <1>2, <1>7, Zenon DEF CountStopped, CountRunning, UnloadKill
  <1>8. ASSUME NEW c, NEW S, BeginList(t, c, S)
        PROVE  HeldBySuspend(q)'
    BY <1>2, <1>8 DEF BeginList
  <1>9. ASSUME NEW d \in Devices, ListStep(t, d)
        PROVE  HeldBySuspend(q)'
    <2>1. CASE RestartDevice(t, d)
      BY <2>1 DEF RestartDevice, Goto, SuspendInv, HeldBySuspend, TypeOK,
                  PastRunWait
    <2>2. CASE ActivateDevice(t, d) \/ SuspendDevice(t, d)
      BY <2>2, SetRunSuspend DEF ActivateDevice, SuspendDevice
    <2>3. CASE TermRun(t, d) \/ TermRestore(t, d)
      BY <1>0, <2>3, SetRunSuspend DEF TermRun, TermRestore
    <2>4. CASE ToggleWrite(t, d)
      <3>1. 1 - th[t].saved \in {0, 1}
        BY <1>0, Complement, Zenon
      <3> QED
        BY <1>2, <2>4, <3>1, SetRunSuspend DEF ToggleWrite
    <2>5. CASE CoeDevice(t, d) \/ SoeDevice(t, d) \/ ToggleRead(t, d)
               \/ TerminateDevice(t, d)
      BY <1>2, <2>5 DEF CoeDevice, SoeDevice, ToggleRead, TerminateDevice
    <2>6. CASE TermErr(t, d) \/ TermMark(t, d) \/ TermKill(t, d)
               \/ TermAlarm(t, d)
      BY <1>2, <2>6 DEF TermErr, TermMark, TermKill, TermAlarm
    <2> QED
      BY <1>9, <2>1, <2>2, <2>3, <2>4, <2>5, <2>6 DEF ListStep
  <1> QED
    BY <1>1, <1>3, <1>4, <1>5, <1>6, <1>7, <1>8, <1>9
    DEF Command, Working, HaltStep, UnloadStep

(* A suspension takes effect: a process of a suspended device returns at    *)
(* most once from a waiting call of hxfupdate until its run semaphore is    *)
(* cleared, whichever commands run concurrently (htxd_suspend_device,       *)
(* htxd_set_device_terminate_status, hxfupdate_tunsafe).                    *)
THEOREM SuspendEffective == Spec => []SuspendTakesEffect
  <1>1. Init => SuspendInv
    <2> SUFFICES ASSUME Init PROVE SuspendInv
      OBVIOUS
    <2>1. TypeOK
      BY InitType DEF TypeInv
    <2>2. /\ run = [d \in Devices |-> 0]
          /\ runPasses = [p \in Procs |-> 0]
          /\ pc = [p \in Procs |-> IF dev[p] = NoDev THEN "unused" ELSE "forked"]
          /\ dev \in [Procs -> Devices \cup {NoDev}]
      BY DEF Init
    <2> QED
      BY <2>1, <2>2 DEF SuspendInv, HeldBySuspend
  <1>2. SuspendInv /\ TypeOK' /\ [Next]_vars => SuspendInv'
    <2> SUFFICES ASSUME SuspendInv, TypeOK', [Next]_vars, NEW q \in Procs
                 PROVE  HeldBySuspend(q)'
      BY DEF SuspendInv
    <2>1. ASSUME NEW d \in Devices, Expire(d) \/ WatchSignal(d)
          PROVE  HeldBySuspend(q)'
      BY <2>1, SMTT(30) DEF Expire, WatchSignal, SuspendInv, HeldBySuspend, sems, procs,
                  history
    <2>2. CASE UNCHANGED vars
      BY <2>2 DEF vars, sems, procs, history, SuspendInv, HeldBySuspend
    <2> QED
      BY <2>1, <2>2, ExerciserSuspend, CommandSuspend DEF Next, StopWatch
  <1>3. SuspendInv => SuspendTakesEffect
    BY DEF SuspendInv, HeldBySuspend, SuspendTakesEffect, TypeOK
  <1> QED
    BY <1>1, <1>2, <1>3, TypeCorrect, PTL DEF Spec

-----------------------------------------------------------------------------
(***************************************************************************)
(* EntryNamesItsProcess is inductive together with the type invariant.     *)
(***************************************************************************)
Named(d) == HE[d].PID # NoProc => /\ dev[HE[d].PID] = d
                                  /\ pc[HE[d].PID] \notin {"unused", "reaped"}

EntryInv == TypeOK /\ \A d \in Devices : Named(d)

(* A step of an exerciser, or its reaping, keeps the entries named.         *)
LEMMA ExerciserEntry ==
    ASSUME EntryInv, NEW p \in Procs, Exerciser(p), NEW e \in Devices
    PROVE  Named(e)'
  <1> DEFINE Remain == \A q \in Procs : pc[q] \notin {"unused", "reaped"}
                                     => pc'[q] \notin {"unused", "reaped"}
  <1> USE DEF Goto, Await
  <1>0. Named(e) /\ HE[e] \in Entry /\ NoProc \notin Procs
    BY ConstantsAssumption DEF EntryInv, TypeOK
  <1>1. pc \in [Procs -> ProcPC] /\ HE \in [Devices -> Entry]
    BY Zenon DEF EntryInv, TypeOK
  <1>2. ASSUME HE'[e].PID = HE[e].PID, dev' = dev, Remain
        PROVE  Named(e)'
    BY ONLY <1>0, <1>2, Zenon DEF Named, Entry
  <1>3. CASE Update(p) \/ FinishLastCycle(p) \/ LeaveCycles(p) \/ Error(p)
    <2>1. Remain
      BY ONLY <1>1, <1>3 DEF Update, FinishLastCycle, LeaveCycles, Error
    <2> QED
      BY <1>2, <1>3, <2>1, Zenon DEF Update, FinishLastCycle, LeaveCycles, Error, procs
  <1>4. CASE PassRun(p) \/ SetAck(p) \/ PassAct(p) \/ Exit(p)
    <2>1. Remain
      BY ONLY <1>1, <1>4 DEF PassRun, SetAck, PassAct, Exit
    <2> QED
      BY <1>2, <1>4, <2>1, Zenon DEF PassRun, SetAck, PassAct, Exit, procs
  <1>5. CASE SetErr(p) \/ PassErr(p) \/ ClearAck(p)
    <2>1. Remain
      BY ONLY <1>1, <1>5 DEF SetErr, PassErr, ClearAck, Return
    <2> QED
      BY <1>2, <1>5, <2>1, Zenon DEF SetErr, PassErr, ClearAck, procs
  <1>6. CASE ReadGlobal(p) \/ Interrupt(p)
    <2>1. Remain
      BY ONLY <1>1, <1>6 DEF ReadGlobal, Interrupt, Return
    <2> QED
      BY <1>2, <1>6, <2>1, Zenon DEF ReadGlobal, Interrupt, procs
  <1>7. CASE Start(p) \/ Reconfig(p)
    <2>1. HE'[e].PID = HE[e].PID
      BY ONLY <1>0, <1>1, <1>7 DEF Start, Reconfig, Entry
    <2>2. Remain
      BY ONLY <1>1, <1>7 DEF Start, Reconfig
    <2> QED
      BY <1>2, <1>7, <2>1, <2>2, Zenon DEF Start, Reconfig, procs
  <1>8. CASE Reap(p)
    <2>0. HE[e].PID = p => dev[p] = e
      BY <1>0, Zenon DEF Named
    <2>1. HE[e].PID = p => HE'[e].PID = NoProc
      BY ONLY <1>0, <1>1, <1>8, <2>0 DEF Reap, Entry
    <2>2. HE[e].PID # p => HE'[e].PID \in {HE[e].PID, NoProc}
      BY ONLY <1>0, <1>1, <1>8 DEF Reap, Entry
    <2>3. \A q \in Procs : q # p => pc'[q] = pc[q]
      BY ONLY <1>1, <1>8 DEF Reap
    <2>4. dev' = dev
      BY <1>8, Zenon DEF Reap
    <2> QED
      BY ONLY <1>0, <2>1, <2>2, <2>3, <2>4 DEF Named, Entry
  <1> QED
    BY <1>3, <1>4, <1>5, <1>6, <1>7, <1>8, Zenon DEF Exerciser, InCall

(* A command keeps the entries named.                                       *)
LEMMA CommandEntry ==
    ASSUME EntryInv, NEW t \in Threads, Command(t), NEW e \in Devices
    PROVE  Named(e)'
  <1> USE DEF sems, procs, daemon, history
  <1>0. Named(e) /\ HE[e] \in Entry /\ HE \in [Devices -> Entry]
    BY SMTT(30) DEF EntryInv, TypeOK
  <1>1. CASE HE'[e].PID = HE[e].PID /\ UNCHANGED <<pc, dev>>
    BY <1>0, <1>1 DEF Named
  <1>2. CASE SetGlobal(t) \/ SetActive(t) \/ BeginHalt(t) \/ BeginShutdown(t)
    BY <1>1, <1>2 DEF BeginHalt, BeginShutdown, SetGlobal, SetActive
  <1>3. CASE Poll(t) \/ Halted(t) \/ Activated(t)
    BY <1>1, <1>3, Zenon DEF Poll, Halted, Activated
  <1>4. CASE UnloadWait(t) \/ UnloadFlag(t) \/ UnloadRelease(t)
    BY <1>1, <1>4 DEF UnloadWait, UnloadFlag, UnloadRelease
  <1>5. ASSUME NEW d \in Devices, CountStopped(t, d) \/ CountRunning(t, d)
                                  \/ UnloadKill(t, d)
        PROVE  Named(e)'
    BY <1>1, <1>5, Zenon DEF CountStopped, CountRunning, UnloadKill
  <1>6. ASSUME NEW c, NEW S, BeginList(t, c, S)
        PROVE  Named(e)'
    BY <1>1, <1>6, SMTT(30) DEF BeginList
  <1>7. ASSUME NEW d \in Devices, ListStep(t, d)
        PROVE  Named(e)'
    <2>1. CASE RestartDevice(t, d)
      BY <1>0, <2>1 DEF RestartDevice, Goto, EntryInv, Named, TypeOK, Entry
    <2>2. CASE ActivateDevice(t, d) \/ SuspendDevice(t, d) \/ ToggleRead(t, d)
               \/ TerminateDevice(t, d)
      BY <1>1, <2>2 DEF ActivateDevice, SuspendDevice, ToggleRead,
                        TerminateDevice
    <2>3. CASE TermRun(t, d) \/ TermErr(t, d) \/ TermAlarm(t, d)
               \/ TermRestore(t, d)
      BY <1>1, <2>3 DEF TermRun, TermErr, TermAlarm, TermRestore
    <2>4. CASE CoeDevice(t, d) \/ SoeDevice(t, d) \/ ToggleWrite(t, d)
      <3>1. HE'[e].PID = HE[e].PID
        BY <1>0, <2>4 DEF CoeDevice, SoeDevice, ToggleWrite, Entry
      <3> QED
        BY <1>1, <3>1, <2>4 DEF CoeDevice, SoeDevice, ToggleWrite
    <2>5. CASE TermMark(t, d) \/ TermKill(t, d)
      <3>1. HE'[e].PID = HE[e].PID
        BY <1>0, <2>5, SMTT(30) DEF TermMark, TermKill, Entry
      <3> QED
        BY <1>1, <3>1, <2>5 DEF TermMark, TermKill
    <2> QED
      BY <1>7, <2>1, <2>2, <2>3, <2>4, <2>5 DEF ListStep
  <1> QED
    BY <1>2, <1>3, <1>4, <1>5, <1>6, <1>7
    DEF Command, Working, HaltStep, UnloadStep

(* The PID of an entry is the PID of a child of htxd that is not yet reaped *)
(* and was forked for that device, so kill(HE[d].PID) never reaches another *)
(* process (htxd_load_exerciser, htxd_reset_exer_pid).                      *)
THEOREM EntryConsistent == Spec => []EntryNamesItsProcess
  <1>1. Init => EntryInv
    <2> SUFFICES ASSUME Init PROVE EntryInv
      OBVIOUS
    <2>1. TypeOK
      BY InitType DEF TypeInv
    <2>2. /\ \A p \in Procs : IF \E d \in Devices : HE[d].PID = p
                              THEN dev[p] \in Devices /\ HE[dev[p]].PID = p
                              ELSE dev[p] = NoDev
          /\ pc = [p \in Procs |-> IF dev[p] = NoDev THEN "unused" ELSE "forked"]
      BY Zenon DEF Init
    <2>3. \A d, e \in Devices : HE[d].PID = HE[e].PID => d = e
      BY DEF Init
    <2>4. \A d \in Devices : HE[d].PID \in Procs \cup {NoProc}
      BY <2>1 DEF TypeOK, Entry
    <2> QED
      BY <2>1, <2>2, <2>3, <2>4, ConstantsAssumption DEF EntryInv, Named
  <1>2. EntryInv /\ TypeOK' /\ [Next]_vars => EntryInv'
    <2> SUFFICES ASSUME EntryInv, TypeOK', [Next]_vars, NEW e \in Devices
                 PROVE  Named(e)'
      BY DEF EntryInv
    <2>1. ASSUME NEW d \in Devices, Expire(d) \/ WatchSignal(d)
          PROVE  Named(e)'
      BY <2>1 DEF Expire, WatchSignal, EntryInv, Named, TypeOK, Entry, procs
    <2>2. CASE UNCHANGED vars
      BY <2>2 DEF vars, procs, EntryInv, Named
    <2> QED
      BY <2>1, <2>2, ExerciserEntry, CommandEntry DEF Next, StopWatch
  <1>3. EntryInv => EntryNamesItsProcess
    BY DEF EntryInv, Named, EntryNamesItsProcess
  <1> QED
    BY <1>1, <1>2, <1>3, TypeCorrect, PTL DEF Spec

-----------------------------------------------------------------------------
(***************************************************************************)
(* Sessions that restart no device: every device then has one process from *)
(* the activation of the MDT to its end.                                   *)
(***************************************************************************)

(***************************************************************************)
(* The process of a device is the only one, and the entry names it until   *)
(* it is reaped.                                                           *)
(***************************************************************************)
OnlyChild(p) ==
    /\ pc[p] = "unused" <=> dev[p] = NoDev
    /\ pc[p] \notin {"unused", "reaped"} => HE[dev[p]].PID = p
    /\ \A q \in Procs : dev[p] = dev[q] /\ dev[p] # NoDev => p = q

(* A shutdown that is done has seen every PID cleared.                      *)
Unloaded(t) == th[t].pc = "done" => \A d \in Devices : HE[d].PID = NoProc

ChildInv == TypeOK /\ (\A p \in Procs : OnlyChild(p)) /\ \A t \in Threads : Unloaded(t)

(***************************************************************************)
(* A thread that terminates a device marks the entry before it signals the *)
(* process, and takes the mark back only when the process has been reaped. *)
(***************************************************************************)
Terminating == {"termRun", "termErr", "termMark", "termKill", "termAlarm"}

Marking(t) ==
    th[t].pc \in Terminating =>
      /\ th[t].HE_pid \in Procs /\ th[t].cur \in Devices /\ dev[th[t].HE_pid] = th[t].cur
      /\ th[t].pc = "termKill" /\ pc[th[t].HE_pid] # "reaped" => HE[th[t].cur].user_term

MarkedEntry(p) ==
    /\ pc[p] # "reaped" => report[p] = "none"
    /\ "terminate" \in sig[p] =>
         /\ report[p] # "hard error"
         /\ pc[p] # "reaped" => dev[p] # NoDev /\ HE[dev[p]].user_term

MarkInv == ChildInv /\ (\A t \in Threads : Marking(t)) /\ \A p \in Procs : MarkedEntry(p)

(***************************************************************************)
(* The acknowledgement and the error semaphore of a device stand for a     *)
(* process that is held or has ended; a halt that has counted a device has *)
(* found its process so.                                                   *)
(***************************************************************************)
Quiet(p) == pc[p] = "test" => haltPasses[p] = 1

Stands(p) ==
    dev[p] # NoDev =>
      /\ ack[dev[p]] = 1 => pc[p] \in {"inAct", "clearAck", "exited", "reaped"}
      /\ ~shutdown /\ err[dev[p]] = 1 => pc[p] \in {"inErr", "exited", "reaped"}

Counted(t) ==
    /\ th[t].pc \in Terminating \cup {"termRestore"} => th[t].saved = 0
    /\ th[t].reply = "stopped" => th[t].pc \in {"halted", "idle"}
    /\ sem0 = 1 /\ ~shutdown =>
         /\ th[t].reply = "stopped" => \A p \in Procs : Quiet(p)
         /\ th[t].pc = "count" =>
              \A p \in Procs : dev[p] \in th[t].snap \cup (Devices \ th[t].todo) => Quiet(p)

ReportInv ==
    /\ ChildInv /\ HaltInv
    /\ \A d \in Devices : run[d] = 0
    /\ \A p \in Procs : Stands(p)
    /\ \A t \in Threads : Counted(t)

-----------------------------------------------------------------------------
(* What a step of an exerciser does to the table of the exercisers.         *)
ProcessStep(p) ==
    /\ UNCHANGED <<dev, sig, th>>
    /\ pc[p] \notin {"unused", "reaped"} /\ pc'[p] # "unused"
    /\ \A q \in Procs : q # p => pc'[q] = pc[q] /\ report'[q] = report[q]
    /\ \A d \in Devices : HE'[d].user_term = HE[d].user_term
    /\ \/ /\ pc'[p] # "reaped" /\ report' = report
          /\ \A d \in Devices : HE'[d].PID = HE[d].PID
       \/ /\ pc[p] = "exited" /\ pc'[p] = "reaped"
          /\ report'[p] \in {report[p], EndReport(dev[p])}
          /\ \A d \in Devices : HE'[d].PID = IF HE[d].PID = p /\ d = dev[p] THEN NoProc ELSE HE[d].PID

(* Every step of an exerciser has this effect.                              *)
LEMMA ExerciserStep ==
    ASSUME TypeOK, NEW p \in Procs, Exerciser(p) PROVE ProcessStep(p)
  <1> USE DEF Goto, Await
  <1>1. pc \in [Procs -> ProcPC] /\ HE \in [Devices -> Entry] /\ report \in [Procs -> Reports]
    BY Zenon DEF TypeOK
  <1>2. ASSUME UNCHANGED <<dev, sig, th, HE, report>>, pc[p] \notin {"unused", "reaped"},
               NEW w, w \notin {"unused", "reaped"}, pc' = [pc EXCEPT ![p] = w]
        PROVE  ProcessStep(p)
    <2>1. pc'[p] = w /\ \A q \in Procs : q # p => pc'[q] = pc[q]
      BY ONLY <1>1, <1>2
    <2> QED BY <1>2, <2>1, Zenon DEF ProcessStep
  <1>3. CASE Update(p) \/ LeaveCycles(p)
    <2>1. PICK w \in {"inRun", "readGlobal"} : pc' = [pc EXCEPT ![p] = w]
      BY <1>3, Zenon DEF Update, LeaveCycles
    <2>2. UNCHANGED <<dev, sig, th, HE, report>> /\ pc[p] \in {"test", "cycles"}
      BY <1>3, Zenon DEF Update, LeaveCycles, daemon
    <2>3. w \notin {"unused", "reaped"} /\ pc[p] \notin {"unused", "reaped"}
      BY <2>1, <2>2
    <2> QED BY <1>2, <2>1, <2>2, <2>3, Zenon
  <1>4. CASE FinishLastCycle(p) \/ Error(p)
    <2>1. PICK w \in {"cycles", "setErr"} : pc' = [pc EXCEPT ![p] = w]
      BY <1>4, Zenon DEF FinishLastCycle, Error
    <2>2. UNCHANGED <<dev, sig, th, HE, report>> /\ pc[p] = "test"
      BY <1>4, Zenon DEF FinishLastCycle, Error, daemon
    <2>3. w \notin {"unused", "reaped"} /\ pc[p] \notin {"unused", "reaped"}
      BY <2>1, <2>2
    <2> QED BY <1>2, <2>1, <2>2, <2>3, Zenon
  <1>5. CASE PassRun(p) \/ SetAck(p) \/ PassAct(p)
    <2>1. PICK w \in {"readGlobal", "inAct", "clearAck"} : pc' = [pc EXCEPT ![p] = w]
      BY <1>5, Zenon DEF PassRun, SetAck, PassAct
    <2>2. UNCHANGED <<dev, sig, th, HE, report>> /\ pc[p] \in {"inRun", "setAck", "inAct"}
      BY <1>5, Zenon DEF PassRun, SetAck, PassAct, daemon
    <2>3. w \notin {"unused", "reaped"} /\ pc[p] \notin {"unused", "reaped"}
      BY <2>1, <2>2
    <2> QED BY <1>2, <2>1, <2>2, <2>3, Zenon
  <1>6. CASE SetErr(p) \/ PassErr(p) \/ ClearAck(p)
    <2>1. PICK w \in {"test", "inErr"} : pc' = [pc EXCEPT ![p] = w]
      BY <1>6, Zenon DEF SetErr, PassErr, ClearAck, Return
    <2>2. UNCHANGED <<dev, sig, th, HE, report>> /\ pc[p] \in {"setErr", "inErr", "clearAck"}
      BY <1>6, Zenon DEF SetErr, PassErr, ClearAck, daemon
    <2>3. w \notin {"unused", "reaped"} /\ pc[p] \notin {"unused", "reaped"}
      BY <2>1, <2>2
    <2> QED BY <1>2, <2>1, <2>2, <2>3, Zenon
  <1>7. CASE ReadGlobal(p) \/ Interrupt(p)
    <2>1. PICK w \in {"test", "setAck", "readGlobal", "clearAck"} : pc' = [pc EXCEPT ![p] = w]
      BY <1>7, Zenon DEF ReadGlobal, Interrupt, Return
    <2>2. UNCHANGED <<dev, sig, th, HE, report>> /\ pc[p] \in {"readGlobal", "inRun", "inAct", "inErr"}
      BY <1>7, Zenon DEF ReadGlobal, Interrupt, daemon
    <2>3. w \notin {"unused", "reaped"} /\ pc[p] \notin {"unused", "reaped"}
      BY <2>1, <2>2
    <2> QED BY <1>2, <2>1, <2>2, <2>3, Zenon
  <1>8. CASE Exit(p)
    <2>1. pc' = [pc EXCEPT ![p] = "exited"] /\ UNCHANGED <<dev, sig, th, HE, report>>
      BY <1>8, Zenon DEF Exit, daemon
    <2>2. pc[p] \notin {"unused", "reaped"} /\ "exited" \notin {"unused", "reaped"}
      BY <1>8 DEF Exit, Live
    <2> QED BY <1>2, <2>1, <2>2, Zenon
  <1>9. CASE Start(p) \/ Reconfig(p)
    <2>1. PICK w \in {"inRun", "readGlobal", "exited"} : pc' = [pc EXCEPT ![p] = w]
      BY <1>9, Zenon DEF Start, Reconfig
    <2>2. UNCHANGED <<dev, sig, th, report>> /\ pc[p] \in {"forked", "test"}
      BY <1>9, Zenon DEF Start, Reconfig, daemon
    <2>3. /\ pc'[p] \notin {"unused", "reaped"} /\ pc[p] \notin {"unused", "reaped"}
          /\ \A q \in Procs : q # p => pc'[q] = pc[q]
      BY ONLY <1>1, <2>1, <2>2
    <2>4. \A d \in Devices : HE'[d].PID = HE[d].PID /\ HE'[d].user_term = HE[d].user_term
      BY ONLY <1>1, <1>9 DEF Start, Reconfig, Entry
    <2> QED BY <2>2, <2>3, <2>4, Zenon DEF ProcessStep
  <1>10. CASE Reap(p)
    <2>1. /\ pc' = [pc EXCEPT ![p] = "reaped"] /\ pc[p] = "exited" /\ UNCHANGED <<dev, sig, th>>
          /\ IF HE[dev[p]].PID = p
             THEN /\ HE' = [HE EXCEPT ![dev[p]].PID = NoProc]
                  /\ report' = [report EXCEPT ![p] = EndReport(dev[p])]
             ELSE UNCHANGED <<HE, report>>
      BY <1>10, Zenon DEF Reap
    <2>2. /\ pc'[p] = "reaped" /\ pc'[p] # "unused" /\ pc[p] \notin {"unused", "reaped"}
          /\ \A q \in Procs : q # p => pc'[q] = pc[q]
      BY ONLY <1>1, <2>1
    <2>3. \A d \in Devices : /\ HE'[d].user_term = HE[d].user_term
                             /\ HE'[d].PID = IF HE[d].PID = p /\ d = dev[p] THEN NoProc ELSE HE[d].PID
      BY ONLY <1>1, <2>1 DEF Entry
    <2>4. /\ \A q \in Procs : q # p => report'[q] = report[q]
          /\ report'[p] \in {report[p], EndReport(dev[p])}
      BY ONLY <1>1, <2>1
    <2> QED BY <2>1, <2>2, <2>3, <2>4, Zenon DEF ProcessStep
  <1> QED
    BY <1>3, <1>4, <1>5, <1>6, <1>7, <1>8, <1>9, <1>10, Zenon DEF Exerciser, InCall

(* What a step of a command does to the table and to its thread.            *)
CommandStep(t) ==
    /\ UNCHANGED <<pc, dev, report>>
    /\ \A u \in Threads : u # t => th'[u] = th[u]
    /\ \A d \in Devices : HE'[d].PID = HE[d].PID
    /\ th'[t].pc = "done" => \A d \in Devices : HE[d].PID = NoProc
    /\ th'[t].pc \in Terminating =>
         \/ th[t].pc \in Terminating /\ th'[t].HE_pid = th[t].HE_pid /\ th'[t].cur = th[t].cur
         \/ /\ th'[t].pc = "termRun" /\ th'[t].cur \in Devices
            /\ th'[t].HE_pid = HE[th'[t].cur].PID /\ th'[t].HE_pid # NoProc
    /\ th'[t].pc = "termKill" => HE'[th'[t].cur].user_term
    /\ \A d \in Devices : HE[d].user_term =>
         HE'[d].user_term \/ (th[t].pc = "termKill" /\ d = th[t].cur /\ pc[th[t].HE_pid] = "reaped")
    /\ \A q \in Procs : "terminate" \in sig'[q] =>
         "terminate" \in sig[q] \/ (th[t].pc = "termKill" /\ q = th[t].HE_pid /\ pc[q] # "reaped" /\ HE' = HE)

(* A step that moves a thread to w and leaves its other local variables.    *)
LEMMA ThreadMoves ==
    ASSUME th \in [Threads -> Thread], NEW t \in Threads, NEW w, th' = [th EXCEPT ![t].pc = w]
    PROVE  /\ th'[t].pc = w /\ th'[t].cur = th[t].cur /\ th'[t].HE_pid = th[t].HE_pid
           /\ th'[t].saved = th[t].saved /\ th'[t].reply = th[t].reply
           /\ th'[t].snap = th[t].snap /\ th'[t].todo = th[t].todo
           /\ \A u \in Threads : u # t => th'[u] = th[u]
  BY DEF Thread

(* A thread ends its visit of a device.                                     *)
LEMMA VisitEnds ==
    ASSUME th \in [Threads -> Thread], NEW t \in Threads, NEW d, NextDevice(t, d)
    PROVE  /\ th'[t].pc \in {"idle", "each"} /\ th'[t].reply = "none"
           /\ \A u \in Threads : u # t => th'[u] = th[u]
  <1> DEFINE more == [IdleThread EXCEPT !.pc = "each", !.cmd = th[t].cmd, !.todo = th[t].todo \ {d}]
  <1>1. PICK new \in {IdleThread, more} : th' = [th EXCEPT ![t] = new]
    BY Zenon DEF NextDevice
  <1>2. IdleThread.pc = "idle" /\ IdleThread.reply = "none" /\ more.pc = "each" /\ more.reply = "none"
    BY DEF IdleThread
  <1> HIDE DEF more
  <1>3. th'[t] = new /\ \A u \in Threads : u # t => th'[u] = th[u]
    BY <1>1
  <1> QED BY <1>1, <1>2, <1>3, Zenon

(* A thread whose record is replaced.                                       *)
LEMMA ThreadReplaced ==
    ASSUME th \in [Threads -> Thread], NEW t \in Threads, NEW new, th' = [th EXCEPT ![t] = new]
    PROVE  th'[t] = new /\ \A u \in Threads : u # t => th'[u] = th[u]
  OBVIOUS

(* The semaphores are read into the local array.                            *)
LEMMA PollThread ==
    ASSUME th \in [Threads -> Thread], NEW t \in Threads, Poll(t)
    PROVE  /\ th'[t].pc = "count" /\ th'[t].reply = th[t].reply /\ th'[t].todo = Devices
           /\ th'[t].snap = {d \in Devices : ack[d] = 1 \/ err[d] = 1 \/ run[d] = 1}
           /\ \A u \in Threads : u # t => th'[u] = th[u]
  <1> DEFINE snap == {d \in Devices : ack[d] = 1 \/ err[d] = 1 \/ run[d] = 1}
             new == [th[t] EXCEPT !.snap = snap, !.todo = Devices, !.pc = "count"]
  <1>1. th' = [th EXCEPT ![t] = new]
    BY Zenon DEF Poll
  <1> HIDE DEF snap
  <1>2. new.pc = "count" /\ new.reply = th[t].reply /\ new.todo = Devices /\ new.snap = snap
    BY DEF Thread
  <1> HIDE DEF new
  <1> QED BY <1>1, <1>2, ThreadReplaced, Zenon DEF snap

(* A device is counted, or found to be running.                             *)
LEMMA CountThread ==
    ASSUME th \in [Threads -> Thread], NEW t \in Threads, NEW d
    PROVE  /\ CountStopped(t, d) =>
                /\ th'[t].pc = IF th[t].todo = {d} THEN "halted" ELSE th[t].pc
                /\ th'[t].reply = IF th[t].todo = {d} THEN "stopped" ELSE th[t].reply
                /\ th'[t].todo = th[t].todo \ {d} /\ th'[t].snap = th[t].snap
                /\ \A u \in Threads : u # t => th'[u] = th[u]
           /\ CountRunning(t, d) =>
                /\ th'[t].pc \in {"poll", "halted"} /\ th'[t].reply \in {th[t].reply, "warning"}
                /\ \A u \in Threads : u # t => th'[u] = th[u]
  <1> DEFINE place == IF th[t].todo = {d} THEN "halted" ELSE th[t].pc
             answer == IF th[t].todo = {d} THEN "stopped" ELSE th[t].reply
             rest == th[t].todo \ {d}
             stopped == [th[t] EXCEPT !.todo = rest, !.pc = place, !.reply = answer]
  <1>1. ASSUME CountStopped(t, d) PROVE th' = [th EXCEPT ![t] = stopped]
    BY <1>1, Zenon DEF CountStopped
  <1>2. stopped.pc = place /\ stopped.reply = answer /\ stopped.todo = rest /\ stopped.snap = th[t].snap
    <2> HIDE DEF place, answer, rest
    <2> QED BY DEF Thread
  <1> DEFINE n == th[t].polls + 1
             then == IF n < MaxPolls THEN "poll" ELSE "halted"
             say == IF n < MaxPolls THEN th[t].reply ELSE "warning"
             running == [th[t] EXCEPT !.polls = n, !.pc = then, !.reply = say]
  <1>3. ASSUME CountRunning(t, d) PROVE th' = [th EXCEPT ![t] = running]
    BY <1>3, Zenon DEF CountRunning
  <1>4. running.pc = then /\ running.reply = say
    <2> HIDE DEF n, then, say
    <2> QED BY DEF Thread
  <1>5. then \in {"poll", "halted"} /\ say \in {th[t].reply, "warning"}
    BY Zenon
  <1> HIDE DEF stopped, running, then, say
  <1> QED BY <1>1, <1>2, <1>3, <1>4, <1>5, ThreadReplaced, Zenon

(* The unload has released the semaphores, or signalled a device.           *)
LEMMA UnloadThread ==
    ASSUME th \in [Threads -> Thread], NEW t \in Threads, NEW d, UnloadRelease(t) \/ UnloadKill(t, d)
    PROVE  /\ th'[t].pc \in {"unloadKill", "unloadWait"} /\ th'[t].reply = th[t].reply
           /\ \A u \in Threads : u # t => th'[u] = th[u]
  <1>1. CASE UnloadRelease(t)
    <2> DEFINE new == [th[t] EXCEPT !.todo = Devices, !.pc = "unloadKill"]
    <2>1. th' = [th EXCEPT ![t] = new]
      BY <1>1, Zenon DEF UnloadRelease
    <2>2. new.pc = "unloadKill" /\ new.reply = th[t].reply
      BY DEF Thread
    <2> HIDE DEF new
    <2> QED BY <2>1, <2>2, ThreadReplaced, Zenon
  <1>2. CASE UnloadKill(t, d)
    <2> DEFINE place == IF th[t].todo = {d} THEN "unloadWait" ELSE th[t].pc
               rest == th[t].todo \ {d}
               new == [th[t] EXCEPT !.todo = rest, !.pc = place]
    <2>1. th' = [th EXCEPT ![t] = new] /\ th[t].pc = "unloadKill"
      BY <1>2, Zenon DEF UnloadKill
    <2>2. new.pc = place /\ new.reply = th[t].reply
      <3> HIDE DEF place, rest
      <3> QED BY DEF Thread
    <2> HIDE DEF new
    <2> QED BY <2>1, <2>2, ThreadReplaced, Zenon
  <1> QED BY <1>1, <1>2

(* Without a restart every step of a command has this effect.               *)
LEMMA CommandEffect ==
    ASSUME TypeOK, "restart" \notin Cmds, NEW t \in Threads, Command(t) PROVE CommandStep(t)
  <1> USE DEF procs, daemon
  <1>1. /\ HE \in [Devices -> Entry] /\ th \in [Threads -> Thread] /\ sig \in [Procs -> SUBSET Senders]
        /\ th[t].cmd \in Cmds \cup {"none"}
    <2>1. HE \in [Devices -> Entry] /\ th \in [Threads -> Thread] /\ sig \in [Procs -> SUBSET Senders]
      BY Zenon DEF TypeOK
    <2> QED BY <2>1 DEF Thread
  <1>2. ASSUME UNCHANGED <<pc, dev, report, HE, sig>>, th'[t].pc \notin Terminating \cup {"done"},
               \A u \in Threads : u # t => th'[u] = th[u]
        PROVE  CommandStep(t)
    <2>1. th'[t].pc # "termKill" /\ th'[t].pc # "done" /\ th'[t].pc \notin Terminating
      BY <1>2 DEF Terminating
    <2> QED BY <1>2, <2>1, Zenon DEF CommandStep
  <1>3. ASSUME NEW w, w \notin Terminating \cup {"done"}, th' = [th EXCEPT ![t].pc = w],
               UNCHANGED <<pc, dev, report, HE, sig>>
        PROVE  CommandStep(t)
    <2>1. th'[t].pc = w /\ \A u \in Threads : u # t => th'[u] = th[u]
      BY <1>1, <1>3, ThreadMoves, Zenon
    <2> QED BY <1>2, <1>3, <2>1, Zenon
  <1>4. ASSUME NEW new, new.pc \notin Terminating \cup {"done"}, th' = [th EXCEPT ![t] = new],
               UNCHANGED <<pc, dev, report, HE, sig>>
        PROVE  CommandStep(t)
    <2>1. th'[t] = new /\ \A u \in Threads : u # t => th'[u] = th[u]
      BY ONLY <1>1, <1>4
    <2> QED BY <1>2, <1>4, <2>1, Zenon
  <1>5. CASE BeginHalt(t)
    <2> DEFINE new == [IdleThread EXCEPT !.pc = IF sem0 = 0 THEN "setGlobal" ELSE "setActive",
                                         !.cmd = "test_activate_halt"]
    <2>1. th' = [th EXCEPT ![t] = new] /\ UNCHANGED <<pc, dev, report, HE, sig>>
      BY <1>5, Zenon DEF BeginHalt
    <2>2. new.pc \notin Terminating \cup {"done"}
      BY DEF IdleThread, Terminating
    <2> QED BY <1>4, <2>1, <2>2, Zenon
  <1>6. CASE BeginShutdown(t)
    <2> DEFINE new == [IdleThread EXCEPT !.pc = "unloadFlag", !.cmd = "shutdown"]
    <2>1. th' = [th EXCEPT ![t] = new] /\ UNCHANGED <<pc, dev, report, HE, sig>>
      BY <1>6, Zenon DEF BeginShutdown
    <2>2. new.pc \notin Terminating \cup {"done"}
      BY DEF IdleThread, Terminating
    <2> QED BY <1>4, <2>1, <2>2, Zenon
  <1>7. ASSUME NEW c, NEW S, BeginList(t, c, S) PROVE CommandStep(t)
    <2> DEFINE new == [IdleThread EXCEPT !.pc = "each", !.cmd = c, !.todo = S]
    <2>1. th' = [th EXCEPT ![t] = new] /\ UNCHANGED <<pc, dev, report, HE, sig>>
      BY <1>7, Zenon DEF BeginList
    <2>2. new.pc \notin Terminating \cup {"done"}
      BY DEF IdleThread, Terminating
    <2> QED BY <1>4, <2>1, <2>2, Zenon
  <1>8. CASE Halted(t)
    <2> DEFINE new == [IdleThread EXCEPT !.reply = th[t].reply]
    <2>1. th' = [th EXCEPT ![t] = new] /\ UNCHANGED <<pc, dev, report, HE, sig>>
      BY <1>8, Zenon DEF Halted
    <2>2. new.pc \notin Terminating \cup {"done"}
      BY DEF IdleThread, Terminating
    <2> QED BY <1>4, <2>1, <2>2, Zenon
  <1>9. CASE Activated(t)
    <2> DEFINE new == [IdleThread EXCEPT !.reply = "activated"]
    <2>1. th' = [th EXCEPT ![t] = new] /\ UNCHANGED <<pc, dev, report, HE, sig>>
      BY <1>9, Zenon DEF Activated
    <2>2. new.pc \notin Terminating \cup {"done"}
      BY DEF IdleThread, Terminating
    <2> QED BY <1>4, <2>1, <2>2, Zenon
  <1>10. CASE SetGlobal(t) \/ SetActive(t) \/ UnloadFlag(t)
    <2>1. PICK w \in {"poll", "activated", "unloadRelease"} : th' = [th EXCEPT ![t].pc = w]
      BY <1>10, Zenon DEF SetGlobal, SetActive, UnloadFlag
    <2>2. w \notin Terminating \cup {"done"}
      BY <2>1 DEF Terminating
    <2>3. UNCHANGED <<pc, dev, report, HE, sig>>
      BY <1>10, Zenon DEF SetGlobal, SetActive, UnloadFlag
    <2> QED BY <1>3, <2>1, <2>2, <2>3, Zenon
  <1>11. CASE Poll(t) \/ UnloadRelease(t)
    <2>1. th'[t].pc \in {"count", "unloadKill", "unloadWait"} /\ \A u \in Threads : u # t => th'[u] = th[u]
      BY <1>1, <1>11, PollThread, UnloadThread, Zenon
    <2>2. th'[t].pc \notin Terminating \cup {"done"}
      BY <2>1 DEF Terminating
    <2>3. UNCHANGED <<pc, dev, report, HE, sig>>
      BY <1>11, Zenon DEF Poll, UnloadRelease
    <2> QED BY <1>2, <2>1, <2>2, <2>3, Zenon
  <1>12. ASSUME NEW d \in Devices, CountStopped(t, d) \/ CountRunning(t, d) PROVE CommandStep(t)
    <2>1. th'[t].pc \in {"count", "poll", "halted"} /\ \A u \in Threads : u # t => th'[u] = th[u]
      <3>1. CASE CountRunning(t, d)
        BY <1>1, <3>1, CountThread, Zenon
      <3>2. CASE CountStopped(t, d)
        <4>1. th[t].pc = "count"
          BY <3>2, Zenon DEF CountStopped
        <4> QED BY <1>1, <3>2, <4>1, CountThread, Zenon
      <3> QED BY <1>12, <3>1, <3>2
    <2>2. th'[t].pc \notin Terminating \cup {"done"}
      BY <2>1 DEF Terminating
    <2>3. UNCHANGED <<pc, dev, report, HE, sig>>
      BY <1>12, Zenon DEF CountStopped, CountRunning
    <2> QED BY <1>2, <2>1, <2>2, <2>3, Zenon
  <1>13. CASE UnloadWait(t)
    <2>1. th' = [th EXCEPT ![t].pc = "done"] /\ UNCHANGED <<pc, dev, report, HE, sig>>
          /\ \A d \in Devices : HE[d].PID = NoProc
      BY <1>13, Zenon DEF UnloadWait
    <2>2. th'[t].pc = "done" /\ \A u \in Threads : u # t => th'[u] = th[u]
      BY <1>1, <2>1, ThreadMoves, Zenon
    <2>3. th'[t].pc \notin Terminating /\ th'[t].pc # "termKill"
      BY <2>2 DEF Terminating
    <2> QED BY <2>1, <2>2, <2>3, Zenon DEF CommandStep
  <1>14. ASSUME NEW d \in Devices, UnloadKill(t, d) PROVE CommandStep(t)
    <2>1. th'[t].pc \in {"unloadKill", "unloadWait"} /\ \A u \in Threads : u # t => th'[u] = th[u]
      BY <1>1, <1>14, UnloadThread, Zenon
    <2>2. th'[t].pc \notin Terminating /\ th'[t].pc # "termKill" /\ th'[t].pc # "done"
      BY <2>1 DEF Terminating
    <2>3. UNCHANGED <<pc, dev, report, HE>>
      BY <1>14, Zenon DEF UnloadKill
    <2>4. \A q \in Procs : "terminate" \in sig'[q] => "terminate" \in sig[q]
      BY ONLY <1>1, <1>14 DEF UnloadKill, Signalled
    <2> QED BY <2>1, <2>2, <2>3, <2>4, Zenon DEF CommandStep
  <1>15. ASSUME NEW d \in Devices, ListStep(t, d) PROVE CommandStep(t)
    <2>1. ~RestartDevice(t, d)
      BY <1>1, ConstantsAssumption DEF RestartDevice, Visits
    <2>2. ASSUME NextDevice(t, d) PROVE th'[t].pc \notin Terminating \cup {"done"} /\ \A u \in Threads : u # t => th'[u] = th[u]
      <3>1. th'[t].pc \in {"idle", "each"} /\ \A u \in Threads : u # t => th'[u] = th[u]
        BY <1>1, <2>2, VisitEnds, Zenon
      <3> QED BY <3>1 DEF Terminating
    <2>3. CASE ActivateDevice(t, d) \/ SuspendDevice(t, d) \/ TermRestore(t, d)
      BY <1>2, <2>2, <2>3, Zenon DEF ActivateDevice, SuspendDevice, TermRestore
    <2>4. CASE CoeDevice(t, d) \/ SoeDevice(t, d) \/ ToggleWrite(t, d)
      <3>1. \A e \in Devices : HE'[e].PID = HE[e].PID /\ HE'[e].user_term = HE[e].user_term
        BY ONLY <1>1, <2>4 DEF CoeDevice, SoeDevice, ToggleWrite, Entry
      <3>2. NextDevice(t, d) /\ UNCHANGED <<pc, dev, report, sig>>
        BY <2>4, Zenon DEF CoeDevice, SoeDevice, ToggleWrite
      <3>3. th'[t].pc \notin Terminating /\ th'[t].pc # "done" /\ th'[t].pc # "termKill"
        BY <2>2, <3>2 DEF Terminating
      <3> QED BY <2>2, <3>1, <3>2, <3>3, Zenon DEF CommandStep
    <2>5. CASE ToggleRead(t, d)
      <3>1. th'[t].pc = "flip" /\ \A u \in Threads : u # t => th'[u] = th[u]
        BY ONLY <1>1, <2>5 DEF ToggleRead, Thread
      <3>2. th'[t].pc \notin Terminating \cup {"done"}
        BY <3>1 DEF Terminating
      <3> QED BY <1>2, <2>5, <3>1, <3>2, Zenon DEF ToggleRead
    <2>6. CASE TerminateDevice(t, d)
      <3>1. UNCHANGED <<pc, dev, report, HE, sig>>
        BY <2>6, Zenon DEF TerminateDevice
      <3>2. CASE NextDevice(t, d)
        BY <1>2, <2>2, <3>1, <3>2, Zenon
      <3>3. CASE ~NextDevice(t, d)
        <4>1. /\ HE[d].PID # NoProc
              /\ th' = [th EXCEPT ![t].cur = d, ![t].HE_pid = HE[d].PID, ![t].saved = run[d], ![t].pc = "termRun"]
          BY <2>6, <3>3, Zenon DEF TerminateDevice
        <4>2. /\ th'[t].pc = "termRun" /\ th'[t].cur = d /\ th'[t].HE_pid = HE[d].PID
              /\ \A u \in Threads : u # t => th'[u] = th[u]
          BY ONLY <1>1, <4>1 DEF Thread
        <4>3. th'[t].pc # "done" /\ th'[t].pc # "termKill"
          BY <4>2
        <4> QED BY <3>1, <4>1, <4>2, <4>3, Zenon DEF CommandStep
      <3> QED BY <3>2, <3>3
    <2>7. CASE TermRun(t, d) \/ TermErr(t, d)
      <3>1. PICK w \in {"termErr", "termMark"} : th' = [th EXCEPT ![t].pc = w]
        BY <2>7, Zenon DEF TermRun, TermErr
      <3>2. th[t].pc \in Terminating /\ w # "done" /\ w # "termKill"
        BY <2>7, <3>1 DEF TermRun, TermErr, Terminating
      <3>3. UNCHANGED <<pc, dev, report, HE, sig>>
        BY <2>7, Zenon DEF TermRun, TermErr
      <3>4. /\ th'[t].pc = w /\ th'[t].cur = th[t].cur /\ th'[t].HE_pid = th[t].HE_pid
            /\ \A u \in Threads : u # t => th'[u] = th[u]
        BY <1>1, <3>1, ThreadMoves, Zenon
      <3> QED BY <3>2, <3>3, <3>4, Zenon DEF CommandStep
    <2>8. CASE TermMark(t, d)
      <3>1. th' = [th EXCEPT ![t].pc = "termKill"] /\ UNCHANGED <<pc, dev, report, sig>> /\ th[t].cur = d
        BY <2>8, Zenon DEF TermMark
      <3>2. /\ th'[t].pc = "termKill" /\ th'[t].cur = th[t].cur /\ th'[t].HE_pid = th[t].HE_pid
            /\ \A u \in Threads : u # t => th'[u] = th[u]
        BY <1>1, <3>1, ThreadMoves, Zenon
      <3>3. /\ \A e \in Devices : HE'[e].PID = HE[e].PID /\ (HE[e].user_term => HE'[e].user_term)
            /\ HE'[d].user_term
        BY ONLY <1>1, <1>15, <2>8 DEF TermMark, Entry
      <3>4. th[t].pc \in Terminating /\ th'[t].pc # "done"
        BY <2>8, <3>2 DEF TermMark, Terminating
      <3> QED BY <3>1, <3>2, <3>3, <3>4, Zenon DEF CommandStep
    <2>9. CASE TermKill(t, d)
      <3>0. th[t].pc = "termKill" /\ th[t].cur = d /\ UNCHANGED <<pc, dev, report>>
        BY <2>9, Zenon DEF TermKill
      <3>1. CASE pc[th[t].HE_pid] = "reaped"
        <4>1. /\ HE' = [HE EXCEPT ![d].user_term = FALSE, ![d].DR_term = FALSE] /\ sig' = sig
              /\ th' = [th EXCEPT ![t].pc = "termRestore"]
          BY <2>9, <3>1, Zenon DEF TermKill
        <4>2. th'[t].pc = "termRestore" /\ \A u \in Threads : u # t => th'[u] = th[u]
          BY <1>1, <4>1, ThreadMoves, Zenon
        <4>3. th'[t].pc \notin Terminating /\ th'[t].pc # "done" /\ th'[t].pc # "termKill"
          BY <4>2 DEF Terminating
        <4>4. \A e \in Devices : HE'[e].PID = HE[e].PID /\ (e # d => HE'[e].user_term = HE[e].user_term)
          <5> DEFINE e == [HE[d] EXCEPT !.user_term = FALSE, !.DR_term = FALSE]
          <5>1. HE' = [HE EXCEPT ![d] = e]
            BY <4>1, Zenon
          <5>2. e.PID = HE[d].PID
            BY <1>1, <1>15 DEF Entry
          <5> HIDE DEF e
          <5> QED BY <1>1, <1>15, <5>1, <5>2
        <4> QED BY <3>0, <3>1, <4>1, <4>2, <4>3, <4>4, Zenon DEF CommandStep
      <3>2. CASE pc[th[t].HE_pid] # "reaped"
        <4>1. /\ HE' = HE /\ sig' = Signalled(th[t].HE_pid, "terminate")
              /\ th' = [th EXCEPT ![t].pc = "termAlarm"]
          BY <2>9, <3>2, Zenon DEF TermKill
        <4>2. /\ th'[t].pc = "termAlarm" /\ th'[t].cur = th[t].cur /\ th'[t].HE_pid = th[t].HE_pid
              /\ \A u \in Threads : u # t => th'[u] = th[u]
          BY <1>1, <4>1, ThreadMoves, Zenon
        <4>3. th[t].pc \in Terminating /\ th'[t].pc # "done" /\ th'[t].pc # "termKill"
          BY <3>0, <4>2 DEF Terminating
        <4>4. \A q \in Procs : "terminate" \in sig'[q] => "terminate" \in sig[q] \/ q = th[t].HE_pid
          BY ONLY <1>1, <4>1 DEF Signalled
        <4> QED BY <3>0, <3>2, <4>1, <4>2, <4>3, <4>4, Zenon DEF CommandStep
      <3> QED BY <3>1, <3>2
    <2>10. CASE TermAlarm(t, d)
      <3>1. th' = [th EXCEPT ![t].pc = "termRestore"] /\ UNCHANGED <<pc, dev, report, HE>>
        BY <2>10, Zenon DEF TermAlarm
      <3>2. th'[t].pc = "termRestore" /\ \A u \in Threads : u # t => th'[u] = th[u]
        BY <1>1, <3>1, ThreadMoves, Zenon
      <3>3. th'[t].pc \notin Terminating /\ th'[t].pc # "done" /\ th'[t].pc # "termKill"
        BY <3>2 DEF Terminating
      <3>4. \A q \in Procs : "terminate" \in sig'[q] => "terminate" \in sig[q]
        BY ONLY <1>1, <2>10 DEF TermAlarm, Signalled
      <3> QED BY <3>1, <3>2, <3>3, <3>4, Zenon DEF CommandStep
    <2> QED
      BY <1>15, <2>1, <2>3, <2>4, <2>5, <2>6, <2>7, <2>8, <2>9, <2>10, Zenon DEF ListStep
  <1> QED
    BY <1>5, <1>6, <1>7, <1>8, <1>9, <1>10, <1>11, <1>12, <1>13, <1>14, <1>15, Zenon
    DEF Command, Working, HaltStep, UnloadStep

(* Neither does the stop watch touch the PIDs, the marks or the threads.    *)
LEMMA StopWatchStep ==
    ASSUME TypeOK, StopWatch
    PROVE  /\ UNCHANGED <<pc, dev, report, th, sem0, shutdown, run, err, ack, haltPasses>>
           /\ \A d \in Devices : HE'[d].PID = HE[d].PID /\ HE'[d].user_term = HE[d].user_term
           /\ \A q \in Procs : "terminate" \in sig'[q] => "terminate" \in sig[q]
  <1> USE DEF procs, sems, history
  <1>1. PICK d \in Devices : Expire(d) \/ WatchSignal(d)
    BY Zenon DEF StopWatch
  <1>2. HE \in [Devices -> Entry] /\ sig \in [Procs -> SUBSET Senders]
    BY Zenon DEF TypeOK
  <1>3. UNCHANGED <<pc, dev, report, th, sem0, shutdown, run, err, ack, haltPasses>>
    BY <1>1, Zenon DEF Expire, WatchSignal
  <1>4. \A e \in Devices : HE'[e].PID = HE[e].PID /\ HE'[e].user_term = HE[e].user_term
    BY ONLY <1>1, <1>2 DEF Expire, WatchSignal, Entry
  <1>5. \A q \in Procs : "terminate" \in sig'[q] => "terminate" \in sig[q]
    BY ONLY <1>1, <1>2 DEF Expire, WatchSignal, Signalled
  <1> QED BY <1>3, <1>4, <1>5

(* What does not change.                                                    *)
LEMMA Stutter ==
    ASSUME UNCHANGED vars
    PROVE  UNCHANGED <<sem0, run, err, ack, shutdown, HE, pc, dev, sig, report, th, haltPasses>>
  BY Zenon DEF vars, sems, procs, daemon, history

(* A process of a device has a device.                                      *)
LEMMA ChildDevice ==
    ASSUME ChildInv, NEW p \in Procs, pc[p] # "unused" PROVE dev[p] \in Devices
  <1>1. dev[p] \in Devices \cup {NoDev}
    BY DEF ChildInv, TypeOK
  <1>2. dev[p] # NoDev
    BY Zenon DEF ChildInv, OnlyChild
  <1> QED BY <1>1, <1>2

(* At the activation of the MDT every device has one process.               *)
LEMMA InitChild == Init => MarkInv /\ ReportInv
  <1> SUFFICES ASSUME Init PROVE MarkInv /\ ReportInv
    OBVIOUS
  <1>1. TypeOK
    BY InitType DEF TypeInv
  <1>2. \A t \in Threads : th[t].pc = "idle" /\ th[t].reply = "none"
    BY DEF Init, IdleThread
  <1>3. /\ \A p \in Procs : IF \E d \in Devices : HE[d].PID = p
                            THEN dev[p] \in Devices /\ HE[dev[p]].PID = p
                            ELSE dev[p] = NoDev
        /\ pc = [p \in Procs |-> IF dev[p] = NoDev THEN "unused" ELSE "forked"]
    BY Zenon DEF Init
  <1>4. \A p \in Procs : pc[p] = IF dev[p] = NoDev THEN "unused" ELSE "forked"
    BY <1>3
  <1>5. \A p \in Procs : OnlyChild(p)
    <2> SUFFICES ASSUME NEW p \in Procs PROVE OnlyChild(p)
      OBVIOUS
    <2>1. pc[p] = "unused" <=> dev[p] = NoDev
      BY <1>4
    <2>2. \A q \in Procs : dev[q] # NoDev => HE[dev[q]].PID = q
      BY <1>3, Zenon
    <2> QED BY <2>1, <2>2, Zenon DEF OnlyChild
  <1>6. ChildInv
    <2>1. \A t \in Threads : th[t].pc # "done"
      BY <1>2
    <2> QED BY <1>1, <1>5, <2>1, Zenon DEF ChildInv, Unloaded
  <1>7. MarkInv
    <2>1. \A t \in Threads : th[t].pc \notin Terminating
      BY <1>2 DEF Terminating
    <2>2. \A p \in Procs : report[p] = "none" /\ sig[p] = {}
      BY DEF Init
    <2>3. \A p \in Procs : report[p] = "none" /\ "terminate" \notin sig[p]
      BY <2>2
    <2> QED BY <1>6, <2>1, <2>3, Zenon DEF MarkInv, Marking, MarkedEntry
  <1>8. ReportInv
    <2>1. sem0 = 0 /\ sem0 # 1 /\ \A d \in Devices : run[d] = 0 /\ err[d] # 1 /\ ack[d] # 1
      BY DEF Init
    <2>2. HaltInv
      BY <1>1, <2>1, Zenon DEF HaltInv, HeldByHalt
    <2>3. \A p \in Procs : dev[p] # NoDev => dev[p] \in Devices
      BY <1>1 DEF TypeOK
    <2>4. \A p \in Procs : Stands(p)
      BY <2>1, <2>3, Zenon DEF Stands
    <2>5. \A t \in Threads : Counted(t)
      <3>1. \A t \in Threads : th[t].pc \notin Terminating \cup {"termRestore"} /\ th[t].reply # "stopped"
        BY <1>2 DEF Terminating
      <3> QED BY <2>1, <3>1, Zenon DEF Counted
    <2> QED BY <1>6, <2>1, <2>2, <2>4, <2>5, Zenon DEF ReportInv
  <1> QED BY <1>7, <1>8

(* No step forks a process or renames an entry.                             *)
LEMMA NextChild ==
    ASSUME ChildInv, TypeOK', "restart" \notin Cmds, [Next]_vars PROVE ChildInv'
  <1>0. TypeOK /\ \A p \in Procs : OnlyChild(p)
    BY DEF ChildInv
  <1>1. CASE UNCHANGED <<pc, dev>> /\ \A d \in Devices : HE'[d].PID = HE[d].PID
    <2>1. ASSUME NEW q \in Procs PROVE OnlyChild(q)'
      <3>1. pc[q] # "unused" => dev[q] \in Devices
        BY ChildDevice
      <3> QED BY <1>0, <1>1, <3>1, Zenon DEF OnlyChild
    <2>2. ASSUME NEW u \in Threads PROVE Unloaded(u)'
      <3>1. Unloaded(u)
        BY DEF ChildInv
      <3>2. CASE UNCHANGED vars \/ StopWatch
        <4>1. th' = th
          BY <1>0, <3>2, Stutter, StopWatchStep, Zenon
        <4> QED BY <1>1, <3>1, <4>1, Zenon DEF Unloaded
      <3>3. ASSUME NEW t \in Threads, Command(t) PROVE Unloaded(u)'
        <4>1. CommandStep(t)
          BY <1>0, <3>3, CommandEffect, Zenon
        <4> QED BY <1>1, <3>1, <4>1, Zenon DEF CommandStep, Unloaded
      <3>4. ASSUME NEW p \in Procs, Exerciser(p) PROVE Unloaded(u)'
        <4>1. th' = th
          BY <1>0, <3>4, ExerciserStep, Zenon DEF ProcessStep
        <4> QED BY <1>1, <3>1, <4>1, Zenon DEF Unloaded
      <3> QED BY <3>2, <3>3, <3>4, Zenon DEF Next
    <2> QED BY <2>1, <2>2, Zenon DEF ChildInv
  <1>2. ASSUME NEW p \in Procs, Exerciser(p) PROVE ChildInv'
    <2>1. ProcessStep(p)
      BY <1>0, <1>2, ExerciserStep, Zenon
    <2>2. /\ dev' = dev /\ th' = th /\ pc[p] \notin {"unused", "reaped"} /\ pc'[p] # "unused"
          /\ \A q \in Procs : q # p => pc'[q] = pc[q]
      BY <2>1, Zenon DEF ProcessStep
    <2>3. HE[dev[p]].PID = p /\ dev[p] \in Devices /\ pc[p] # "unused" /\ pc[p] # "reaped"
      <3>1. pc[p] # "unused" /\ pc[p] # "reaped"
        BY <2>2
      <3> QED BY <1>0, <2>2, <3>1, ChildDevice, Zenon DEF OnlyChild
    <2>4. ASSUME NEW q \in Procs PROVE OnlyChild(q)'
      <3>1. pc'[q] = "unused" <=> dev'[q] = NoDev
        BY <1>0, <2>2, <2>3, Zenon DEF OnlyChild
      <3>2. ASSUME pc'[q] \notin {"unused", "reaped"} PROVE HE'[dev[q]].PID = q
        <4>1. pc[q] \notin {"unused", "reaped"} /\ pc[q] # "unused"
          BY <2>2, <3>2
        <4>2. HE[dev[q]].PID = q /\ dev[q] \in Devices
          BY <1>0, <4>1, ChildDevice, Zenon DEF OnlyChild
        <4>3. CASE q = p
          <5>1. pc'[p] # "reaped"
            BY <3>2, <4>3
          <5> QED BY <2>1, <4>2, <4>3, <5>1, Zenon DEF ProcessStep
        <4>4. CASE q # p
          BY <2>1, <4>2, <4>4, Zenon DEF ProcessStep
        <4> QED BY <4>3, <4>4
      <3> QED BY <1>0, <2>2, <3>1, <3>2, Zenon DEF OnlyChild
    <2>5. ASSUME NEW u \in Threads PROVE Unloaded(u)'
      <3>1. \A d \in Devices : HE[d].PID = NoProc => HE'[d].PID = NoProc
        BY <2>1, Zenon DEF ProcessStep
      <3> QED BY <2>2, <3>1, Zenon DEF ChildInv, Unloaded
    <2> QED BY <2>4, <2>5, Zenon DEF ChildInv
  <1>3. ASSUME NEW t \in Threads, Command(t) PROVE ChildInv'
    BY <1>0, <1>1, <1>3, CommandEffect, Zenon DEF CommandStep
  <1>4. CASE UNCHANGED vars \/ StopWatch
    <2>1. UNCHANGED <<pc, dev>> /\ \A d \in Devices : HE'[d].PID = HE[d].PID
      BY <1>0, <1>4, Stutter, StopWatchStep, Zenon
    <2> QED BY <1>1, <2>1, Zenon
  <1> QED BY <1>2, <1>3, <1>4, Zenon DEF Next

(* A shutdown that has waited for every PID to be 0 leaves no exerciser     *)
(* behind, when no device is restarted (htxd_unload_exercisers).            *)
THEOREM UnloadComplete ==
    ASSUME "restart" \notin Cmds PROVE Spec => []UnloadLeavesNone
  <1>1. Init => ChildInv
    BY InitChild DEF MarkInv
  <1>2. ChildInv /\ TypeOK' /\ [Next]_vars => ChildInv'
    BY NextChild
  <1>3. ChildInv => UnloadLeavesNone
    <2> SUFFICES ASSUME ChildInv, NEW t \in Threads, th[t].pc = "done", NEW p \in Procs, Live(p) PROVE FALSE
      BY Zenon DEF UnloadLeavesNone
    <2>1. pc[p] \notin {"unused", "reaped"} /\ pc[p] # "unused"
      BY DEF Live
    <2>2. HE[dev[p]].PID = p /\ dev[p] \in Devices
      BY <2>1, ChildDevice, Zenon DEF ChildInv, OnlyChild
    <2>3. HE[dev[p]].PID = NoProc
      BY <2>2, Zenon DEF ChildInv, Unloaded
    <2> QED BY <2>2, <2>3, ConstantsAssumption
  <1> QED BY <1>1, <1>2, <1>3, TypeCorrect, PTL DEF Spec

-----------------------------------------------------------------------------
(* An exerciser and its reaping: the end of a marked process is no error.   *)
LEMMA ExerciserMark ==
    ASSUME MarkInv, NEW p \in Procs, Exerciser(p)
    PROVE  (\A t \in Threads : Marking(t)') /\ \A q \in Procs : MarkedEntry(q)'
  <1>1. ChildInv /\ TypeOK /\ (\A t \in Threads : Marking(t)) /\ \A q \in Procs : MarkedEntry(q)
    BY Zenon DEF MarkInv, ChildInv
  <1>2. ProcessStep(p)
    BY <1>1, ExerciserStep, Zenon
  <1>3. /\ UNCHANGED <<dev, sig, th>> /\ pc[p] # "unused" /\ pc[p] # "reaped"
        /\ \A q \in Procs : q # p => pc'[q] = pc[q] /\ report'[q] = report[q]
        /\ \A d \in Devices : HE'[d].user_term = HE[d].user_term
    <2>1. pc[p] \notin {"unused", "reaped"}
      BY <1>2, Zenon DEF ProcessStep
    <2>2. pc[p] # "unused" /\ pc[p] # "reaped"
      BY <2>1
    <2> QED BY <1>2, <2>2, Zenon DEF ProcessStep
  <1>4. ASSUME NEW t \in Threads PROVE Marking(t)'
    <2>1. \A q \in Procs : pc'[q] # "reaped" => pc[q] # "reaped"
      BY <1>3, Zenon
    <2> QED BY <1>1, <1>3, <2>1, Zenon DEF Marking
  <1>5. ASSUME NEW q \in Procs PROVE MarkedEntry(q)'
    <2>1. dev[q] # NoDev => dev[q] \in Devices
      BY <1>1 DEF TypeOK
    <2>2. CASE q # p
      BY <1>1, <1>3, <2>1, <2>2, Zenon DEF MarkedEntry
    <2>3. CASE q = p /\ pc'[p] # "reaped"
      <3>1. report' = report
        BY <1>2, <2>3, Zenon DEF ProcessStep
      <3> QED BY <1>1, <1>3, <2>1, <2>3, <3>1, Zenon DEF MarkedEntry
    <2>4. CASE q = p /\ pc'[p] = "reaped"
      <3>1. report'[p] \in {report[p], EndReport(dev[p])}
        BY <1>2, <2>4, Zenon DEF ProcessStep
      <3>2. ASSUME "terminate" \in sig[p] PROVE report'[p] # "hard error"
        <4>1. report[p] # "hard error" /\ HE[dev[p]].user_term
          BY <1>1, <1>3, <3>2, Zenon DEF MarkedEntry
        <4>2. EndReport(dev[p]) # "hard error"
          BY <4>1, Zenon DEF EndReport
        <4> QED BY <3>1, <4>1, <4>2, Zenon
      <3> QED BY <1>3, <2>4, <3>2, Zenon DEF MarkedEntry
    <2> QED BY <2>2, <2>3, <2>4, Zenon
  <1> QED BY <1>4, <1>5

(* A command: it marks before it signals, and takes back no mark of a       *)
(* process that has been signalled and is still to be reaped.               *)
LEMMA CommandMark ==
    ASSUME MarkInv, EntryNamesItsProcess, "restart" \notin Cmds, NEW t \in Threads, Command(t)
    PROVE  (\A u \in Threads : Marking(u)') /\ \A q \in Procs : MarkedEntry(q)'
  <1>1. ChildInv /\ TypeOK /\ (\A u \in Threads : Marking(u)) /\ \A q \in Procs : MarkedEntry(q) /\ OnlyChild(q)
    BY Zenon DEF MarkInv, ChildInv
  <1>2. CommandStep(t)
    BY <1>1, CommandEffect, Zenon
  <1>3. UNCHANGED <<pc, dev, report>> /\ \A u \in Threads : u # t => th'[u] = th[u]
    BY <1>2, Zenon DEF CommandStep
  <1>4. "termKill" \in Terminating
    BY DEF Terminating
  <1>5. ASSUME NEW q \in Procs, pc[q] # "reaped", dev[q] \in Devices, HE[dev[q]].user_term
        PROVE  HE'[dev[q]].user_term
    <2>1. ASSUME th[t].pc = "termKill", dev[q] = th[t].cur, pc[th[t].HE_pid] = "reaped" PROVE FALSE
      <3>1. th[t].HE_pid \in Procs /\ dev[th[t].HE_pid] = dev[q]
        BY <1>1, <1>4, <2>1, Zenon DEF Marking
      <3>2. dev[q] # NoDev
        BY <1>5, ConstantsAssumption
      <3>3. th[t].HE_pid = q
        BY <1>1, <3>1, <3>2, Zenon DEF OnlyChild
      <3> QED BY <1>5, <2>1, <3>3, Zenon
    <2> QED BY <1>2, <1>5, <2>1, Zenon DEF CommandStep
  <1>6. ASSUME NEW u \in Threads PROVE Marking(u)'
    <2>1. CASE u # t
      <3>1. Marking(u) /\ th'[u] = th[u]
        BY <1>1, <1>3, <2>1, Zenon
      <3> QED BY <1>3, <1>4, <1>5, <3>1, Zenon DEF Marking
    <2>2. CASE u = t
      <3> SUFFICES ASSUME th'[t].pc \in Terminating
                   PROVE  /\ th'[t].HE_pid \in Procs /\ th'[t].cur \in Devices
                          /\ dev[th'[t].HE_pid] = th'[t].cur
        BY <1>2, <1>3, <2>2, Zenon DEF Marking, CommandStep
      <3>1. CASE th[t].pc \in Terminating /\ th'[t].HE_pid = th[t].HE_pid /\ th'[t].cur = th[t].cur
        BY <1>1, <3>1, Zenon DEF Marking
      <3>2. ASSUME th'[t].cur \in Devices, th'[t].HE_pid = HE[th'[t].cur].PID, th'[t].HE_pid # NoProc
            PROVE  th'[t].HE_pid \in Procs /\ dev[th'[t].HE_pid] = th'[t].cur
        <4>1. HE[th'[t].cur].PID \in Procs \cup {NoProc}
          BY <1>1, <3>2 DEF TypeOK, Entry
        <4>2. dev[HE[th'[t].cur].PID] = th'[t].cur
          BY <3>2, Zenon DEF EntryNamesItsProcess
        <4> QED BY <3>2, <4>1, <4>2
      <3> QED BY <1>2, <3>1, <3>2, Zenon DEF CommandStep
    <2> QED BY <2>1, <2>2
  <1>7. ASSUME NEW q \in Procs PROVE MarkedEntry(q)'
    <2>0. MarkedEntry(q) /\ (dev[q] # NoDev => dev[q] \in Devices)
      BY <1>1 DEF TypeOK
    <2>1. CASE "terminate" \in sig[q]
      BY <1>3, <1>5, <2>0, <2>1, Zenon DEF MarkedEntry
    <2>2. CASE "terminate" \notin sig[q] /\ "terminate" \in sig'[q]
      <3>1. th[t].pc = "termKill" /\ q = th[t].HE_pid /\ pc[q] # "reaped" /\ HE' = HE
        BY <1>2, <2>2, Zenon DEF CommandStep
      <3>2. dev[q] \in Devices /\ HE[dev[q]].user_term
        BY <1>1, <1>4, <3>1, Zenon DEF Marking
      <3>3. dev[q] # NoDev /\ "none" # "hard error"
        BY <3>2, ConstantsAssumption
      <3> QED BY <1>3, <2>0, <3>1, <3>2, <3>3, Zenon DEF MarkedEntry
    <2>3. CASE "terminate" \notin sig'[q]
      BY <1>3, <2>0, <2>3, Zenon DEF MarkedEntry
    <2> QED BY <2>1, <2>2, <2>3
  <1> QED BY <1>6, <1>7

(* The end of a process that the operator terminated is never reported as a *)
(* hardware error, when no device is restarted: the entry is marked before  *)
(* the signal and stays so until the process is reaped                      *)
(* (htxd_set_device_terminate_status, child_death).                         *)
THEOREM TerminateReported ==
    ASSUME "restart" \notin Cmds PROVE Spec => []TerminateIsNoError
  <1>1. Init => MarkInv
    BY InitChild
  <1>2. MarkInv /\ EntryNamesItsProcess /\ TypeOK' /\ [Next]_vars => MarkInv'
    <2> SUFFICES ASSUME MarkInv, EntryNamesItsProcess, TypeOK', [Next]_vars PROVE MarkInv'
      OBVIOUS
    <2>1. ChildInv /\ TypeOK /\ (\A u \in Threads : Marking(u)) /\ \A q \in Procs : MarkedEntry(q)
      BY Zenon DEF MarkInv, ChildInv
    <2>2. ChildInv'
      BY <2>1, NextChild
    <2>3. CASE UNCHANGED vars \/ StopWatch
      <3>1. /\ UNCHANGED <<pc, dev, report, th>>
            /\ \A d \in Devices : HE'[d].user_term = HE[d].user_term
            /\ \A q \in Procs : "terminate" \in sig'[q] => "terminate" \in sig[q]
        BY <2>1, <2>3, Stutter, StopWatchStep, Zenon
      <3>2. \A u \in Threads : Marking(u)'
        BY <2>1, <3>1, Zenon DEF Marking
      <3>3. ASSUME NEW q \in Procs PROVE MarkedEntry(q)'
        <4>1. dev[q] # NoDev => dev[q] \in Devices
          BY <2>1 DEF TypeOK
        <4> QED BY <2>1, <3>1, <4>1, Zenon DEF MarkedEntry
      <3> QED BY <2>2, <3>2, <3>3, Zenon DEF MarkInv
    <2> QED BY <2>2, <2>3, ExerciserMark, CommandMark, Zenon DEF Next, MarkInv
  <1>3. MarkInv => TerminateIsNoError
    BY Zenon DEF MarkInv, MarkedEntry, TerminateIsNoError
  <1> QED BY <1>1, <1>2, <1>3, TypeCorrect, EntryConsistent, PTL DEF Spec

-----------------------------------------------------------------------------
(* What a step of an exerciser does to the semaphores of its device, and    *)
(* where it leaves it during a halt.                                        *)
SemStep(p) ==
    /\ UNCHANGED <<sem0, run, shutdown, dev, th>>
    /\ \A q \in Procs : q # p => pc'[q] = pc[q] /\ haltPasses'[q] = haltPasses[q]
    /\ \A d \in Devices : d # dev[p] => ack'[d] = ack[d] /\ err'[d] = err[d]
    /\ sem0 = 1 /\ ~shutdown /\ pc'[p] = "test" => haltPasses'[p] = 1
    /\ Stands(p)'

(* Every step of an exerciser has this effect.                              *)
LEMMA ExerciserSem ==
    ASSUME ReportInv, NEW p \in Procs, Exerciser(p) PROVE SemStep(p)
  <1> USE DEF Goto, Await, sems, history, daemon
  <1>1. /\ pc \in [Procs -> ProcPC] /\ haltPasses \in [Procs -> 0..2] /\ sem0 \in {0, 1}
        /\ ack \in [Devices -> {0, 1}] /\ err \in [Devices -> {0, 1}] /\ TypeOK
    BY Zenon DEF ReportInv, ChildInv, TypeOK
  <1>2. Stands(p) /\ HeldByHalt(p) /\ dev[p] \in Devices
    <2>1. pc[p] # "unused"
      <3>1. pc[p] \notin {"unused", "reaped"}
        BY <1>1, ExerciserStep, Zenon DEF ProcessStep
      <3> QED BY <3>1
    <2> QED BY <2>1, ChildDevice, Zenon DEF ReportInv, HaltInv
  <1>3. ASSUME UNCHANGED <<sem0, run, err, ack, shutdown, dev, th, haltPasses>>,
               NEW w, w # "test", pc' = [pc EXCEPT ![p] = w],
               \/ w \in {"exited", "reaped"}
               \/ pc[p] = "inAct" /\ w = "clearAck"
               \/ pc[p] \notin {"inAct", "clearAck", "inErr", "exited", "reaped"}
        PROVE  SemStep(p)
    <2>1. pc'[p] = w /\ \A q \in Procs : q # p => pc'[q] = pc[q]
      BY ONLY <1>1, <1>3
    <2>2. ack' = ack /\ err' = err /\ shutdown' = shutdown /\ dev' = dev
      BY ONLY <1>3
    <2>3. Stands(p)'
      <3>1. CASE w \in {"exited", "reaped"}
        <4>1. w = "exited" \/ w = "reaped"
          BY ONLY <3>1
        <4> QED BY ONLY <2>1, <4>1, Zenon DEF Stands
      <3>2. CASE pc[p] = "inAct" /\ w = "clearAck"
        <4>1. ~shutdown => err[dev[p]] # 1
          BY ONLY <1>1, <1>2, <3>2, ConstantsAssumption DEF Stands
        <4> QED BY ONLY <2>1, <2>2, <3>2, <4>1, Zenon DEF Stands
      <3>3. CASE pc[p] \notin {"inAct", "clearAck", "inErr", "exited", "reaped"}
        <4>1. /\ pc[p] \notin {"inAct", "clearAck", "exited", "reaped"}
              /\ pc[p] \notin {"inErr", "exited", "reaped"}
          BY ONLY <3>3
        <4>2. ack[dev[p]] # 1 /\ (~shutdown => err[dev[p]] # 1)
          BY ONLY <1>1, <1>2, <4>1, ConstantsAssumption DEF Stands
        <4> QED BY ONLY <2>2, <4>2, Zenon DEF Stands
      <3> QED BY ONLY <1>3, <3>1, <3>2, <3>3, Zenon
    <2> QED BY <1>3, <2>1, <2>3, Zenon DEF SemStep
  <1>4. ASSUME UNCHANGED <<sem0, run, shutdown, dev, th>>, Return(p),
               NEW a \in {0, 1}, NEW e \in {0, 1},
               ack' = [ack EXCEPT ![dev[p]] = a], err' = [err EXCEPT ![dev[p]] = e],
               a = 0, ~shutdown => e = 0,
               sem0 = 1 /\ ~shutdown => pc[p] = "clearAck"
        PROVE  SemStep(p)
    <2>1. /\ pc'[p] = "test" /\ \A q \in Procs : q # p => pc'[q] = pc[q]
          /\ \A q \in Procs : q # p => haltPasses'[q] = haltPasses[q]
          /\ haltPasses'[p] = IF sem0 = 1 /\ haltPasses[p] < 2 THEN haltPasses[p] + 1 ELSE haltPasses[p]
      BY ONLY <1>1, <1>4 DEF Return
    <2>2. sem0 = 1 /\ ~shutdown => haltPasses'[p] = 1
      BY ONLY <1>2, <1>4, <2>1 DEF HeldByHalt
    <2>3. /\ \A d \in Devices : d # dev[p] => ack'[d] = ack[d] /\ err'[d] = err[d]
          /\ ack'[dev[p]] # 1 /\ (~shutdown => err'[dev[p]] # 1)
      BY ONLY <1>1, <1>2, <1>4
    <2>4. Stands(p)'
      BY <1>4, <2>3, Zenon DEF Stands
    <2> QED BY <1>4, <2>1, <2>2, <2>3, <2>4, Zenon DEF SemStep
  <1>5. CASE Start(p) \/ Reconfig(p)
    <2>1. PICK w \in {"inRun", "readGlobal", "exited"} : pc' = [pc EXCEPT ![p] = w]
      BY <1>5, Zenon DEF Start, Reconfig
    <2>2. UNCHANGED <<sem0, run, err, ack, shutdown, dev, th, haltPasses>> /\ pc[p] \in {"forked", "test"}
      BY <1>5, Zenon DEF Start, Reconfig
    <2>3. w # "test" /\ pc[p] \notin {"inAct", "clearAck", "inErr", "exited", "reaped"}
      BY <2>1, <2>2
    <2> QED BY <1>3, <2>1, <2>2, <2>3, Zenon
  <1>6. CASE Update(p) \/ LeaveCycles(p) \/ FinishLastCycle(p) \/ Error(p) \/ PassRun(p)
    <2>1. PICK w \in {"inRun", "readGlobal", "cycles", "setErr"} : pc' = [pc EXCEPT ![p] = w]
      BY <1>6, Zenon DEF Update, LeaveCycles, FinishLastCycle, Error, PassRun
    <2>2. UNCHANGED <<sem0, run, err, ack, shutdown, dev, th, haltPasses>>
          /\ pc[p] \in {"test", "cycles", "inRun"}
      BY <1>6, Zenon DEF Update, LeaveCycles, FinishLastCycle, Error, PassRun
    <2>3. w # "test" /\ pc[p] \notin {"inAct", "clearAck", "inErr", "exited", "reaped"}
      BY <2>1, <2>2
    <2> QED BY <1>3, <2>1, <2>2, <2>3, Zenon
  <1>7. CASE Exit(p) \/ Reap(p)
    <2>1. PICK w \in {"exited", "reaped"} : pc' = [pc EXCEPT ![p] = w]
      BY <1>7, Zenon DEF Exit, Reap
    <2>2. UNCHANGED <<sem0, run, err, ack, shutdown, dev, th, haltPasses>>
      BY <1>7, Zenon DEF Exit, Reap
    <2>3. w # "test"
      BY <2>1
    <2> QED BY <1>3, <2>1, <2>2, <2>3, Zenon
  <1>8. CASE PassAct(p) \/ (Interrupt(p) /\ pc[p] = "inAct")
    <2>1. pc' = [pc EXCEPT ![p] = "clearAck"] /\ pc[p] = "inAct"
      BY <1>8 DEF Interrupt, PassAct
    <2>2. UNCHANGED <<sem0, run, err, ack, shutdown, dev, th, haltPasses>>
      BY <1>8, <2>1 DEF Interrupt, PassAct
    <2>3. "clearAck" # "test"
      OBVIOUS
    <2> QED BY <1>3, <2>1, <2>2, <2>3, Zenon
  <1>9. CASE (ReadGlobal(p) /\ sem0 = 1) \/ (Interrupt(p) /\ pc[p] = "inRun")
    <2>1. PICK w \in {"setAck", "readGlobal"} : pc' = [pc EXCEPT ![p] = w]
      BY <1>9 DEF Interrupt, ReadGlobal
    <2>2. UNCHANGED <<sem0, run, err, ack, shutdown, dev, th, haltPasses>> /\ pc[p] \in {"readGlobal", "inRun"}
      BY <1>9 DEF Interrupt, ReadGlobal
    <2>3. w # "test" /\ pc[p] \notin {"inAct", "clearAck", "inErr", "exited", "reaped"}
      BY <2>1, <2>2
    <2> QED BY <1>3, <2>1, <2>2, <2>3, Zenon
  <1>10. CASE SetAck(p)
    <2>1. PICK w \in {"inAct", "clearAck"} : pc' = [pc EXCEPT ![p] = w]
      BY <1>10, Zenon DEF SetAck
    <2>2. /\ pc'[p] = w /\ w # "test" /\ \A q \in Procs : q # p => pc'[q] = pc[q]
          /\ \A d \in Devices : d # dev[p] => ack'[d] = ack[d]
      BY ONLY <1>1, <1>10, <2>1 DEF SetAck
    <2>3. pc[p] = "setAck" /\ pc[p] \notin {"inErr", "exited", "reaped"}
      BY <1>10 DEF SetAck
    <2>4. ~shutdown => err[dev[p]] # 1
      BY <1>2, <2>3, ConstantsAssumption DEF Stands
    <2>5. UNCHANGED <<sem0, run, err, shutdown, dev, th, haltPasses>>
      BY <1>10, Zenon DEF SetAck
    <2>6. w \in {"inAct", "clearAck", "exited", "reaped"}
      BY <2>1
    <2>7. Stands(p)'
      BY <2>2, <2>4, <2>5, <2>6, Zenon DEF Stands
    <2> QED BY <2>2, <2>5, <2>7, Zenon DEF SemStep
  <1>11. CASE SetErr(p) /\ ~shutdown
    <2>1. pc' = [pc EXCEPT ![p] = "inErr"] /\ pc[p] = "setErr" /\ err' = [err EXCEPT ![dev[p]] = 1]
          /\ UNCHANGED <<sem0, run, ack, shutdown, dev, th, haltPasses>>
      BY <1>11, Zenon DEF SetErr
    <2>2. /\ pc'[p] = "inErr" /\ pc'[p] # "test" /\ \A q \in Procs : q # p => pc'[q] = pc[q]
          /\ \A d \in Devices : d # dev[p] => err'[d] = err[d]
      BY ONLY <1>1, <2>1
    <2>3. pc[p] \notin {"inAct", "clearAck", "exited", "reaped"}
      BY <2>1
    <2>4. ack[dev[p]] # 1
      BY <1>2, <2>3, ConstantsAssumption DEF Stands
    <2>5. pc'[p] \in {"inErr", "exited", "reaped"}
      BY <2>2
    <2>6. Stands(p)'
      BY <2>1, <2>4, <2>5, Zenon DEF Stands
    <2> QED BY <2>1, <2>2, <2>6, Zenon DEF SemStep
  <1>12. CASE ClearAck(p)
    <2>1. pc[p] = "clearAck" /\ pc[p] \notin {"inErr", "exited", "reaped"}
      BY <1>12 DEF ClearAck
    <2>2. ~shutdown => err[dev[p]] = 0
      BY <1>1, <1>2, <2>1, ConstantsAssumption DEF Stands
    <2>3. err' = [err EXCEPT ![dev[p]] = err[dev[p]]] /\ err[dev[p]] \in {0, 1}
      BY ONLY <1>1, <1>2, <1>12 DEF ClearAck
    <2>4. Return(p) /\ ack' = [ack EXCEPT ![dev[p]] = 0] /\ UNCHANGED <<sem0, run, shutdown, dev, th>>
      BY <1>12, Zenon DEF ClearAck
    <2>5. 0 \in {0, 1} /\ 0 = 0
      OBVIOUS
    <2> QED BY <1>4, <2>1, <2>2, <2>3, <2>4, <2>5, Zenon
  <1>13. CASE \/ SetErr(p) /\ shutdown
              \/ PassErr(p)
              \/ ReadGlobal(p) /\ sem0 # 1
              \/ Interrupt(p) /\ pc[p] = "inErr"
    <2>1. PICK e \in {0, 1} : err' = [err EXCEPT ![dev[p]] = e] /\ (~shutdown => e = 0)
      <3>1. CASE SetErr(p) /\ shutdown
        BY <3>1 DEF SetErr
      <3>2. CASE PassErr(p)
        BY ONLY <1>1, <1>2, <3>2 DEF PassErr
      <3>3. CASE ReadGlobal(p) /\ sem0 # 1
        <4>1. pc[p] \notin {"inErr", "exited", "reaped"}
          BY <3>3 DEF ReadGlobal
        <4>2. ~shutdown => err[dev[p]] = 0
          BY <1>1, <1>2, <4>1, ConstantsAssumption DEF Stands
        <4> QED BY ONLY <1>1, <1>2, <4>2, <3>3 DEF ReadGlobal
      <3>4. CASE Interrupt(p) /\ pc[p] = "inErr"
        BY ONLY <1>1, <1>2, <3>4 DEF Interrupt
      <3> QED BY <1>13, <3>1, <3>2, <3>3, <3>4, Zenon
    <2>2. Return(p) /\ UNCHANGED <<sem0, run, ack, shutdown, dev, th>>
          /\ pc[p] \in {"setErr", "inErr", "readGlobal"} /\ (sem0 = 1 => shutdown)
      <3>1. CASE SetErr(p) /\ shutdown
        BY ONLY <3>1 DEF SetErr
      <3>2. CASE PassErr(p)
        BY ONLY <3>2 DEF PassErr, sems
      <3>3. CASE ReadGlobal(p) /\ sem0 # 1
        BY ONLY <3>3 DEF ReadGlobal, sems
      <3>4. CASE Interrupt(p) /\ pc[p] = "inErr"
        BY ONLY <3>4 DEF Interrupt, sems
      <3> QED BY ONLY <1>13, <3>1, <3>2, <3>3, <3>4, Zenon
    <2>3. pc[p] \notin {"inAct", "clearAck", "exited", "reaped"}
      BY <2>2
    <2>4. ack[dev[p]] = 0
      BY <1>1, <1>2, <2>3, ConstantsAssumption DEF Stands
    <2>5. ack' = [ack EXCEPT ![dev[p]] = 0] /\ 0 \in {0, 1} /\ 0 = 0
      BY ONLY <1>1, <1>2, <2>2, <2>4
    <2> QED BY <1>4, <2>1, <2>2, <2>5, Zenon
  <1>14. Interrupt(p) => pc[p] \in {"inRun", "inAct", "inErr"}
    BY Zenon DEF Interrupt
  <1>15. Interrupt(p) => pc[p] = "inRun" \/ pc[p] = "inAct" \/ pc[p] = "inErr"
    BY <1>14
  <1> QED
    BY <1>5, <1>6, <1>7, <1>8, <1>9, <1>10, <1>11, <1>12, <1>13, <1>15, Zenon DEF Exerciser, InCall

(* So an exerciser keeps what a halt has found.                             *)
LEMMA ExerciserReport ==
    ASSUME ReportInv, NEW p \in Procs, Exerciser(p)
    PROVE  /\ \A d \in Devices : run'[d] = 0
           /\ \A q \in Procs : Stands(q)'
           /\ \A t \in Threads : Counted(t)'
  <1>1. SemStep(p)
    BY ExerciserSem
  <1>2. \A d \in Devices : run'[d] = 0
    BY <1>1, Zenon DEF SemStep, ReportInv
  <1>3. ASSUME NEW q \in Procs, q # p PROVE Stands(q)'
    <2>1. Stands(q) /\ OnlyChild(p) /\ (dev[q] # NoDev => dev[q] \in Devices)
      BY DEF ReportInv, ChildInv, TypeOK
    <2>2. dev[q] # NoDev => dev[q] # dev[p]
      BY <1>3, <2>1, Zenon DEF OnlyChild
    <2> QED BY <1>1, <1>3, <2>1, <2>2, Zenon DEF SemStep, Stands
  <1>4. sem0 = 1 /\ ~shutdown => \A q \in Procs : Quiet(q) => Quiet(q)'
    BY <1>1, Zenon DEF SemStep, Quiet
  <1>5. ASSUME NEW t \in Threads PROVE Counted(t)'
    <2>1. UNCHANGED <<sem0, shutdown, dev, th>>
      BY <1>1, Zenon DEF SemStep
    <2> QED BY <1>4, <2>1, Zenon DEF Counted, ReportInv
  <1> QED BY <1>1, <1>2, <1>3, <1>5, Zenon DEF SemStep

(* What a step of a command that neither suspends nor restarts does to the  *)
(* semaphores, and how a halt comes to its answer.                          *)
CommandSem(t) ==
    /\ \A d \in Devices : run'[d] = 0 /\ (ack'[d] = 1 => ack[d] = 1) /\ (err'[d] = 1 => err[d] = 1)
    /\ shutdown => shutdown'
    /\ th'[t].pc \in Terminating \cup {"termRestore"} => th'[t].saved = 0
    /\ th'[t].reply = "stopped" => th'[t].pc \in {"halted", "idle"}
    /\ \/ sem0' # 1 \/ shutdown'
       \/ th'[t].pc # "count" /\ th'[t].reply # "stopped"
       \/ UNCHANGED <<sem0, shutdown, haltPasses>> /\ th'[t].pc # "count" /\ th'[t].reply = th[t].reply
       \/ Poll(t) \/ \E d \in Devices : CountStopped(t, d)

(* The steps of the commands that work through a list of devices.           *)
LEMMA ListSem ==
    ASSUME TypeOK, \A d \in Devices : run[d] = 0, NEW t \in Threads, Counted(t),
           Cmds \cap {"restart", "suspend", "activate_halt"} = {},
           NEW d \in Devices, ListStep(t, d)
    PROVE  CommandSem(t)
  <1> USE DEF sems, history
  <1>1. /\ th \in [Threads -> Thread] /\ run \in [Devices -> {0, 1}] /\ err \in [Devices -> {0, 1}]
        /\ th[t].cmd \in Cmds \cup {"none"}
    <2>1. th \in [Threads -> Thread] /\ run \in [Devices -> {0, 1}] /\ err \in [Devices -> {0, 1}]
      BY Zenon DEF TypeOK
    <2> QED BY <2>1 DEF Thread
  <1>2. th[t].cmd \notin {"restart", "suspend", "activate_halt"}
    BY <1>1
  <1>3. ~RestartDevice(t, d) /\ ~SuspendDevice(t, d) /\ th[t].cmd # "activate_halt"
    BY <1>2 DEF RestartDevice, SuspendDevice, Visits
  <1>4. ASSUME NEW w, w \notin {"idle", "halted"}, th[t].pc = w PROVE th[t].reply # "stopped"
    BY <1>4, Zenon DEF Counted
  <1>5. ASSUME SetRun(d, 0) PROVE \A e \in Devices : run'[e] = 0
    BY ONLY <1>1, <1>5, \A e \in Devices : run[e] = 0 DEF SetRun
  <1>6. ASSUME UNCHANGED <<ack, err, shutdown>>, \A e \in Devices : run'[e] = 0, NextDevice(t, d)
        PROVE  CommandSem(t)
    <2>1. th'[t].pc \in {"idle", "each"} /\ th'[t].reply = "none"
      BY <1>1, <1>6, VisitEnds, Zenon
    <2>2. /\ th'[t].pc \notin Terminating \cup {"termRestore"} /\ th'[t].pc # "count"
          /\ th'[t].reply # "stopped"
      BY <2>1 DEF Terminating
    <2> QED BY <1>6, <2>2, Zenon DEF CommandSem
  <1>7. ASSUME \A e \in Devices : run'[e] = 0 /\ (err'[e] = 1 => err[e] = 1), UNCHANGED <<ack, shutdown>>,
               th[t].pc \in Terminating,
               NEW w \in Terminating \cup {"termRestore"}, th' = [th EXCEPT ![t].pc = w]
        PROVE  CommandSem(t)
    <2>1. th'[t].pc = w /\ th'[t].saved = th[t].saved /\ th'[t].reply = th[t].reply
      BY <1>1, <1>7, ThreadMoves, Zenon
    <2>2. th[t].saved = 0
      BY <1>7, Zenon DEF Counted
    <2>3. w # "count" /\ th[t].pc \notin {"halted", "idle"}
      BY <1>7 DEF Terminating
    <2>4. th[t].reply # "stopped"
      BY <2>3, Zenon DEF Counted
    <2> QED BY <1>7, <2>1, <2>2, <2>3, <2>4, Zenon DEF CommandSem
  <1>8. CASE ActivateDevice(t, d)
    BY <1>5, <1>6, <1>8, Zenon DEF ActivateDevice
  <1>9. CASE CoeDevice(t, d) \/ SoeDevice(t, d) \/ ToggleWrite(t, d)
    <2>1. UNCHANGED <<ack, err, run, shutdown>> /\ NextDevice(t, d)
      BY <1>3, <1>9, Zenon DEF CoeDevice, SoeDevice, ToggleWrite
    <2> QED BY <1>6, <2>1, Zenon
  <1>10. CASE ToggleRead(t, d)
    <2>1. th'[t].pc = "flip" /\ th'[t].reply = th[t].reply
      BY ONLY <1>1, <1>10 DEF ToggleRead, Thread
    <2>2. "each" \notin {"idle", "halted"}
      OBVIOUS
    <2>3. th[t].reply # "stopped"
      BY <1>4, <1>10, <2>2, Zenon DEF ToggleRead, Visits
    <2>4. th'[t].pc \notin Terminating \cup {"termRestore"} /\ th'[t].pc # "count"
      BY <2>1 DEF Terminating
    <2>5. UNCHANGED <<ack, err, run, shutdown>>
      BY <1>10, Zenon DEF ToggleRead
    <2> QED BY <2>1, <2>3, <2>4, <2>5, Zenon DEF CommandSem
  <1>11. CASE TerminateDevice(t, d)
    <2>1. UNCHANGED <<ack, err, run, shutdown>>
      BY <1>11, Zenon DEF TerminateDevice
    <2>2. CASE NextDevice(t, d)
      BY <1>6, <2>1, <2>2, Zenon
    <2>3. CASE ~NextDevice(t, d)
      <3>1. th' = [th EXCEPT ![t].cur = d, ![t].HE_pid = HE[d].PID, ![t].saved = run[d], ![t].pc = "termRun"]
        BY <1>11, <2>3, Zenon DEF TerminateDevice
      <3>2. th'[t].pc = "termRun" /\ th'[t].saved = run[d] /\ th'[t].reply = th[t].reply
        BY ONLY <1>1, <3>1 DEF Thread
      <3>3. "each" \notin {"idle", "halted"} /\ "termRun" # "count"
        OBVIOUS
      <3>4. th[t].reply # "stopped"
        BY <1>4, <1>11, <3>3, Zenon DEF TerminateDevice, Visits
      <3> QED BY <2>1, <3>2, <3>3, <3>4, Zenon DEF CommandSem
    <2> QED BY <2>2, <2>3
  <1>12. CASE TermRun(t, d)
    <2>1. th[t].pc \in Terminating /\ "termErr" \in Terminating \cup {"termRestore"}
      BY <1>12 DEF TermRun, Terminating
    <2> QED BY <1>5, <1>7, <1>12, <2>1, Zenon DEF TermRun
  <1>13. CASE TermErr(t, d)
    <2>1. th[t].pc \in Terminating /\ "termMark" \in Terminating \cup {"termRestore"}
      BY <1>13 DEF TermErr, Terminating
    <2>2. \A e \in Devices : err'[e] = 1 => err[e] = 1
      BY ONLY <1>1, <1>13 DEF TermErr
    <2> QED BY <1>7, <1>13, <2>1, <2>2, Zenon DEF TermErr
  <1>14. CASE TermMark(t, d) \/ TermKill(t, d) \/ TermAlarm(t, d)
    <2>1. PICK w \in {"termKill", "termAlarm", "termRestore"} : th' = [th EXCEPT ![t].pc = w]
      BY <1>14, Zenon DEF TermMark, TermKill, TermAlarm
    <2>2. UNCHANGED <<ack, err, run, shutdown>> /\ th[t].pc \in {"termMark", "termKill", "termAlarm"}
      BY <1>14, Zenon DEF TermMark, TermKill, TermAlarm
    <2>3. th[t].pc \in Terminating /\ w \in Terminating \cup {"termRestore"}
      BY <2>1, <2>2 DEF Terminating
    <2> QED BY <1>7, <2>1, <2>2, <2>3, Zenon
  <1>15. CASE TermRestore(t, d)
    <2>1. th[t].saved = 0
      BY <1>15 DEF TermRestore, Counted
    <2> QED BY <1>5, <1>6, <1>15, <2>1, Zenon DEF TermRestore
  <1> QED
    BY <1>3, <1>8, <1>9, <1>10, <1>11, <1>12, <1>13, <1>14, <1>15, Zenon DEF ListStep

(* Every step of such a command has this effect.                            *)
LEMMA CommandSemEffect ==
    ASSUME TypeOK, \A d \in Devices : run[d] = 0, NEW t \in Threads, Counted(t),
           Cmds \cap {"restart", "suspend", "activate_halt"} = {}, Command(t)
    PROVE  CommandSem(t)
  <1> USE DEF sems, history
  <1>1. th \in [Threads -> Thread]
    BY Zenon DEF TypeOK
  <1>2. ASSUME UNCHANGED <<ack, err, run>>, shutdown => shutdown',
               th'[t].pc \notin Terminating \cup {"termRestore", "count"}, th'[t].reply # "stopped"
        PROVE  CommandSem(t)
    <2>1. th'[t].pc \notin Terminating \cup {"termRestore"} /\ th'[t].pc # "count"
      BY <1>2
    <2> QED BY <1>2, <2>1, Zenon DEF CommandSem
  <1>3. ASSUME NEW new, new.pc \notin Terminating \cup {"termRestore", "count"}, new.reply # "stopped",
               th' = [th EXCEPT ![t] = new], UNCHANGED <<ack, err, run, shutdown>>
        PROVE  CommandSem(t)
    <2>1. th'[t] = new
      BY <1>1, <1>3, ThreadReplaced, Zenon
    <2> QED BY <1>2, <1>3, <2>1, Zenon
  <1>4. ASSUME NEW w, w \notin {"idle", "halted"}, th[t].pc = w PROVE th[t].reply # "stopped"
    BY <1>4, Zenon DEF Counted
  <1>5. CASE BeginHalt(t)
    <2> DEFINE new == [IdleThread EXCEPT !.pc = IF sem0 = 0 THEN "setGlobal" ELSE "setActive",
                                         !.cmd = "test_activate_halt"]
    <2>1. th' = [th EXCEPT ![t] = new] /\ UNCHANGED <<ack, err, run, shutdown>>
      BY <1>5, Zenon DEF BeginHalt
    <2>2. new.pc \notin Terminating \cup {"termRestore", "count"} /\ new.reply # "stopped"
      BY DEF IdleThread, Terminating
    <2> QED BY <1>3, <2>1, <2>2, Zenon
  <1>6. CASE BeginShutdown(t)
    <2> DEFINE new == [IdleThread EXCEPT !.pc = "unloadFlag", !.cmd = "shutdown"]
    <2>1. th' = [th EXCEPT ![t] = new] /\ UNCHANGED <<ack, err, run, shutdown>>
      BY <1>6, Zenon DEF BeginShutdown
    <2>2. new.pc \notin Terminating \cup {"termRestore", "count"} /\ new.reply # "stopped"
      BY DEF IdleThread, Terminating
    <2> QED BY <1>3, <2>1, <2>2, Zenon
  <1>7. ASSUME NEW c, NEW S, BeginList(t, c, S) PROVE CommandSem(t)
    <2> DEFINE new == [IdleThread EXCEPT !.pc = "each", !.cmd = c, !.todo = S]
    <2>1. th' = [th EXCEPT ![t] = new] /\ UNCHANGED <<ack, err, run, shutdown>>
      BY <1>7, Zenon DEF BeginList
    <2>2. new.pc \notin Terminating \cup {"termRestore", "count"} /\ new.reply # "stopped"
      BY DEF IdleThread, Terminating
    <2> QED BY <1>3, <2>1, <2>2, Zenon
  <1>8. CASE Activated(t)
    <2> DEFINE new == [IdleThread EXCEPT !.reply = "activated"]
    <2>1. th' = [th EXCEPT ![t] = new] /\ UNCHANGED <<ack, err, run, shutdown>>
      BY <1>8, Zenon DEF Activated
    <2>2. new.pc \notin Terminating \cup {"termRestore", "count"} /\ new.reply # "stopped"
      BY DEF IdleThread, Terminating
    <2> QED BY <1>3, <2>1, <2>2, Zenon
  <1>9. CASE Halted(t)
    <2> DEFINE said == th[t].reply
               new == [IdleThread EXCEPT !.reply = said]
    <2>1. th' = [th EXCEPT ![t] = new] /\ UNCHANGED <<sem0, ack, err, run, shutdown, haltPasses>>
      BY <1>9, Zenon DEF Halted
    <2>2. new.pc = "idle" /\ new.reply = said
      BY DEF IdleThread
    <2> HIDE DEF new
    <2>3. th'[t] = new
      BY <1>1, <2>1, ThreadReplaced, Zenon
    <2>4. th'[t].pc \in {"halted", "idle"} /\ th'[t].pc # "count"
          /\ th'[t].pc \notin Terminating \cup {"termRestore"} /\ th'[t].reply = th[t].reply
      BY <2>2, <2>3 DEF Terminating
    <2> QED BY <2>1, <2>4, Zenon DEF CommandSem
  <1>10. CASE SetGlobal(t) \/ SetActive(t) \/ UnloadFlag(t) \/ UnloadWait(t)
    <2>1. PICK w \in {"poll", "activated", "unloadRelease", "done"} : th' = [th EXCEPT ![t].pc = w]
      BY <1>10, Zenon DEF SetGlobal, SetActive, UnloadFlag, UnloadWait
    <2>2. UNCHANGED <<ack, err, run>> /\ (shutdown => shutdown')
          /\ th[t].pc \in {"setGlobal", "setActive", "unloadFlag", "unloadWait"}
      <3>1. CASE SetGlobal(t) \/ SetActive(t)
        <4>1. UNCHANGED <<ack, err, run, shutdown>> /\ (th[t].pc = "setGlobal" \/ th[t].pc = "setActive")
          BY <3>1, Zenon DEF SetGlobal, SetActive
        <4> QED BY <4>1, Zenon
      <3>2. CASE UnloadFlag(t)
        BY <3>2, Zenon DEF UnloadFlag
      <3>3. CASE UnloadWait(t)
        BY <3>3, Zenon DEF UnloadWait
      <3> QED BY <1>10, <3>1, <3>2, <3>3, Zenon
    <2>3. th[t].pc \notin {"idle", "halted"} /\ w \notin Terminating \cup {"termRestore", "count"}
      BY <2>1, <2>2 DEF Terminating
    <2>4. th'[t].pc = w /\ th'[t].reply = th[t].reply
      BY <1>1, <2>1, ThreadMoves, Zenon
    <2> QED BY <1>2, <1>4, <2>2, <2>3, <2>4, Zenon
  <1>11. CASE Poll(t)
    <2>1. th'[t].pc = "count" /\ th'[t].reply = th[t].reply
      BY <1>1, <1>11, PollThread, Zenon
    <2>2. th[t].pc \notin {"idle", "halted"} /\ th'[t].pc \notin Terminating \cup {"termRestore"}
      <3>1. th[t].pc = "poll"
        BY <1>11, Zenon DEF Poll
      <3> QED BY ONLY <2>1, <3>1 DEF Terminating
    <2>3. th'[t].reply # "stopped"
      BY <1>4, <2>1, <2>2, Zenon
    <2>4. UNCHANGED <<ack, err, run, shutdown>>
      BY <1>11, Zenon DEF Poll
    <2> QED BY <1>11, <2>2, <2>3, <2>4, Zenon DEF CommandSem
  <1>12. ASSUME NEW d \in Devices, CountStopped(t, d) PROVE CommandSem(t)
    <2>1. /\ th'[t].pc = IF th[t].todo = {d} THEN "halted" ELSE th[t].pc
          /\ th'[t].reply = IF th[t].todo = {d} THEN "stopped" ELSE th[t].reply
      BY <1>1, <1>12, CountThread, Zenon
    <2>2. th[t].pc = "count" /\ th[t].pc \notin {"idle", "halted"}
      <3>1. th[t].pc = "count"
        BY <1>12, Zenon DEF CountStopped
      <3> QED BY ONLY <3>1
    <2>3. th[t].reply # "stopped"
      BY <1>4, <2>2, Zenon
    <2>4. "count" \notin Terminating \cup {"termRestore"} /\ "halted" \notin Terminating \cup {"termRestore"}
      BY DEF Terminating
    <2>5. UNCHANGED <<ack, err, run, shutdown>>
      BY <1>12, Zenon DEF CountStopped
    <2>6. "halted" \in {"halted", "idle"}
      OBVIOUS
    <2> QED BY <1>12, <2>1, <2>2, <2>3, <2>4, <2>5, <2>6, Zenon DEF CommandSem
  <1>13. ASSUME NEW d \in Devices, CountRunning(t, d) PROVE CommandSem(t)
    <2>1. th'[t].pc \in {"poll", "halted"} /\ th'[t].reply \in {th[t].reply, "warning"}
      BY <1>1, <1>13, CountThread, Zenon
    <2>2. th[t].pc = "count" /\ th[t].pc \notin {"idle", "halted"}
      <3>1. th[t].pc = "count"
        BY <1>13, Zenon DEF CountRunning
      <3> QED BY ONLY <3>1
    <2>3. th[t].reply # "stopped"
      BY <1>4, <2>2, Zenon
    <2>4. th'[t].pc \notin Terminating \cup {"termRestore", "count"} /\ th'[t].reply # "stopped"
      BY <2>1, <2>3 DEF Terminating
    <2>5. UNCHANGED <<ack, err, run, shutdown>>
      BY <1>13, Zenon DEF CountRunning
    <2> QED BY <1>2, <2>4, <2>5, Zenon
  <1>14. CASE UnloadRelease(t)
    <2>1. th'[t].pc \in {"unloadKill", "unloadWait"} /\ th'[t].reply = th[t].reply
      BY <1>1, <1>14, UnloadThread, Zenon
    <2>2. th[t].pc \notin {"idle", "halted"} /\ th'[t].pc \notin Terminating \cup {"termRestore"}
          /\ th'[t].pc # "count"
      BY <1>14, <2>1 DEF UnloadRelease, Terminating
    <2>3. th'[t].reply # "stopped"
      BY <1>4, <2>1, <2>2, Zenon
    <2>4. \A d \in Devices : run'[d] = 0 /\ ack'[d] # 1 /\ err'[d] # 1
      BY ONLY <1>14 DEF UnloadRelease
    <2>5. shutdown' = shutdown
      BY <1>14, Zenon DEF UnloadRelease
    <2> QED BY <2>2, <2>3, <2>4, <2>5, Zenon DEF CommandSem
  <1>15. ASSUME NEW d \in Devices, UnloadKill(t, d) PROVE CommandSem(t)
    <2>1. th'[t].pc \in {"unloadKill", "unloadWait"} /\ th'[t].reply = th[t].reply
      BY <1>1, <1>15, UnloadThread, Zenon
    <2>2. th[t].pc \notin {"idle", "halted"} /\ th'[t].pc \notin Terminating \cup {"termRestore", "count"}
      BY <1>15, <2>1 DEF UnloadKill, Terminating
    <2>3. th'[t].reply # "stopped"
      BY <1>4, <2>1, <2>2, Zenon
    <2>4. UNCHANGED <<ack, err, run, shutdown>>
      BY <1>15, Zenon DEF UnloadKill
    <2> QED BY <1>2, <2>2, <2>3, <2>4, Zenon
  <1>16. ASSUME NEW d \in Devices, ListStep(t, d) PROVE CommandSem(t)
    BY <1>16, ListSem, Zenon
  <1> QED
    BY <1>5, <1>6, <1>7, <1>8, <1>9, <1>10, <1>11, <1>12, <1>13, <1>14, <1>15, <1>16, Zenon
    DEF Command, Working, HaltStep, UnloadStep

(* A command keeps what a halt has found: the poll sees only devices whose  *)
(* process is held or gone, and so is that of an entry without a PID.       *)
LEMMA CommandReport ==
    ASSUME ReportInv, Cmds \cap {"restart", "suspend", "activate_halt"} = {},
           NEW t \in Threads, \A u \in Threads : u = t, Command(t)
    PROVE  /\ \A d \in Devices : run'[d] = 0
           /\ \A q \in Procs : Stands(q)'
           /\ \A u \in Threads : Counted(u)'
  <1>1. /\ ChildInv /\ TypeOK /\ (\A d \in Devices : run[d] = 0)
        /\ (\A p \in Procs : Stands(p) /\ OnlyChild(p)) /\ Counted(t)
    BY Zenon DEF ReportInv, ChildInv
  <1>2. "restart" \notin Cmds
    OBVIOUS
  <1>3. CommandSem(t) /\ CommandStep(t)
    BY <1>1, <1>2, CommandSemEffect, CommandEffect, Zenon
  <1>4. UNCHANGED <<pc, dev>> /\ th \in [Threads -> Thread]
    BY <1>1, <1>3, Zenon DEF CommandStep, TypeOK
  <1>5. \A p \in Procs : dev[p] # NoDev => dev[p] \in Devices
    BY <1>1 DEF TypeOK
  <1>6. ASSUME NEW q \in Procs PROVE Stands(q)'
    BY <1>1, <1>3, <1>4, <1>5, Zenon DEF Stands, CommandSem
  <1>7. CASE Poll(t)
    <2>1. UNCHANGED <<sem0, shutdown, haltPasses>>
      BY <1>7, Zenon DEF Poll, sems, history
    <2>2. ASSUME NEW p \in Procs, ~shutdown, dev[p] \in th'[t].snap \cup (Devices \ th'[t].todo)
          PROVE  pc[p] # "test"
      <3>1. th'[t].todo = Devices /\ th'[t].snap = {d \in Devices : ack[d] = 1 \/ err[d] = 1 \/ run[d] = 1}
        BY <1>4, <1>7, PollThread, Zenon
      <3>2. dev[p] \in Devices /\ (ack[dev[p]] = 1 \/ err[dev[p]] = 1 \/ run[dev[p]] = 1)
        BY <2>2, <3>1, Zenon
      <3>3. run[dev[p]] # 1 /\ dev[p] # NoDev
        BY <1>1, <3>2, ConstantsAssumption
      <3>4. pc[p] \in {"inAct", "clearAck", "exited", "reaped"} \/ pc[p] \in {"inErr", "exited", "reaped"}
        BY <1>1, <2>2, <3>2, <3>3, Zenon DEF Stands
      <3> QED BY <3>4
    <2>3. th'[t].reply # "stopped"
      <3>1. th[t].pc = "poll" /\ th'[t].reply = th[t].reply
        BY <1>4, <1>7, PollThread, Zenon DEF Poll
      <3>2. th[t].pc \notin {"halted", "idle"}
        BY <3>1
      <3> QED BY <1>1, <3>1, <3>2, Zenon DEF Counted
    <2> QED BY <1>3, <1>4, <1>6, <2>1, <2>2, <2>3, Zenon DEF CommandSem, Counted, Quiet
  <1>8. ASSUME NEW d \in Devices, CountStopped(t, d) PROVE Counted(t)'
    <2>1. UNCHANGED <<sem0, shutdown, haltPasses>> /\ th[t].pc = "count" /\ (d \in th[t].snap \/ HE[d].PID = NoProc)
      BY <1>8, Zenon DEF CountStopped, sems, history
    <2>2. /\ th'[t].pc = IF th[t].todo = {d} THEN "halted" ELSE th[t].pc
          /\ th'[t].reply = IF th[t].todo = {d} THEN "stopped" ELSE th[t].reply
          /\ th'[t].todo = th[t].todo \ {d} /\ th'[t].snap = th[t].snap
      BY <1>4, <1>8, CountThread, Zenon
    <2>3. ASSUME NEW p \in Procs, HE[d].PID = NoProc, dev[p] = d PROVE pc[p] # "test"
      <3>1. NoProc # p
        BY ConstantsAssumption
      <3>2. pc[p] \in {"unused", "reaped"}
        BY <1>1, <2>3, <3>1, Zenon DEF OnlyChild
      <3> QED BY <3>2
    <2>4. ASSUME NEW p \in Procs, sem0 = 1, ~shutdown,
                 dev[p] \in th[t].snap \cup (Devices \ (th[t].todo \ {d}))
          PROVE  Quiet(p)
      <3>1. dev[p] \in th[t].snap \cup (Devices \ th[t].todo) \/ dev[p] = d
        BY <2>4, Zenon
      <3>2. d \in th[t].snap => d \in th[t].snap \cup (Devices \ th[t].todo)
        BY Zenon
      <3> QED BY <1>1, <2>1, <2>3, <2>4, <3>1, <3>2, Zenon DEF Counted, Quiet
    <2>5. ASSUME NEW p \in Procs, sem0 = 1, ~shutdown, th[t].todo = {d} PROVE Quiet(p)
      <3>1. CASE dev[p] = NoDev
        <4>1. pc[p] = "unused" /\ "unused" # "test"
          BY <1>1, <3>1 DEF OnlyChild
        <4> QED BY <4>1, Zenon DEF Quiet
      <3>2. CASE dev[p] # NoDev
        <4>1. dev[p] \in th[t].snap \cup (Devices \ (th[t].todo \ {d}))
          BY <1>5, <2>5, <3>2, Zenon
        <4> QED BY <2>4, <2>5, <4>1
      <3> QED BY <3>1, <3>2
    <2>6. th[t].reply # "stopped"
      <3>1. th[t].pc \notin {"halted", "idle"}
        BY <2>1
      <3> QED BY <1>1, <3>1, Zenon DEF Counted
    <2>7. sem0' = 1 /\ ~shutdown' /\ th'[t].reply = "stopped" => \A p \in Procs : Quiet(p)'
      <3>1. th'[t].reply = "stopped" => th[t].todo = {d}
        BY <2>2, <2>6, Zenon
      <3> QED BY <1>4, <2>1, <2>5, <3>1, Zenon DEF Quiet
    <2>8. sem0' = 1 /\ ~shutdown' /\ th'[t].pc = "count" =>
            \A p \in Procs : dev'[p] \in th'[t].snap \cup (Devices \ th'[t].todo) => Quiet(p)'
      BY <1>4, <2>1, <2>2, <2>4, Zenon DEF Quiet
    <2> QED BY <1>3, <2>7, <2>8, Zenon DEF CommandSem, Counted
  <1>9. ASSUME ~Poll(t), ~\E d \in Devices : CountStopped(t, d) PROVE Counted(t)'
    <2>1. CASE sem0' # 1 \/ shutdown' \/ (th'[t].pc # "count" /\ th'[t].reply # "stopped")
      BY <1>3, <2>1, Zenon DEF CommandSem, Counted
    <2>2. CASE UNCHANGED <<sem0, shutdown, haltPasses>> /\ th'[t].pc # "count" /\ th'[t].reply = th[t].reply
      BY <1>1, <1>3, <1>4, <2>2, Zenon DEF CommandSem, Counted, Quiet
    <2> QED BY <1>3, <1>9, <2>1, <2>2, Zenon DEF CommandSem
  <1>10. Counted(t)'
    BY <1>7, <1>8, <1>9
  <1>11. \A d \in Devices : run'[d] = 0
    BY <1>3, Zenon DEF CommandSem
  <1> QED BY <1>6, <1>10, <1>11, Zenon

(* When a halt has answered that all exercisers are stopped, one that still *)
(* tests has been let go by the activation before this halt, and has        *)
(* returned once.  For one operator session, of any length and on any       *)
(* number of devices, in which no device is suspended or restarted          *)
(* (htxd_option_method_test_activate_halt).                                 *)
THEOREM HaltReported ==
    ASSUME Cmds \cap {"restart", "suspend", "activate_halt"} = {}, \A t, u \in Threads : t = u
    PROVE  Spec => []HaltReport
  <1>0. "restart" \notin Cmds
    OBVIOUS
  <1>1. Init => ReportInv
    BY InitChild
  <1>2. ReportInv /\ TypeOK' /\ [Next]_vars => ReportInv'
    <2> SUFFICES ASSUME ReportInv, TypeOK', [Next]_vars PROVE ReportInv'
      OBVIOUS
    <2>1. /\ ChildInv /\ TypeOK /\ HaltInv /\ (\A d \in Devices : run[d] = 0)
          /\ (\A q \in Procs : Stands(q) /\ HeldByHalt(q)) /\ \A u \in Threads : Counted(u)
      BY Zenon DEF ReportInv, ChildInv, HaltInv
    <2>2. ChildInv'
      BY <1>0, <2>1, NextChild
    <2>3. CASE UNCHANGED vars \/ StopWatch
      <3>1. UNCHANGED <<pc, dev, th, sem0, shutdown, run, err, ack, haltPasses>>
        BY <2>1, <2>3, Stutter, StopWatchStep, Zenon
      <3>2. \A q \in Procs : Stands(q)' /\ HeldByHalt(q)'
        BY <2>1, <3>1, Zenon DEF Stands, HeldByHalt
      <3>3. \A u \in Threads : Counted(u)'
        BY <2>1, <3>1, Zenon DEF Counted, Quiet
      <3> QED BY <2>1, <2>2, <3>1, <3>2, <3>3, Zenon DEF ReportInv, HaltInv
    <2>4. ASSUME NEW p \in Procs, Exerciser(p) PROVE ReportInv'
      BY <2>1, <2>2, <2>4, ExerciserHalt, ExerciserReport, Zenon DEF ReportInv, HaltInv
    <2>5. ASSUME NEW t \in Threads, Command(t) PROVE ReportInv'
      <3>1. \A u \in Threads : u = t
        OBVIOUS
      <3> QED BY <2>1, <2>2, <2>5, <3>1, CommandHalt, CommandReport, Zenon DEF ReportInv, HaltInv
    <2> QED BY <2>3, <2>4, <2>5, Zenon DEF Next
  <1>3. ReportInv => HaltReport
    BY Zenon DEF ReportInv, HaltReport, Counted, Quiet
  <1> QED BY <1>1, <1>2, <1>3, TypeCorrect, PTL DEF Spec
=============================================================================
