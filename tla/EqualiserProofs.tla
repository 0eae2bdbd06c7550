-------------------------- MODULE EqualiserProofs --------------------------
(***************************************************************************)
(* Proofs about the equaliser, for any number of devices, processes and    *)
(* command threads, any utilisation pattern and any set of commands.       *)
(***************************************************************************)
EXTENDS Equaliser, DeviceControlProofs, FiniteSetTheorems

(***************************************************************************)
(* Composition: with the equaliser beside them the exercisers and the      *)
(* commands do what they do without it, only less often.                   *)
(***************************************************************************)
LEMMA EqStepIsStep == ASSUME EqNext PROVE Next \/ UNCHANGED vars
  <1>1. ASSUME NEW p \in Procs, BeginStart(p)
        PROVE  UNCHANGED vars
    BY <1>1, Zenon DEF BeginStart
  <1>2. ASSUME NEW p \in Procs,
               EndStart(p) \/ Completes(p) \/ Runs(p) \/ Dies(p) \/ Reaps(p)
        PROVE  Exerciser(p)
    BY <1>2, Zenon DEF EndStart, Completes, Runs, Proceeds, Dies, Reaps,
                       Exerciser, InCall
  <1>3. CASE Daemon
    BY <1>3, Zenon DEF Daemon, Next
  <1>4. CASE EqualiserStep
    BY <1>4, Zenon DEF EqualiserStep, Quantum, Visit, TestSem0, TestErr,
                       TestSem, Decide, Stop, MarkHalt, Cont, MarkCont
  <1> QED
    BY <1>1, <1>2, <1>3, <1>4, Zenon DEF EqNext, Next

(* What the equaliser adds takes nothing away: every behaviour with it is a *)
(* behaviour of the commands and exercisers of DeviceControl, so that what  *)
(* is proved of those holds while SIGSTOP and SIGCONT come at any point     *)
(* (htxd_equaliser, hxfupdate_tunsafe).                                     *)
THEOREM EqualiserIsDeviceControl == EqSpec => Spec
  <1>1. EqInit => Init
    BY Zenon DEF EqInit
  <1>2. [EqNext]_allvars => [Next]_vars
    <2> SUFFICES ASSUME [EqNext]_allvars PROVE Next \/ UNCHANGED vars
      BY Zenon
    <2>1. CASE UNCHANGED allvars
      BY <2>1, Zenon DEF allvars
    <2> QED
      BY <2>1, EqStepIsStep, Zenon
  <1> QED
    BY <1>1, <1>2, PTL DEF EqSpec, Spec

(* A halt holds every exerciser after at most one return although the       *)
(* equaliser stops and continues them (hxfupdate_tunsafe).                  *)
THEOREM EqHaltEffective == EqSpec => []HaltTakesEffect
  BY EqualiserIsDeviceControl, HaltEffective, PTL

-----------------------------------------------------------------------------
(***************************************************************************)
(* What a step of DeviceControl does to the PIDs of the entries: it keeps  *)
(* or clears one, or enters a process that was not yet used.               *)
(***************************************************************************)
KeepsPIDs == \A d \in Devices :
    \/ HE'[d].PID \in {HE[d].PID, NoProc}
    \/ HE'[d].PID \in Procs /\ pc[HE'[d].PID] = "unused"

KeepsUsed == \A q \in Procs : pc'[q] = "unused" => pc[q] = "unused"

(* The steps of an exerciser and its reaping.                               *)
LEMMA ExerciserKeeps ==
    ASSUME TypeOK, NEW p \in Procs, Exerciser(p)
    PROVE  KeepsPIDs /\ KeepsUsed
  <1> USE DEF Goto, Await, KeepsPIDs, KeepsUsed
  <1>1. pc \in [Procs -> ProcPC] /\ HE \in [Devices -> Entry]
    BY Zenon DEF TypeOK
  <1>2. CASE Update(p) \/ FinishLastCycle(p) \/ LeaveCycles(p) \/ Error(p)
    BY ONLY <1>1, <1>2, Zenon DEF Update, FinishLastCycle, LeaveCycles, Error
  <1>3. CASE PassRun(p) \/ SetAck(p) \/ PassAct(p) \/ Exit(p)
    BY ONLY <1>1, <1>3, Zenon DEF PassRun, SetAck, PassAct, Exit
  <1>4. CASE SetErr(p) \/ PassErr(p) \/ ClearAck(p)
    BY ONLY <1>1, <1>4, Zenon DEF SetErr, PassErr, ClearAck, Return
  <1>5. CASE ReadGlobal(p) \/ Interrupt(p)
    BY ONLY <1>1, <1>5, Zenon DEF ReadGlobal, Interrupt, Return
  <1>6. CASE Start(p) \/ Reconfig(p)
    <2>1. \A e \in Devices : HE'[e].PID = HE[e].PID
      BY ONLY <1>1, <1>6 DEF Start, Reconfig, Entry
    <2> QED
      BY ONLY <1>1, <1>6, <2>1, Zenon DEF Start, Reconfig
  <1>7. CASE Reap(p)
    <2>1. \A e \in Devices : HE'[e].PID \in {HE[e].PID, NoProc}
      BY ONLY <1>1, <1>7, Zenon DEF Reap, Entry
    <2> QED
      BY ONLY <1>1, <1>7, <2>1, Zenon DEF Reap
  <1> QED
    BY <1>2, <1>3, <1>4, <1>5, <1>6, <1>7, Zenon DEF Exerciser, InCall

(* The commands; only restart enters a PID.                                 *)
LEMMA CommandKeeps ==
    ASSUME TypeOK, NEW t \in Threads, Command(t)
    PROVE  KeepsPIDs /\ KeepsUsed
  <1> USE DEF sems, procs, daemon, history
  <1>0. HE \in [Devices -> Entry] /\ pc \in [Procs -> ProcPC]
    BY Zenon DEF TypeOK
  <1>1. CASE (\A e \in Devices : HE'[e].PID = HE[e].PID) /\ UNCHANGED pc
    BY <1>1, Zenon DEF KeepsPIDs, KeepsUsed
  <1>2. CASE SetGlobal(t) \/ SetActive(t) \/ BeginHalt(t) \/ BeginShutdown(t)
    BY <1>1, <1>2, Zenon DEF BeginHalt, BeginShutdown, SetGlobal, SetActive
  <1>3. CASE Poll(t) \/ Halted(t) \/ Activated(t)
    BY <1>1, <1>3, Zenon DEF Poll, Halted, Activated
  <1>4. CASE UnloadWait(t) \/ UnloadFlag(t) \/ UnloadRelease(t)
    BY <1>1, <1>4, Zenon DEF UnloadWait, UnloadFlag, UnloadRelease
  <1>5. ASSUME NEW d \in Devices, CountStopped(t, d) \/ CountRunning(t, d)
                                  \/ UnloadKill(t, d)
        PROVE  KeepsPIDs /\ KeepsUsed
    BY <1>1, <1>5, Zenon DEF CountStopped, CountRunning, UnloadKill
  <1>6. ASSUME NEW c, NEW S, BeginList(t, c, S)
        PROVE  KeepsPIDs /\ KeepsUsed
    BY <1>1, <1>6, SMTT(30) DEF BeginList
  <1>7. ASSUME NEW d \in Devices, ListStep(t, d)
        PROVE  KeepsPIDs /\ KeepsUsed
    <2>1. CASE RestartDevice(t, d)
      <3>1. CASE UNCHANGED <<HE, pc, dev>>
        BY <1>1, <3>1, Zenon
      <3>2. ASSUME NEW p \in Procs, pc[p] = "unused", Goto(p, "forked"),
                   HE' = [HE EXCEPT ![d].PID = p]
            PROVE  KeepsPIDs /\ KeepsUsed
        BY ONLY <1>0, <1>7, <3>2, Zenon DEF KeepsPIDs, KeepsUsed, Goto, Entry
      <3> QED
        BY <2>1, <3>1, <3>2, Zenon DEF RestartDevice
    <2>2. CASE ActivateDevice(t, d) \/ SuspendDevice(t, d) \/ ToggleRead(t, d)
               \/ TerminateDevice(t, d)
      BY <1>1, <2>2, Zenon DEF ActivateDevice, SuspendDevice, ToggleRead,
                        TerminateDevice
    <2>3. CASE TermRun(t, d) \/ TermErr(t, d) \/ TermAlarm(t, d)
               \/ TermRestore(t, d)
      BY <1>1, <2>3, Zenon DEF TermRun, TermErr, TermAlarm, TermRestore
    <2>4. CASE CoeDevice(t, d) \/ SoeDevice(t, d) \/ ToggleWrite(t, d)
      <3>1. \A e \in Devices : HE'[e].PID = HE[e].PID
        BY <1>0, <2>4 DEF CoeDevice, SoeDevice, ToggleWrite, Entry
      <3> QED
        BY <1>1, <3>1, <2>4, Zenon DEF CoeDevice, SoeDevice, ToggleWrite
    <2>5. CASE TermMark(t, d) \/ TermKill(t, d)
      <3>1. \A e \in Devices : HE'[e].PID = HE[e].PID
        BY <1>0, <2>5, SMTT(30) DEF TermMark, TermKill, Entry
      <3> QED
        BY <1>1, <3>1, <2>5, Zenon DEF TermMark, TermKill
    <2> QED
      BY <1>7, <2>1, <2>2, <2>3, <2>4, <2>5, Zenon DEF ListStep
  <1> QED
    BY <1>2, <1>3, <1>4, <1>5, <1>6, <1>7, Zenon
    DEF Command, Working, HaltStep, UnloadStep

(* The stop watch.                                                          *)
LEMMA WatchKeeps ==
    ASSUME TypeOK, StopWatch
    PROVE  KeepsPIDs /\ KeepsUsed
  <1>1. PICK d \in Devices : Expire(d) \/ WatchSignal(d)
    BY Zenon DEF StopWatch
  <1>2. \A e \in Devices : HE'[e].PID = HE[e].PID
    BY <1>1 DEF Expire, WatchSignal, TypeOK, Entry
  <1>3. UNCHANGED pc
    BY <1>1, Zenon DEF Expire, WatchSignal, procs
  <1> QED
    BY <1>2, <1>3, Zenon DEF KeepsPIDs, KeepsUsed

-----------------------------------------------------------------------------
(***************************************************************************)
(* HaltIsKnown is not inductive as it stands.  A process that takes over   *)
(* an entry must not be stopped, which holds since a process not yet used  *)
(* is not; and the flag is cleared in a step of its own, which is safe     *)
(* only while the process that was continued is still the one of the       *)
(* entry, or a new one, and its CPU online.                                *)
(***************************************************************************)
EqTyped ==
    /\ stopped \in [Procs -> BOOLEAN]
    /\ equaliser_halt \in [Devices -> {0, 1}]
    /\ online \in [Devices -> BOOLEAN]
    /\ eq \in [pc : EqPC, todo : SUBSET Devices, cur : Devices \cup {NoDev}]

Known(d) ==
    /\ ~online[d] => equaliser_halt[d] = 1
    /\ HE[d].PID # NoProc /\ stopped[HE[d].PID] => Marked(d)

Continued(d) ==
    eq.pc = "continued" /\ eq.cur = d =>
      online[d] /\ (HE[d].PID # NoProc => ~stopped[HE[d].PID])

KnownInv ==
    /\ EqTyped
    /\ \A p \in Procs : pc[p] = "unused" => ~stopped[p]
    /\ \A d \in Devices : Known(d) /\ Continued(d)

(* A step that stops no process and leaves the equaliser alone.             *)
LEMMA OthersKeep ==
    ASSUME KnownInv, KeepsUsed, KeepsPIDs,
           stopped' \in [Procs -> BOOLEAN],
           \A p \in Procs : stopped'[p] => stopped[p],
           \A d \in Devices : HE[d].PID \in Procs \cup {NoProc},
           UNCHANGED <<equaliser_halt, online, eq>>
    PROVE  KnownInv'
  <1>1. EqTyped'
    BY Zenon DEF KnownInv, EqTyped
  <1>2. ASSUME NEW p \in Procs, pc'[p] = "unused" PROVE ~stopped'[p]
    BY <1>2, Zenon DEF KnownInv, KeepsUsed
  <1>3. ASSUME NEW d \in Devices PROVE Known(d)' /\ Continued(d)'
    <2>1. Known(d) /\ Continued(d)
      BY Zenon DEF KnownInv
    <2>2. HE'[d].PID # NoProc /\ stopped'[HE'[d].PID] =>
            HE'[d].PID = HE[d].PID /\ stopped[HE[d].PID]
      BY <2>1, Zenon DEF KeepsPIDs, KnownInv
    <2> QED
      BY <2>1, <2>2, Zenon DEF Known, Continued, Marked
  <1> QED
    BY <1>1, <1>2, <1>3, Zenon DEF KnownInv

(* A step of the equaliser that is not at the signals or the flag.          *)
LEMMA PassingKeeps ==
    ASSUME KnownInv, UNCHANGED <<vars, stopped, equaliser_halt>>,
           online' \in [Devices -> BOOLEAN],
           \A d \in Devices : ~online'[d] => ~online[d],
           eq' \in [pc : EqPC, todo : SUBSET Devices, cur : Devices \cup {NoDev}],
           eq.pc # "halted", eq'.pc # "continued"
    PROVE  KnownInv'
  <1>1. EqTyped'
    BY Zenon DEF KnownInv, EqTyped
  <1>2. UNCHANGED <<HE, pc>>
    BY Zenon DEF vars, procs
  <1>3. ASSUME NEW d \in Devices PROVE Known(d)' /\ Continued(d)'
    BY <1>2, Zenon DEF KnownInv, Known, Continued, Marked
  <1> QED
    BY <1>1, <1>2, <1>3, Zenon DEF KnownInv

(* After a visit the equaliser is between devices.                          *)
LEMMA NextVisitType ==
    ASSUME EqTyped, NextVisit
    PROVE  /\ eq' \in [pc : EqPC, todo : SUBSET Devices, cur : Devices \cup {NoDev}]
           /\ eq'.cur = NoDev /\ eq'.pc \in {"sleep", "each"}
  BY Zenon DEF EqTyped, NextVisit, EqPC

(* A change of the program counter keeps the type.                          *)
LEMMA GotoType ==
    ASSUME EqTyped, NEW where \in EqPC, eq' = [eq EXCEPT !.pc = where]
    PROVE  /\ eq' \in [pc : EqPC, todo : SUBSET Devices, cur : Devices \cup {NoDev}]
           /\ eq'.pc = where /\ eq'.cur = eq.cur
  BY Zenon DEF EqTyped

(* The steps before a signal is sent.                                       *)
LEMMA TestsKeep ==
    ASSUME KnownInv, NEW d \in Devices,
           Visit(d) \/ TestSem0(d) \/ TestErr(d) \/ Decide(d)
    PROVE  KnownInv'
  <1>0. EqTyped
    BY Zenon DEF KnownInv
  <1>1. /\ UNCHANGED <<vars, stopped, equaliser_halt, online>>
        /\ eq.pc # "halted"
    BY Zenon DEF Visit, TestSem0, TestErr, TestSem, Decide, EqAt, HEvars
  <1>2. CASE Visit(d)
    <2>1. /\ eq' \in [pc : EqPC, todo : SUBSET Devices, cur : Devices \cup {NoDev}]
          /\ eq'.pc # "continued"
      BY <1>0, <1>2 DEF Visit, EqPC, EqTyped
    <2> QED
      BY <1>0, <1>1, <2>1, PassingKeeps, Zenon DEF EqTyped
  <1>3. CASE TestSem0(d) \/ TestErr(d) \/ Decide(d)
    <2>1. NextVisit \/ \E where \in {"err", "run", "stop", "cont"} :
                         eq' = [eq EXCEPT !.pc = where]
      BY <1>3, Zenon DEF TestSem0, TestErr, TestSem, Decide, Advance
    <2>2. /\ eq' \in [pc : EqPC, todo : SUBSET Devices, cur : Devices \cup {NoDev}]
          /\ eq'.pc # "continued"
      <3>1. CASE NextVisit
        BY <1>0, <3>1, NextVisitType, Zenon
      <3>2. ASSUME NEW where \in {"err", "run", "stop", "cont"},
                   eq' = [eq EXCEPT !.pc = where]
            PROVE  /\ eq' \in [pc : EqPC, todo : SUBSET Devices,
                               cur : Devices \cup {NoDev}]
                   /\ eq'.pc # "continued"
        <4>1. where \in EqPC /\ where # "continued"
          BY Zenon DEF EqPC
        <4> QED
          BY <1>0, <3>2, <4>1, GotoType, Zenon
      <3> QED
        BY <2>1, <3>1, <3>2, Zenon
    <2> QED
      BY <1>0, <1>1, <2>2, PassingKeeps, Zenon DEF EqTyped
  <1> QED
    BY <1>2, <1>3, Zenon

(* SIGSTOP: the process that is stopped is that of the device visited, and  *)
(* of no other.                                                             *)
LEMMA StopKeeps ==
    ASSUME KnownInv, EntryNamesItsProcess, NEW d \in Devices, Stop(d),
           \A e \in Devices : HE[e].PID \in Procs \cup {NoProc}
    PROVE  KnownInv'
  <1>0. EqTyped /\ eq.pc = "stop" /\ eq.cur = d
    BY Zenon DEF KnownInv, Stop, EqAt
  <1>1. /\ UNCHANGED <<vars, HE, pc, equaliser_halt, online>>
    BY Zenon DEF Stop, HEvars, vars, procs
  <1>2. CASE Advance(d) /\ UNCHANGED stopped
    <2>1. NextVisit
      BY <1>2, Zenon DEF Advance
    <2> QED
      BY <1>0, <1>1, <1>2, <2>1, NextVisitType, PassingKeeps, Zenon DEF EqTyped
  <1>3. CASE eq' = [eq EXCEPT !.pc = "halted"] /\ UNCHANGED stopped
    <2>1. /\ eq' \in [pc : EqPC, todo : SUBSET Devices, cur : Devices \cup {NoDev}]
          /\ eq'.pc # "continued"
      BY <1>0, <1>3, GotoType, Zenon DEF EqPC
    <2> QED
      BY <1>0, <1>1, <1>3, <2>1, PassingKeeps, Zenon DEF EqTyped
  <1>4. CASE /\ HE[d].PID # NoProc
             /\ stopped' = [stopped EXCEPT ![HE[d].PID] = Live(HE[d].PID)]
             /\ eq' = [eq EXCEPT !.pc = "halted"]
    <2>1. /\ eq' \in [pc : EqPC, todo : SUBSET Devices, cur : Devices \cup {NoDev}]
          /\ eq'.pc = "halted" /\ eq'.cur = d
      BY <1>0, <1>4, GotoType, Zenon DEF EqPC
    <2>2. /\ \A e \in Devices : e # d /\ HE[e].PID # NoProc => HE[e].PID # HE[d].PID
          /\ pc[HE[d].PID] # "unused"
      BY <1>4, Zenon DEF EntryNamesItsProcess
    <2>3. stopped' \in [Procs -> BOOLEAN]
      BY <1>0, <1>4, Zenon DEF EqTyped, Live
    <2>4. \A q \in Procs : q # HE[d].PID => stopped'[q] = stopped[q]
      BY <1>0, <1>4, Zenon DEF EqTyped
    <2>5. ASSUME NEW e \in Devices PROVE Known(e)' /\ Continued(e)'
      <3>1. Known(e)
        BY Zenon DEF KnownInv
      <3>2. CASE e = d
        BY <1>1, <2>1, <3>1, <3>2, Zenon DEF Known, Continued, Marked
      <3>3. CASE e # d
        BY <1>0, <1>1, <2>1, <2>2, <2>4, <3>1, <3>3, Zenon DEF Known, Continued, Marked
      <3> QED
        BY <3>2, <3>3, Zenon
    <2>6. \A q \in Procs : pc'[q] = "unused" => ~stopped'[q]
      BY <1>1, <2>2, <2>4, Zenon DEF KnownInv
    <2>7. EqTyped'
      BY <1>0, <1>1, <2>1, <2>3, Zenon DEF EqTyped
    <2> QED
      BY <2>5, <2>6, <2>7, Zenon DEF KnownInv
  <1> QED
    BY <1>2, <1>3, <1>4, Zenon DEF Stop

(* The flag is set, and only then the CPU taken offline.                    *)
LEMMA MarkHaltKeeps ==
    ASSUME KnownInv, NEW d \in Devices, MarkHalt(d), Offline \in BOOLEAN
    PROVE  KnownInv'
  <1>0. EqTyped /\ eq.cur = d /\ eq.pc = "halted"
    BY Zenon DEF KnownInv, MarkHalt, EqAt
  <1>1. /\ UNCHANGED <<HE, pc, stopped>> /\ NextVisit
        /\ equaliser_halt' = [equaliser_halt EXCEPT ![d] = 1]
        /\ online' = [online EXCEPT ![d] = ~Offline]
    BY Zenon DEF MarkHalt, Advance, vars, procs
  <1>2. /\ eq' \in [pc : EqPC, todo : SUBSET Devices, cur : Devices \cup {NoDev}]
        /\ eq'.cur = NoDev /\ eq'.pc # "continued"
    BY <1>0, <1>1, NextVisitType, Zenon
  <1>3. EqTyped'
    BY <1>0, <1>1, <1>2, Zenon DEF EqTyped
  <1>4. ASSUME NEW e \in Devices PROVE Known(e)' /\ Continued(e)'
    <2>1. Known(e)
      BY Zenon DEF KnownInv
    <2>2. e # d => equaliser_halt'[e] = equaliser_halt[e] /\ online'[e] = online[e]
      BY <1>0, <1>1, Zenon DEF EqTyped
    <2>3. equaliser_halt'[d] = 1
      BY <1>0, <1>1, Zenon DEF EqTyped
    <2> QED
      BY <1>0, <1>1, <1>2, <2>1, <2>2, <2>3, Zenon DEF Known, Continued, Marked
  <1> QED
    BY <1>1, <1>3, <1>4, Zenon DEF KnownInv

(* SIGCONT, with the CPU back online; the flag is still set.                *)
LEMMA ContKeeps ==
    ASSUME KnownInv, NEW d \in Devices, Cont(d),
           \A e \in Devices : HE[e].PID \in Procs \cup {NoProc}
    PROVE  KnownInv'
  <1>0. EqTyped /\ eq.cur = d /\ eq.pc = "cont"
    BY Zenon DEF KnownInv, Cont, EqAt
  <1>1. /\ UNCHANGED <<vars, HE, pc, equaliser_halt>>
        /\ online' = [online EXCEPT ![d] = TRUE]
    BY Zenon DEF Cont, vars, procs, HEvars
  <1>2. online' \in [Devices -> BOOLEAN] /\ online'[d]
    BY <1>0, <1>1, Zenon DEF EqTyped
  <1>3. \A e \in Devices : ~online'[e] => ~online[e]
    BY <1>0, <1>1, Zenon DEF EqTyped
  <1>4. CASE /\ eq' = [pc |-> "gone", todo |-> {}, cur |-> NoDev]
             /\ UNCHANGED stopped
    <2>1. /\ eq' \in [pc : EqPC, todo : SUBSET Devices, cur : Devices \cup {NoDev}]
          /\ eq'.pc # "continued"
      BY <1>4, Zenon DEF EqPC
    <2> QED
      BY <1>0, <1>1, <1>2, <1>3, <1>4, <2>1, PassingKeeps, Zenon
  <1>5. CASE Advance(d) /\ UNCHANGED stopped
    <2>1. NextVisit
      BY <1>5, Zenon DEF Advance
    <2> QED
      BY <1>0, <1>1, <1>2, <1>3, <1>5, <2>1, NextVisitType, PassingKeeps, Zenon
  <1>6. CASE /\ stopped' = [q \in Procs |-> stopped[q] /\ q # HE[d].PID]
             /\ eq' = [eq EXCEPT !.pc = "continued"]
    <2>1. /\ eq' \in [pc : EqPC, todo : SUBSET Devices, cur : Devices \cup {NoDev}]
          /\ eq'.pc = "continued" /\ eq'.cur = d
      BY <1>0, <1>6, GotoType, Zenon DEF EqPC
    <2>2. /\ stopped' \in [Procs -> BOOLEAN]
          /\ \A q \in Procs : stopped'[q] => stopped[q] /\ q # HE[d].PID
      BY <1>0, <1>6, Zenon DEF EqTyped
    <2>3. EqTyped'
      BY <1>0, <1>1, <1>2, <2>1, <2>2, Zenon DEF EqTyped
    <2>4. ASSUME NEW e \in Devices PROVE Known(e)' /\ Continued(e)'
      <3>1. Known(e)
        BY Zenon DEF KnownInv
      <3> QED
        BY <1>0, <1>1, <1>2, <1>3, <2>1, <2>2, <3>1, Zenon
        DEF Known, Continued, Marked
    <2> QED
      BY <1>1, <2>2, <2>3, <2>4, Zenon DEF KnownInv
  <1> QED
    BY <1>4, <1>5, <1>6, Zenon DEF Cont

(* The flag is cleared, of a process that has been continued.               *)
LEMMA MarkContKeeps ==
    ASSUME KnownInv, NEW d \in Devices, MarkCont(d)
    PROVE  KnownInv'
  <1>0. EqTyped /\ eq.cur = d /\ eq.pc = "continued"
    BY Zenon DEF KnownInv, MarkCont, EqAt
  <1>1. /\ UNCHANGED <<HE, pc, stopped, online>> /\ NextVisit
        /\ equaliser_halt' = [equaliser_halt EXCEPT ![d] = 0]
    BY Zenon DEF MarkCont, Advance, vars, procs
  <1>2. /\ eq' \in [pc : EqPC, todo : SUBSET Devices, cur : Devices \cup {NoDev}]
        /\ eq'.cur = NoDev /\ eq'.pc # "continued"
    BY <1>0, <1>1, NextVisitType, Zenon
  <1>3. EqTyped'
    BY <1>0, <1>1, <1>2, Zenon DEF EqTyped
  <1>4. ASSUME NEW e \in Devices PROVE Known(e)' /\ Continued(e)'
    <2>1. Known(e) /\ Continued(e)
      BY Zenon DEF KnownInv
    <2>2. e # d => equaliser_halt'[e] = equaliser_halt[e]
      BY <1>0, <1>1, Zenon DEF EqTyped
    <2> QED
      BY <1>0, <1>1, <1>2, <2>1, <2>2, Zenon DEF Known, Continued, Marked
  <1> QED
    BY <1>1, <1>3, <1>4, Zenon DEF KnownInv

(* The exercisers and the daemon stop no process.                           *)
LEMMA ProcessesKeep ==
    ASSUME KnownInv, TypeOK, NEW p \in Procs,
           BeginStart(p) \/ EndStart(p) \/ Completes(p) \/ Runs(p) \/ Dies(p)
             \/ Reaps(p)
    PROVE  KnownInv'
  <1>1. \A d \in Devices : HE[d].PID \in Procs \cup {NoProc}
    BY Zenon DEF TypeOK, Entry
  <1>2. /\ UNCHANGED <<equaliser_halt, online, eq>>
        /\ UNCHANGED stopped \/ stopped' = [stopped EXCEPT ![p] = FALSE]
    BY Zenon DEF BeginStart, EndStart, Completes, Runs, Dies, Reaps, HEvars, eqvars
  <1>3. /\ stopped' \in [Procs -> BOOLEAN]
        /\ \A q \in Procs : stopped'[q] => stopped[q]
    BY <1>2, Zenon DEF KnownInv, EqTyped
  <1>4. KeepsPIDs /\ KeepsUsed
    <2>1. CASE BeginStart(p)
      BY <2>1, Zenon DEF BeginStart, KeepsPIDs, KeepsUsed, vars, procs
    <2>2. CASE EndStart(p) \/ Completes(p) \/ Runs(p) \/ Dies(p) \/ Reaps(p)
      <3>1. Exerciser(p)
        BY <2>2, Zenon DEF EndStart, Completes, Runs, Proceeds, Dies, Reaps,
                           Exerciser, InCall
      <3> QED
        BY <3>1, ExerciserKeeps, Zenon
    <2> QED
      BY <2>1, <2>2, Zenon
  <1> QED
    BY <1>1, <1>2, <1>3, <1>4, OthersKeep, Zenon

(* The daemon stops no process.                                             *)
LEMMA DaemonKeeps ==
    ASSUME KnownInv, TypeOK, Daemon
    PROVE  KnownInv'
  <1>1. \A d \in Devices : HE[d].PID \in Procs \cup {NoProc}
    BY Zenon DEF TypeOK, Entry
  <1>2. UNCHANGED <<equaliser_halt, online, eq, stopped>>
    BY Zenon DEF Daemon, HEvars, eqvars
  <1>3. KeepsPIDs /\ KeepsUsed
    BY CommandKeeps, WatchKeeps, Zenon DEF Daemon
  <1>4. stopped' \in [Procs -> BOOLEAN]
    BY <1>2, Zenon DEF KnownInv, EqTyped
  <1> QED
    BY <1>1, <1>2, <1>3, <1>4, OthersKeep, Zenon

(* The steps of the equaliser.                                              *)
LEMMA EqualiserKeeps ==
    ASSUME KnownInv, TypeOK, EntryNamesItsProcess, EqualiserStep
    PROVE  KnownInv'
  <1>1. \A d \in Devices : HE[d].PID \in Procs \cup {NoProc}
    BY Zenon DEF TypeOK, Entry
  <1>2. Offline \in BOOLEAN
    BY EqualiserAssumption, Zenon
  <1>3. CASE Quantum
    <2>1. /\ eq' \in [pc : EqPC, todo : SUBSET Devices, cur : Devices \cup {NoDev}]
          /\ eq'.pc # "continued" /\ eq.pc # "halted"
      BY <1>3, Zenon DEF Quantum, EqPC, EqAt
    <2>2. UNCHANGED <<vars, stopped, equaliser_halt, online>>
      BY <1>3, Zenon DEF Quantum, HEvars
    <2> QED
      BY <2>1, <2>2, PassingKeeps, Zenon DEF KnownInv, EqTyped
  <1>4. ASSUME NEW d \in Devices,
               \/ Visit(d) \/ TestSem0(d) \/ TestErr(d) \/ Decide(d)
               \/ Stop(d) \/ MarkHalt(d) \/ Cont(d) \/ MarkCont(d)
        PROVE  KnownInv'
    BY <1>1, <1>2, <1>4, TestsKeep, StopKeeps, MarkHaltKeeps, ContKeeps,
       MarkContKeeps, Zenon
  <1> QED
    BY <1>3, <1>4, Zenon DEF EqualiserStep

(* For any number of devices, exercisers and sessions, with restarts: a     *)
(* stopped exerciser, or one whose CPU is offline, is marked as halted by   *)
(* the equaliser in its entry, or is about to be (htxd_equaliser).          *)
THEOREM HaltKnown == EqSpec => []HaltIsKnown
  <1>1. EqInit => KnownInv
    <2> SUFFICES ASSUME EqInit PROVE KnownInv
      BY Zenon
    <2>1. EqTyped
      BY Zenon DEF EqInit, EqTyped, EqPC
    <2>2. \A p \in Procs : ~stopped[p]
      BY Zenon DEF EqInit
    <2>3. \A d \in Devices : HE[d].PID \in Procs \cup {NoProc}
      BY InitType, Zenon DEF EqInit, TypeInv, TypeOK, Entry
    <2>4. ASSUME NEW d \in Devices PROVE Known(d) /\ Continued(d)
      BY <2>2, <2>3, Zenon DEF EqInit, Known, Continued
    <2> QED
      BY <2>1, <2>2, <2>4, Zenon DEF KnownInv
  <1>2. KnownInv /\ TypeOK /\ EntryNamesItsProcess /\ [EqNext]_allvars => KnownInv'
    <2> SUFFICES ASSUME KnownInv, TypeOK, EntryNamesItsProcess, [EqNext]_allvars
                 PROVE  KnownInv'
      BY Zenon
    <2>1. CASE UNCHANGED allvars
      <3>1. UNCHANGED <<HE, pc, stopped, equaliser_halt, online, eq>>
        BY <2>1, Zenon DEF allvars, vars, procs, eqvars, HEvars
      <3> QED
        BY <3>1, Zenon DEF KnownInv, EqTyped, Known, Continued, Marked
    <2> QED
      BY <2>1, ProcessesKeep, DaemonKeeps, EqualiserKeeps, Zenon DEF EqNext
  <1>3. KnownInv => HaltIsKnown
    BY Zenon DEF KnownInv, Known, HaltIsKnown
  <1> QED
    BY <1>1, <1>2, <1>3, EqualiserIsDeviceControl, TypeCorrect,
       EntryConsistent, PTL DEF EqSpec

-----------------------------------------------------------------------------
(***************************************************************************)
(* The share of 1 bits.  A pattern keeps its number of 1 bits through each *)
(* exchange of shuffle_pattern, hence through all of them, and the loop of *)
(* reset_utilization_queue has put in as many as the target asks for.      *)
(***************************************************************************)

(* Induction, for a set of natural numbers.                                 *)
LEMMA SetInduction ==
    ASSUME NEW T, 0 \in T, \A m \in Nat : m \in T => m + 1 \in T
    PROVE  Nat \subseteq T
  <1> DEFINE U == Nat \ T
  <1>1. SUFFICES ASSUME U # {} PROVE FALSE
    BY Zenon
  <1>2. \E x \in U : \A y \in U : ~ (<<y, x>> \in OpToRel(<, Nat))
    BY <1>1, WFMin, NatLessThanWellFounded, Zenon
  <1>3. PICK x \in U : \A y \in U : ~ (<<y, x>> \in OpToRel(<, Nat))
    BY <1>2, Zenon
  <1>4. x \in Nat /\ x # 0
    BY Zenon
  <1>5. x - 1 \in Nat /\ x - 1 < x /\ (x - 1) + 1 = x
    BY <1>4
  <1>6. <<x - 1, x>> \in OpToRel(<, Nat)
    BY <1>4, <1>5 DEF OpToRel
  <1>7. x - 1 \in T
    BY <1>3, <1>5, <1>6, Zenon
  <1> QED BY <1>5, <1>7, Zenon

(* One exchange keeps the number of 1 bits.                                 *)
LEMMA ExchangeKeepsShare ==
    ASSUME NEW S, IsFiniteSet(S), NEW f, NEW g
    PROVE  /\ IsFiniteSet(Exchange(S, f, g))
           /\ Cardinality(Exchange(S, f, g)) = Cardinality(S)
           /\ Exchange(S, f, g) \subseteq S \cup {f, g}
  <1>1. CASE f \in S <=> g \in S
    <2>1. Exchange(S, f, g) = S
      BY <1>1 DEF Exchange
    <2> QED BY <2>1, Zenon
  <1>2. ASSUME NEW a \in S, NEW b, b \notin S, Exchange(S, f, g) = (S \ {a}) \cup {b},
               b \in {f, g}
        PROVE  /\ IsFiniteSet(Exchange(S, f, g))
               /\ Cardinality(Exchange(S, f, g)) = Cardinality(S)
               /\ Exchange(S, f, g) \subseteq S \cup {f, g}
    <2>1. IsFiniteSet(S \ {a}) /\ Cardinality(S \ {a}) = Cardinality(S) - 1
      BY <1>2, FS_RemoveElement, Zenon
    <2>2. b \notin S \ {a}
      BY <1>2, Zenon
    <2>3. /\ IsFiniteSet((S \ {a}) \cup {b})
          /\ Cardinality((S \ {a}) \cup {b}) = Cardinality(S \ {a}) + 1
      BY <2>1, <2>2, FS_AddElement, Zenon
    <2>4. Cardinality(S) \in Nat
      BY FS_CardinalityType, Zenon
    <2>5. (Cardinality(S) - 1) + 1 = Cardinality(S)
      BY <2>4
    <2>6. (S \ {a}) \cup {b} \subseteq S \cup {f, g}
      BY <1>2, Zenon
    <2> QED BY <1>2, <2>1, <2>3, <2>5, <2>6, Zenon
  <1>3. CASE f \in S /\ g \notin S
    <2>1. Exchange(S, f, g) = (S \ {f}) \cup {g}
      BY <1>3 DEF Exchange
    <2> QED BY <1>2, <1>3, <2>1, Zenon
  <1>4. CASE g \in S /\ f \notin S
    <2>1. Exchange(S, f, g) = (S \ {g}) \cup {f}
      BY <1>4 DEF Exchange
    <2> QED BY <1>2, <1>4, <2>1, Zenon
  <1> QED BY <1>1, <1>3, <1>4, Zenon

(* The patterns after f exchanges, from those after f - 1.                  *)
Exchanged(n, pattern, h, f) ==
    IF f = 0 THEN {pattern}
    ELSE {Exchange(S, f - 1, g) : S \in h[f - 1], g \in (f - 1)..(n - 1)}

(* What it says of the first and of the later exchanges.                    *)
LEMMA ExchangedFirst ==
    ASSUME NEW n, NEW pattern, NEW h
    PROVE  Exchanged(n, pattern, h, 0) = {pattern}
  BY DEF Exchanged

LEMMA ExchangedNext ==
    ASSUME NEW n, NEW pattern, NEW h, NEW f \in Nat,
           NEW S \in Exchanged(n, pattern, h, f + 1)
    PROVE  \E R \in h[f] : \E g \in f..(n - 1) : S = Exchange(R, f, g)
  <1>1. f + 1 # 0 /\ (f + 1) - 1 = f
    OBVIOUS
  <1>2. S \in {Exchange(R, f, g) : R \in h[f], g \in f..(n - 1)}
    BY <1>1 DEF Exchanged
  <1> QED BY <1>2

(* The patterns before decide.                                              *)
LEMMA ExchangedSame ==
    ASSUME NEW n, NEW pattern, NEW h, NEW k, NEW f, f = 0 \/ h[f - 1] = k[f - 1]
    PROVE  Exchanged(n, pattern, k, f) = Exchanged(n, pattern, h, f)
  <1>1. CASE f = 0
    BY <1>1, ExchangedFirst, Zenon
  <1>2. CASE h[f - 1] = k[f - 1]
    BY <1>2 DEF Exchanged
  <1> QED BY <1>1, <1>2, Zenon

(* The recursion that defines Shuffles has a solution.                      *)
LEMMA ExchangesDefined ==
    ASSUME NEW n \in Nat, NEW pattern
    PROVE  \E h : h = [f \in 0..n |-> Exchanged(n, pattern, h, f)]
  <1> DEFINE Solves(h, m) == h = [f \in 0..m |-> Exchanged(n, pattern, h, f)]
             T == {m \in Nat : \E h : Solves(h, m)}
  <1>1. 0 \in T
    <2> DEFINE h == [f \in 0..0 |-> {pattern}]
    <2>1. \A f \in 0..0 : Exchanged(n, pattern, h, f) = {pattern}
      <3>1. \A f \in 0..0 : f = 0
        OBVIOUS
      <3> QED BY <3>1, ExchangedFirst, Zenon
    <2> HIDE DEF h
    <2>2. Solves(h, 0)
      BY <2>1, Zenon DEF h
    <2> QED BY <2>2, Zenon
  <1>2. ASSUME NEW m \in Nat, m \in T PROVE m + 1 \in T
    <2>1. PICK h : Solves(h, m)
      BY <1>2, Zenon
    <2> DEFINE k == [f \in 0..(m + 1) |-> IF f = m + 1 THEN Exchanged(n, pattern, h, m + 1)
                                          ELSE h[f]]
    <2>2. \A f \in 0..m : k[f] = h[f]
      OBVIOUS
    <2>3. ASSUME NEW f \in 0..(m + 1) PROVE Exchanged(n, pattern, k, f) = Exchanged(n, pattern, h, f)
      <3>1. f = 0 \/ f - 1 \in 0..m
        OBVIOUS
      <3> HIDE DEF k
      <3> QED BY <2>2, <3>1, ExchangedSame, Zenon
    <2>4. ASSUME NEW f \in 0..(m + 1) PROVE k[f] = Exchanged(n, pattern, k, f)
      <3>1. CASE f = m + 1
        <4>1. k[f] = Exchanged(n, pattern, h, m + 1)
          BY <3>1, Zenon
        <4> QED BY <2>3, <3>1, <4>1, Zenon
      <3>2. CASE f # m + 1
        <4>1. f \in 0..m
          BY <3>2
        <4>2. h[f] = Exchanged(n, pattern, h, f)
          BY <2>1, <4>1, Zenon
        <4> QED BY <2>2, <2>3, <4>1, <4>2, Zenon
      <3> QED BY <3>1, <3>2, Zenon
    <2> HIDE DEF k
    <2>5. k = [f \in 0..(m + 1) |-> k[f]]
      BY Zenon DEF k
    <2>6. Solves(k, m + 1)
      BY <2>4, <2>5, Zenon
    <2>7. m + 1 \in Nat
      OBVIOUS
    <2> QED BY <2>6, <2>7, Zenon
  <1> HIDE DEF T
  <1>3. Nat \subseteq T
    BY <1>1, <1>2, SetInduction, Zenon
  <1> QED BY <1>3, Zenon DEF T

(* A shuffle keeps the number of 1 bits of the pattern.                     *)
LEMMA ShufflesKeepShare ==
    ASSUME NEW n \in Nat, NEW pattern, pattern \subseteq 0..(n - 1),
           NEW P \in Shuffles(n, pattern)
    PROVE  P \subseteq 0..(n - 1) /\ Cardinality(P) = Cardinality(pattern)
  <1> DEFINE after == CHOOSE h : h = [f \in 0..n |-> Exchanged(n, pattern, h, f)]
             Fair(S) == /\ S \subseteq 0..(n - 1) /\ IsFiniteSet(S)
                        /\ Cardinality(S) = Cardinality(pattern)
             T == {f \in Nat : f <= n => \A S \in after[f] : Fair(S)}
  <1>1. Shuffles(n, pattern) = after[n]
    BY DEF Shuffles, Exchanged
  <1>2. after = [f \in 0..n |-> Exchanged(n, pattern, after, f)]
    BY ExchangesDefined, Zenon
  <1> HIDE DEF after
  <1>3. IsFiniteSet(pattern)
    <2>1. IsFiniteSet(0..(n - 1))
      BY FS_Interval
    <2> QED BY <2>1, FS_Subset, Zenon
  <1>4. 0 \in T
    <2>1. after[0] = Exchanged(n, pattern, after, 0)
      BY <1>2
    <2>2. after[0] = {pattern}
      BY <2>1, ExchangedFirst, Zenon
    <2> QED BY <1>3, <2>2, Zenon
  <1>5. ASSUME NEW f \in Nat, f \in T PROVE f + 1 \in T
    <2>0. f + 1 \in Nat
      OBVIOUS
    <2> SUFFICES ASSUME f + 1 <= n, NEW S \in after[f + 1] PROVE Fair(S)
      BY <2>0, Zenon
    <2>1. f + 1 \in 0..n /\ f + 1 # 0 /\ (f + 1) - 1 = f /\ f <= n
      OBVIOUS
    <2>2. after[f + 1] = Exchanged(n, pattern, after, f + 1)
      BY <1>2, <2>1, Zenon
    <2>3. PICK R \in after[f] : \E g \in f..(n - 1) : S = Exchange(R, f, g)
      <3>1. S \in Exchanged(n, pattern, after, f + 1)
        BY <2>2, Zenon
      <3> QED BY ONLY <3>1, f \in Nat, ExchangedNext
    <2> PICK g \in f..(n - 1) : S = Exchange(R, f, g)
      BY <2>3, Zenon
    <2>4. Fair(R)
      BY <1>5, <2>1, Zenon
    <2>5. f \in 0..(n - 1) /\ g \in 0..(n - 1)
      BY <2>1
    <2>6. /\ IsFiniteSet(S) /\ Cardinality(S) = Cardinality(R)
          /\ S \subseteq R \cup {f, g}
      BY <2>4, ExchangeKeepsShare, Zenon
    <2>7. S \subseteq 0..(n - 1)
      BY <2>4, <2>5, <2>6, Zenon
    <2> QED BY <2>4, <2>6, <2>7, Zenon
  <1> HIDE DEF T
  <1>6. n \in T
    BY <1>4, <1>5, SetInduction, Zenon
  <1>7. n <= n
    OBVIOUS
  <1> QED BY <1>1, <1>6, <1>7, Zenon DEF T

(* The target is at most the length of the pattern.                         *)
LEMMA TargetFits ==
    ASSUME NEW d \in Devices, NEW i \in DOMAIN Config[d].utilization_sequence
    PROVE  target_active(d, i) \in 0..Config[d].pattern_length
  <1>1. /\ Config[d].pattern_length \in 1..32
        /\ Config[d].utilization_sequence \in Seq(0..100)
    BY EqualiserAssumption, Zenon DEF Utilization
  <1>2. ASSUME NEW U, NEW q \in Seq(U), NEW j \in DOMAIN q PROVE q[j] \in U
    OBVIOUS
  <1>3. ASSUME NEW u \in 0..100, NEW n \in 1..32 PROVE (u * n) \div 100 \in 0..n
    <2>1. 100 - u \in Nat /\ u \in Nat /\ n \in Nat
      OBVIOUS
    <2>2. (100 - u) * n \in Nat /\ u * n \in Nat
      BY ONLY <2>1
    <2>3. (100 - u) * n = 100 * n - u * n
      BY ONLY <2>1
    <2> QED BY ONLY <2>1, <2>2, <2>3
  <1>4. Config[d].utilization_sequence[i] \in 0..100
    BY <1>1, <1>2, Zenon
  <1> QED
    BY <1>1, <1>3, <1>4, Zenon DEF target_active

(* The loops of reset_utilization_queue set as many bits as they have steps. *)
LEMMA LoopsSetTarget ==
    ASSUME NEW n \in Nat, NEW k \in 0..n
    PROVE  /\ {n - j : j \in 1..k} \subseteq 0..(n - 1)
           /\ {k - j : j \in 1..k} \subseteq 0..(n - 1)
           /\ Cardinality({n - j : j \in 1..k}) = k
           /\ Cardinality({k - j : j \in 1..k}) = k
  <1>1. ASSUME NEW m \in k..n
        PROVE  {m - j : j \in 1..k} \subseteq 0..(n - 1) /\ Cardinality({m - j : j \in 1..k}) = k
    <2>1. {m - j : j \in 1..k} = (m - k)..(m - 1)
      <3>1. ASSUME NEW i \in (m - k)..(m - 1) PROVE m - i \in 1..k /\ i = m - (m - i)
        OBVIOUS
      <3> QED BY <3>1
    <2>2. Cardinality((m - k)..(m - 1)) = k
      BY FS_Interval
    <2>3. (m - k)..(m - 1) \subseteq 0..(n - 1)
      OBVIOUS
    <2> QED BY <2>1, <2>2, <2>3, Zenon
  <1>2. n \in k..n /\ k \in k..n
    OBVIOUS
  <1> QED BY <1>1, <1>2, Zenon

(* Whatever the kind of the pattern, it gets the target number of 1 bits.   *)
LEMMA ResetSetsTarget ==
    ASSUME NEW d \in Devices, NEW i \in DOMAIN Config[d].utilization_sequence,
           NEW P \in reset_utilization_queue(d, i)
    PROVE  /\ P \subseteq 0..(Config[d].pattern_length - 1)
           /\ Config[d].util_pattern # "PATTERN" => Cardinality(P) = target_active(d, i)
  <1> DEFINE n == Config[d].pattern_length
             k == target_active(d, i)
             left == {n - j : j \in 1..k}
             right == {k - j : j \in 1..k}
  <1>1. n \in 1..32 /\ Config[d].util_pattern \in {"LEFT", "RIGHT", "RANDOM", "PATTERN"}
    BY EqualiserAssumption, Zenon DEF Utilization
  <1>2. n \in Nat /\ k \in 0..n
    BY <1>1, TargetFits
  <1>3. /\ left \subseteq 0..(n - 1) /\ Cardinality(left) = k
        /\ right \subseteq 0..(n - 1) /\ Cardinality(right) = k
    BY <1>2, LoopsSetTarget, Zenon
  <1>4. CASE Config[d].util_pattern = "PATTERN"
    <2>1. reset_utilization_queue(d, i) = {Config[d].bits}
      BY <1>4 DEF reset_utilization_queue
    <2> QED BY <1>4, <2>1, EqualiserAssumption, Zenon
  <1>5. CASE Config[d].util_pattern = "LEFT"
    <2>1. reset_utilization_queue(d, i) = {left}
      BY <1>5 DEF reset_utilization_queue
    <2> QED BY <1>3, <2>1, Zenon
  <1>6. CASE Config[d].util_pattern = "RIGHT"
    <2>1. reset_utilization_queue(d, i) = {right}
      BY <1>6 DEF reset_utilization_queue
    <2> QED BY <1>3, <2>1, Zenon
  <1>7. CASE Config[d].util_pattern = "RANDOM"
    <2>1. reset_utilization_queue(d, i) = Shuffles(n, left)
      BY <1>7 DEF reset_utilization_queue
    <2> HIDE DEF left, k, n
    <2>2. P \subseteq 0..(n - 1) /\ Cardinality(P) = Cardinality(left)
      <3>1. P \in Shuffles(n, left)
        BY <2>1, Zenon
      <3>2. n \in Nat /\ left \subseteq 0..(n - 1)
        BY <1>2, <1>3, Zenon
      <3> QED BY ONLY <3>1, <3>2, ShufflesKeepShare, Zenon
    <2> QED BY <1>3, <2>2, Zenon DEF k, n
  <1> QED BY <1>1, <1>4, <1>5, <1>6, <1>7

(* A pass through the pattern meets each of its bits once.                  *)
LEMMA PassMeetsBits ==
    ASSUME NEW d \in Devices,
           data[d].utilization_pattern \subseteq 0..(Config[d].pattern_length - 1)
    PROVE  Cardinality({s \in 0..(Config[d].pattern_length - 1) : action(d, s) = 1})
             = Cardinality(data[d].utilization_pattern)
  <1> DEFINE n == Config[d].pattern_length
             P == data[d].utilization_pattern
             A == {s \in 0..(n - 1) : action(d, s) = 1}
             b == [s \in A |-> n - (s + 1)]
  <1>1. n \in 1..32
    BY EqualiserAssumption, Zenon DEF Utilization
  <1>2. A = {s \in 0..(n - 1) : n - (s + 1) \in P}
    BY DEF action
  <1> HIDE DEF A, n, P
  <1>3. \A s \in A : s \in Int /\ n - (s + 1) \in P
    BY <1>1, <1>2
  <1>4. \A s, t \in A : n - (s + 1) = n - (t + 1) => s = t
    BY <1>1, <1>3
  <1>5. \A i \in P : n - (i + 1) \in A /\ n - ((n - (i + 1)) + 1) = i
    BY <1>1, <1>2 DEF n, P
  <1>6. b \in Bijection(A, P)
    <2>1. b \in [A -> P]
      BY <1>3
    <2>2. \A s, t \in A : b[s] = b[t] => s = t
      BY <1>4
    <2>3. \A i \in P : \E s \in A : b[s] = i
      BY <1>5
    <2> HIDE DEF b
    <2> QED BY <2>1, <2>2, <2>3 DEF Bijection, Injection, Surjection, IsInjective
  <1>7. IsFiniteSet(A)
    <2>1. IsFiniteSet(0..(n - 1))
      BY <1>1, FS_Interval
    <2>2. A \subseteq 0..(n - 1)
      BY <1>2
    <2> QED BY <2>1, <2>2, FS_Subset, Zenon
  <1>8. ExistsBijection(A, P)
    BY <1>6, Zenon DEF ExistsBijection
  <1>9. Cardinality(P) = Cardinality(A)
    BY <1>7, <1>8, FS_Bijection, Zenon
  <1> QED BY <1>9, Zenon DEF A, P, n

Shared(d) ==
    /\ data[d] \in RunTimeData(d)
    /\ Config[d].util_pattern # "PATTERN" =>
         Cardinality(data[d].utilization_pattern)
           = target_active(d, data[d].current_seq_step)

ShareInv ==
    /\ data \in [Devices -> UNION {RunTimeData(d) : d \in Devices}]
    /\ \A d \in Devices : Shared(d)

(* The step after the last of a pattern takes the next target of the        *)
(* sequence, and a pattern made for it; with one target the pattern is kept. *)
LEMMA AdvanceKeepsShare ==
    ASSUME ShareInv, NEW d \in Devices, Advance(d)
    PROVE  ShareInv'
  <1> DEFINE c == Config[d]
             x == data[d]
             L == Len(c.utilization_sequence)
             step == (x.current_step + 1) % c.pattern_length
             seq == (x.current_seq_step % L) + 1
             ends == step = 0 /\ c.util_pattern # "PATTERN"
             next == IF ends THEN seq ELSE x.current_seq_step
             fresh == ends /\ (L > 1 \/ c.util_pattern = "RANDOM")
  <1>1. PICK P \in (IF fresh THEN reset_utilization_queue(d, seq) ELSE {x.utilization_pattern}) :
          data' = [data EXCEPT ![d] = [current_step |-> step, current_seq_step |-> next,
                                       utilization_pattern |-> P]]
    BY Zenon DEF Advance
  <1>2. /\ c.pattern_length \in 1..32
        /\ c.utilization_sequence \in Seq(0..100) /\ c.utilization_sequence # <<>>
    BY EqualiserAssumption, Zenon DEF Utilization
  <1>3. L \in Nat /\ L # 0 /\ DOMAIN c.utilization_sequence = 1..L
    <2>1. ASSUME NEW U, NEW q \in Seq(U), q # <<>>
          PROVE  Len(q) \in Nat /\ Len(q) # 0 /\ DOMAIN q = 1..Len(q)
      BY <2>1
    <2> QED BY <1>2, <2>1, Zenon
  <1>4. x \in RunTimeData(d) /\ Shared(d)
    BY Zenon DEF ShareInv, Shared
  <1>5. /\ x.current_step \in 0..(c.pattern_length - 1) /\ x.current_seq_step \in 1..L
        /\ x.utilization_pattern \in SUBSET (0..(c.pattern_length - 1))
    BY <1>3, <1>4, Zenon DEF RunTimeData
  <1>6. step \in 0..(c.pattern_length - 1)
    <2>1. ASSUME NEW n \in 1..32, NEW i \in 0..(n - 1) PROVE (i + 1) % n \in 0..(n - 1)
      OBVIOUS
    <2> QED BY <1>2, <1>5, <2>1, Zenon
  <1>7. seq \in 1..L /\ (L <= 1 => seq = x.current_seq_step)
    <2>1. ASSUME NEW n \in Nat, n # 0, NEW i \in 1..n
          PROVE  (i % n) + 1 \in 1..n /\ (n <= 1 => (i % n) + 1 = i)
      BY <2>1
    <2> QED BY <1>3, <1>5, <2>1, Zenon
  <1>8. next \in DOMAIN c.utilization_sequence /\ seq \in DOMAIN c.utilization_sequence
    BY <1>3, <1>5, <1>7, Zenon
  <1>9. /\ P \in SUBSET (0..(c.pattern_length - 1))
        /\ c.util_pattern # "PATTERN" => Cardinality(P) = target_active(d, next)
    <2>1. CASE fresh
      <3>1. P \in reset_utilization_queue(d, seq) /\ next = seq
        BY <2>1, Zenon
      <3> QED BY <1>8, <3>1, ResetSetsTarget, Zenon
    <2>2. CASE ~fresh
      <3>1. P = x.utilization_pattern
        BY <1>1, <2>2, Zenon
      <3>2. c.util_pattern # "PATTERN" => next = x.current_seq_step
        <4>1. CASE ends
          <5>1. ~(L > 1)
            BY <2>2, <4>1, Zenon
          <5>2. L <= 1
            BY <1>3, <5>1
          <5> QED BY <1>7, <5>2, Zenon
        <4> QED BY <4>1, Zenon
      <3> QED BY <1>4, <1>5, <3>1, <3>2, Zenon DEF Shared
    <2> QED BY <2>1, <2>2, Zenon
  <1> DEFINE r == [current_step |-> step, current_seq_step |-> next, utilization_pattern |-> P]
  <1> HIDE DEF c, x, L, step, seq, ends, next, fresh
  <1>10. r \in RunTimeData(d)
    BY <1>6, <1>8, <1>9, Zenon DEF RunTimeData, c
  <1>11. r.current_seq_step = next /\ r.utilization_pattern = P
    BY Zenon
  <1> HIDE DEF r
  <1>12. data' = [data EXCEPT ![d] = r]
    BY <1>1, Zenon DEF r
  <1>13. data \in [Devices -> UNION {RunTimeData(e) : e \in Devices}]
    BY Zenon DEF ShareInv
  <1>14. data' \in [Devices -> UNION {RunTimeData(e) : e \in Devices}]
    BY <1>10, <1>12, <1>13, Zenon
  <1>15. data'[d] = r /\ \A e \in Devices : e # d => data'[e] = data[e]
    BY <1>12, <1>13, Zenon
  <1>16. Shared(d)'
    BY <1>9, <1>10, <1>11, <1>15, Zenon DEF Shared, RunTimeData, target_active, c
  <1>17. ASSUME NEW e \in Devices, e # d PROVE Shared(e)'
    BY <1>15, <1>17, Zenon DEF ShareInv, Shared, RunTimeData, target_active
  <1> QED BY <1>14, <1>16, <1>17, Zenon DEF ShareInv, RunTimeData

(* For any devices, patterns and sequences of targets: of the steps of a    *)
(* pass through the pattern as many are active as the target asks for,      *)
(* after any shuffle (shuffle_pattern, reset_utilization_queue).            *)
THEOREM ShareKept == EqSpec => []ShareIsTarget
  <1>1. EqInit => ShareInv
    <2> SUFFICES ASSUME EqInit PROVE ShareInv
      BY Zenon
    <2>1. ASSUME NEW d \in Devices, NEW y \in InitialData(d)
          PROVE  /\ y \in RunTimeData(d)
                 /\ Config[d].util_pattern # "PATTERN" =>
                      Cardinality(y.utilization_pattern) = target_active(d, y.current_seq_step)
      <3>1. PICK P \in reset_utilization_queue(d, 1) :
              y = [current_step |-> 0, current_seq_step |-> 1, utilization_pattern |-> P]
        BY Zenon DEF InitialData
      <3>2. /\ Config[d].pattern_length \in 1..32
            /\ Config[d].utilization_sequence \in Seq(0..100)
            /\ Config[d].utilization_sequence # <<>>
        BY EqualiserAssumption, Zenon DEF Utilization
      <3>3. 1 \in DOMAIN Config[d].utilization_sequence
        <4>1. ASSUME NEW U, NEW q \in Seq(U), q # <<>> PROVE 1 \in DOMAIN q
          BY <4>1
        <4> QED BY <3>2, <4>1, Zenon
      <3>4. 0 \in 0..(Config[d].pattern_length - 1)
        <4>1. \A n \in 1..32 : 0 \in 0..(n - 1)
          OBVIOUS
        <4> QED BY <3>2, <4>1, Zenon
      <3>5. /\ P \in SUBSET (0..(Config[d].pattern_length - 1))
            /\ Config[d].util_pattern # "PATTERN" => Cardinality(P) = target_active(d, 1)
        BY <3>3, ResetSetsTarget, Zenon
      <3> QED BY <3>1, <3>3, <3>4, <3>5, Zenon DEF RunTimeData
    <2>2. \A d \in Devices : Shared(d)
      BY <2>1, Zenon DEF EqInit, Shared
    <2>3. data \in [Devices -> UNION {InitialData(d) : d \in Devices}]
      BY Zenon DEF EqInit
    <2>4. data \in [Devices -> UNION {RunTimeData(d) : d \in Devices}]
      BY <2>1, <2>3, Zenon
    <2> QED BY <2>2, <2>4, Zenon DEF ShareInv
  <1>2. ShareInv /\ [EqNext]_allvars => ShareInv'
    <2> SUFFICES ASSUME ShareInv, [EqNext]_allvars PROVE ShareInv'
      BY Zenon
    <2>1. CASE UNCHANGED data
      BY <2>1, Zenon DEF ShareInv, Shared, RunTimeData, target_active
    <2>2. UNCHANGED data \/ \E d \in Devices : Advance(d)
      <3>1. CASE UNCHANGED allvars
        BY <3>1, Zenon DEF allvars, eqvars
      <3>2. ASSUME NEW p \in Procs,
                   \/ BeginStart(p) \/ EndStart(p) \/ Completes(p)
                   \/ Runs(p) \/ Dies(p) \/ Reaps(p)
            PROVE  UNCHANGED data
        BY <3>2, Zenon DEF BeginStart, EndStart, Completes, Runs, Dies, Reaps, eqvars
      <3>3. CASE Daemon
        BY <3>3, Zenon DEF Daemon, eqvars
      <3>4. CASE EqualiserStep
        BY <3>4, Zenon DEF EqualiserStep, Quantum, Visit, TestSem0, TestErr, TestSem,
                           Decide, Stop, MarkHalt, Cont, MarkCont
      <3> QED BY <3>1, <3>2, <3>3, <3>4, Zenon DEF EqNext
    <2> QED BY <2>1, <2>2, AdvanceKeepsShare, Zenon
  <1>3. ShareInv => ShareIsTarget
    <2> SUFFICES ASSUME ShareInv, NEW d \in Devices, Config[d].util_pattern # "PATTERN"
                 PROVE  Cardinality({s \in 0..(Config[d].pattern_length - 1) : action(d, s) = 1})
                          = target_active(d, data[d].current_seq_step)
      BY Zenon DEF ShareIsTarget
    <2>1. data[d].utilization_pattern \subseteq 0..(Config[d].pattern_length - 1)
      BY Zenon DEF ShareInv, Shared, RunTimeData
    <2>2. Cardinality(data[d].utilization_pattern) = target_active(d, data[d].current_seq_step)
      BY Zenon DEF ShareInv, Shared
    <2> QED BY <2>1, <2>2, PassMeetsBits, Zenon
  <1> QED
    BY <1>1, <1>2, <1>3, PTL DEF EqSpec
=============================================================================
