--------------------------- MODULE DeviceControl ---------------------------
(***************************************************************************)
(* The devices of one running MDT: the exerciser processes, the semaphore  *)
(* set and shared memory through which htxd stops and resumes them, and    *)
(* the command threads of htxd that serve the operator.                    *)
(*                                                                         *)
(* An exerciser calls hxfupdate (lib/htx64/hxfupdate.c) at regular         *)
(* intervals.  The call is where it is held: on its own run semaphore, on  *)
(* its error semaphore, or on the global activate/halt semaphore.  Each    *)
(* operator command is a thread of htxd without any lock                   *)
(* (htxd_daemon.c), so every step of a thread is an action of its own.     *)
(***************************************************************************)
EXTENDS Integers, FiniteSets

CONSTANTS
    Devices,      \* the entries of the MDT's shared memory
    NoDev,        \* no device
    Procs,        \* process identifiers; an identifier is never used twice
    NoProc,       \* PID 0
    Threads,      \* command threads of htxd
    Cmds,         \* the commands that occur in an instance
    Calls,        \* likewise the calls ERROR and RECONFIG of hxfupdate
    MaxPolls,     \* polls of a halt before it gives up (600 s / 3 s)
    CycleDevices, \* the devices whose stanza has max_cycles /= 0
    TimedDevices  \* the devices whose stanza has test_run_period /= 0

ListCmds == {"activate", "suspend", "activate_halt", "coe", "soe", "coe_soe",
             "terminate", "restart"}

ASSUME ConstantsAssumption ==
    /\ NoProc \notin Procs
    /\ NoDev \notin Devices
    /\ MaxPolls \in Nat \ {0}
    /\ Cmds \subseteq ListCmds \cup {"test_activate_halt", "shutdown"}
    /\ Calls \subseteq {"ERROR", "RECONFIG"}
    /\ CycleDevices \subseteq Devices
    /\ TimedDevices \subseteq Devices

VARIABLES
    \* the semaphore set of the MDT; every operation on it is a SETVAL of 0
    \* or 1, a SETALL of 0, a GETVAL, a GETALL or a wait for zero
    sem0,         \* global activate/halt semaphore: 1 halts the test
    run,          \* run semaphore of a device: 1 suspends it
    err,          \* error semaphore of a device: 1 while stopped on error
    ack,          \* 1 while the device's exerciser is held by sem0
    \* the shared memory of the MDT
    shutdown,     \* p_shm_hdr->shutdown
    HE,           \* the entry (struct htxshm_HE) of a device, see Entry
    \* the exerciser processes
    pc,           \* where the process is, see ProcPC
    dev,          \* the device it was forked for
    sig,          \* the senders of the SIGTERM or SIGKILL it has received
    \* htxd
    state,        \* daemon state
    test_running_state,
    alarm,        \* the process-wide alarm is set
    report,       \* what htxd reported about the end of a process
    htxd_shutdown_flag,
    watch,        \* the device the stop watch is about to signal, or NoDev
    th,           \* a command thread and its local variables, see Thread
    \* history: returns from hxfupdate since the semaphore was last set to 1
    haltPasses, runPasses

sems    == <<sem0, run, err, ack>>
procs   == <<pc, dev, sig>>
daemon  == <<state, test_running_state, alarm, report, htxd_shutdown_flag,
             watch>>
history == <<haltPasses, runPasses>>
vars    == <<sems, shutdown, HE, procs, daemon, th, history>>

ProcPC == {"unused", "forked", "test", "cycles", "inRun", "readGlobal",
           "setAck", "inAct", "clearAck", "setErr", "inErr",
           "exited", "reaped"}

ThreadPC == {"idle", "setGlobal", "poll", "count", "halted", "setActive",
             "activated", "each", "flip", "termRun", "termErr", "termMark",
             "termKill", "termAlarm", "termRestore", "unloadFlag",
             "unloadRelease", "unloadKill", "unloadWait", "done"}

Reports == {"none", "user request", "DR operation", "run time",
            "hard error", "silent"}

Replies == {"none", "stopped", "warning", "activated"}

Senders == {"terminate", "stop_watch", "unload", "kill"}

\* PID equals exer_pid in htxd's exerciser table: both are written together
Entry == [PID : Procs \cup {NoProc},
          cont_on_err : BOOLEAN,
          max_cycles : BOOLEAN,               \* max_cycles /= 0
          test_started_time : BOOLEAN,        \* test_started_time /= 0
          user_term : BOOLEAN, DR_term : BOOLEAN,
          test_run_period_expired : BOOLEAN]

Thread == [pc : ThreadPC,
           cmd : Cmds \cup {"none"},
           todo : SUBSET Devices,             \* devices still to be visited
           cur : Devices \cup {NoDev},        \* the device being visited
           HE_pid : Procs \cup {NoProc},
           saved : {0, 1},                    \* save_run_status
           snap : SUBSET Devices,             \* semctl_arg.array
           polls : 0..MaxPolls,               \* delay_counter / delay_slice
           reply : Replies]                   \* command_result

IdleThread == [pc |-> "idle", cmd |-> "none", todo |-> {}, cur |-> NoDev,
               HE_pid |-> NoProc, saved |-> 0, snap |-> {}, polls |-> 0,
               reply |-> "none"]

(* The type invariant: every variable keeps to the values its C             *)
(* counterpart can hold; a semaphore in particular is only ever 0 or 1, and *)
(* the poll counter never passes its bound.                                 *)
TypeOK ==
    /\ sem0 \in {0, 1}
    /\ run \in [Devices -> {0, 1}]
    /\ err \in [Devices -> {0, 1}]
    /\ ack \in [Devices -> {0, 1}]
    /\ shutdown \in BOOLEAN
    /\ HE \in [Devices -> Entry]
    /\ pc \in [Procs -> ProcPC]
    /\ dev \in [Procs -> Devices \cup {NoDev}]
    /\ sig \in [Procs -> SUBSET Senders]
    /\ state \in {"RUNNING", "SHUTTING_DOWN"}
    /\ test_running_state \in {0, 1}
    /\ alarm \in BOOLEAN
    /\ report \in [Procs -> Reports]
    /\ htxd_shutdown_flag \in BOOLEAN
    /\ watch \in Devices \cup {NoDev}
    /\ th \in [Threads -> Thread]
    /\ haltPasses \in [Procs -> 0..2]
    /\ runPasses \in [Procs -> 0..2]

(***************************************************************************)
(* Initially the MDT has just been activated: one process has been forked  *)
(* for each device and its PID stored (htxd_activate_all_ecg_devices); the *)
(* semaphores are 0 (htxd_init_sem).                                       *)
(***************************************************************************)
Init ==
    /\ sem0 = 0
    /\ run = [d \in Devices |-> 0]
    /\ err = [d \in Devices |-> 0]
    /\ ack = [d \in Devices |-> 0]
    /\ shutdown = FALSE
    /\ \E first \in [Devices -> Procs], coe \in [Devices -> BOOLEAN] :
         /\ \A d, e \in Devices : first[d] = first[e] => d = e
         /\ HE = [d \in Devices |->
                    [PID |-> first[d], cont_on_err |-> coe[d],
                     max_cycles |-> d \in CycleDevices,
                     test_started_time |-> FALSE,
                     user_term |-> FALSE, DR_term |-> FALSE,
                     test_run_period_expired |-> FALSE]]
    /\ dev \in [Procs -> Devices \cup {NoDev}]
    /\ \A p \in Procs : IF \E d \in Devices : HE[d].PID = p
                        THEN dev[p] \in Devices /\ HE[dev[p]].PID = p
                        ELSE dev[p] = NoDev
    /\ pc = [p \in Procs |-> IF dev[p] = NoDev THEN "unused" ELSE "forked"]
    /\ sig = [p \in Procs |-> {}]
    /\ state = "RUNNING"
    /\ test_running_state = 1
    /\ alarm = FALSE
    /\ report = [p \in Procs |-> "none"]
    /\ htxd_shutdown_flag = FALSE
    /\ watch = NoDev
    /\ th = [t \in Threads |-> IdleThread]
    /\ haltPasses = [p \in Procs |-> 0]
    /\ runPasses = [p \in Procs |-> 0]

-----------------------------------------------------------------------------
(***************************************************************************)
(* The exerciser: calls of hxfupdate.                                      *)
(***************************************************************************)
Live(p) == pc[p] \notin {"unused", "exited", "reaped"}

Goto(p, where) == pc' = [pc EXCEPT ![p] = where]

(* The process leaves hxfupdate after having been subject to the waits.    *)
Return(p) ==
    /\ Goto(p, "test")
    /\ haltPasses' = [haltPasses EXCEPT ![p] =
                         IF sem0 = 1 /\ @ < 2 THEN @ + 1 ELSE @]
    /\ runPasses' = [runPasses EXCEPT ![p] =
                        IF run[dev[p]] = 1 /\ @ < 2 THEN @ + 1 ELSE @]

(* The head of the loop  while (shutdown == 0 && semop(...) == -1 ...):     *)
(* with shutdown set the semaphore is not waited for.                       *)
Await(p, wait, next) == Goto(p, IF shutdown THEN next ELSE wait)

(* hxfupdate(START).  htx_start finds the entry that holds the caller's     *)
(* PID; a process whose entry names another one exits.  The sleeping of the *)
(* start delay is part of the stay in "forked".                             *)
Start(p) ==
    /\ pc[p] = "forked"
    /\ IF HE[dev[p]].PID = p
       THEN /\ HE' = [HE EXCEPT ![dev[p]].test_started_time = TRUE]
            /\ Await(p, "inRun", "readGlobal")
       ELSE Goto(p, "exited") /\ UNCHANGED HE
    /\ UNCHANGED <<sems, shutdown, dev, sig, daemon, th, history>>

(* hxfupdate(UPDATE), FINISH before the last cycle, or an ERROR whose       *)
(* severity is above halt_sev_level.                                        *)
Update(p) ==
    /\ pc[p] = "test"
    /\ Await(p, "inRun", "readGlobal")
    /\ UNCHANGED <<sems, shutdown, HE, dev, sig, daemon, th, history>>

(* hxfupdate(RECONFIG): the exerciser is about to end because of a dynamic  *)
(* reconfiguration.                                                         *)
Reconfig(p) ==
    /\ pc[p] = "test" /\ "RECONFIG" \in Calls
    /\ HE' = [HE EXCEPT ![dev[p]].DR_term = TRUE]
    /\ Await(p, "inRun", "readGlobal")
    /\ UNCHANGED <<sems, shutdown, dev, sig, daemon, th, history>>

(* hxfupdate(FINISH) at the last cycle: sleep until shutdown, or until a    *)
(* terminate has set max_cycles to 0.                                       *)
FinishLastCycle(p) ==
    /\ pc[p] = "test"
    /\ HE[dev[p]].max_cycles
    /\ Goto(p, "cycles")
    /\ UNCHANGED <<sems, shutdown, HE, dev, sig, daemon, th, history>>

LeaveCycles(p) ==
    /\ pc[p] = "cycles"
    /\ shutdown \/ ~HE[dev[p]].max_cycles
    /\ Await(p, "inRun", "readGlobal")
    /\ UNCHANGED <<sems, shutdown, HE, dev, sig, daemon, th, history>>

(* hxfupdate(ERROR) with a severity that stops.  When the device continues  *)
(* on error the call returns without any wait at all: a step that changes   *)
(* nothing here.                                                            *)
Error(p) ==
    /\ pc[p] = "test" /\ "ERROR" \in Calls
    /\ ~HE[dev[p]].cont_on_err
    /\ Goto(p, "setErr")
    /\ UNCHANGED <<sems, shutdown, HE, dev, sig, daemon, th, history>>

SetErr(p) ==
    /\ pc[p] = "setErr"
    /\ err' = [err EXCEPT ![dev[p]] = 1]
    /\ IF shutdown THEN Return(p) ELSE Goto(p, "inErr") /\ UNCHANGED history
    /\ UNCHANGED <<sem0, run, ack, shutdown, HE, dev, sig, daemon, th>>

(* One semop that waits for four semaphores to be 0 at once; the fourth,    *)
(* the global error semaphore 2, is never set by htxd.                      *)
PassErr(p) ==
    /\ pc[p] = "inErr"
    /\ sem0 = 0 /\ run[dev[p]] = 0 /\ err[dev[p]] = 0
    /\ Return(p)
    /\ UNCHANGED <<sems, shutdown, HE, dev, sig, daemon, th>>

\* Mutation of PassRun: the run semaphore is not waited for.
PassRunUntested(p) ==
    /\ pc[p] = "inRun"
    /\ Goto(p, "readGlobal")
    /\ UNCHANGED <<sems, shutdown, HE, dev, sig, daemon, th, history>>

PassRun(p) ==
    /\ pc[p] = "inRun"
    /\ run[dev[p]] = 0
    /\ Goto(p, "readGlobal")
    /\ UNCHANGED <<sems, shutdown, HE, dev, sig, daemon, th, history>>

\* Mutation of ReadGlobal: the global semaphore is not looked at.
ReadGlobalUntested(p) ==
    /\ pc[p] = "readGlobal"
    /\ Return(p)
    /\ UNCHANGED <<sems, shutdown, HE, dev, sig, daemon, th>>

ReadGlobal(p) ==
    /\ pc[p] = "readGlobal"
    /\ IF sem0 = 1 THEN Goto(p, "setAck") /\ UNCHANGED history ELSE Return(p)
    /\ UNCHANGED <<sems, shutdown, HE, dev, sig, daemon, th>>

SetAck(p) ==
    /\ pc[p] = "setAck"
    /\ ack' = [ack EXCEPT ![dev[p]] = 1]
    /\ Await(p, "inAct", "clearAck")
    /\ UNCHANGED <<sem0, run, err, shutdown, HE, dev, sig, daemon, th, history>>

\* Mutation of PassAct: waits for semaphore 2 of the device.
PassActWrongSemaphore(p) ==
    /\ pc[p] = "inAct"
    /\ ack[dev[p]] = 0
    /\ Goto(p, "clearAck")
    /\ UNCHANGED <<sems, shutdown, HE, dev, sig, daemon, th, history>>

PassAct(p) ==
    /\ pc[p] = "inAct"
    /\ sem0 = 0
    /\ Goto(p, "clearAck")
    /\ UNCHANGED <<sems, shutdown, HE, dev, sig, daemon, th, history>>

\* Mutation of ClearAck: the acknowledgement stays set.
ClearAckForgotten(p) ==
    /\ pc[p] = "clearAck"
    /\ UNCHANGED ack
    /\ Return(p)
    /\ UNCHANGED <<sem0, run, err, shutdown, HE, dev, sig, daemon, th>>

ClearAck(p) ==
    /\ pc[p] = "clearAck"
    /\ ack' = [ack EXCEPT ![dev[p]] = 0]
    /\ Return(p)
    /\ UNCHANGED <<sem0, run, err, shutdown, HE, dev, sig, daemon, th>>

(* A signal interrupts the semop with EINTR and the loop tests shutdown     *)
(* again; while shutdown is 0 it goes back to waiting.                      *)
Interrupt(p) ==
    /\ shutdown /\ sig[p] # {}
    /\ \/ pc[p] = "inRun" /\ Goto(p, "readGlobal") /\ UNCHANGED history
       \/ pc[p] = "inAct" /\ Goto(p, "clearAck") /\ UNCHANGED history
       \/ pc[p] = "inErr" /\ Return(p)
    /\ UNCHANGED <<sems, shutdown, HE, dev, sig, daemon, th>>

(* The process ends: of its own accord, by a failed execl, by a crash or    *)
(* by a signal.                                                             *)
Exit(p) ==
    /\ Live(p)
    /\ Goto(p, "exited")
    /\ UNCHANGED <<sems, shutdown, HE, dev, sig, daemon, th, history>>

(* child_death and htxd_reset_exer_pid: the handler of SIGCHLD clears the   *)
(* entry that names the process, if any does, and reports the end.  The     *)
(* flags of the entry are left as they are.                                 *)
EndReport(d) ==
    IF htxd_shutdown_flag \/ state = "SHUTTING_DOWN" THEN "silent"
    ELSE IF HE[d].user_term THEN "user request"
    ELSE IF HE[d].DR_term THEN "DR operation"
    ELSE IF HE[d].test_run_period_expired THEN "run time"
    ELSE "hard error"

\* Mutation of Reap: the entry keeps the PID.
ReapKeepsPID(p) ==
    /\ pc[p] = "exited"
    /\ Goto(p, "reaped")
    /\ IF HE[dev[p]].PID = p
       THEN /\ UNCHANGED HE
            /\ report' = [report EXCEPT ![p] = EndReport(dev[p])]
       ELSE UNCHANGED <<HE, report>>
    /\ UNCHANGED <<sems, shutdown, dev, sig, state, test_running_state, alarm,
                   htxd_shutdown_flag, watch, th, history>>

Reap(p) ==
    /\ pc[p] = "exited"
    /\ Goto(p, "reaped")
    /\ IF HE[dev[p]].PID = p
       THEN /\ HE' = [HE EXCEPT ![dev[p]].PID = NoProc]
            /\ report' = [report EXCEPT ![p] = EndReport(dev[p])]
       ELSE UNCHANGED <<HE, report>>
    /\ UNCHANGED <<sems, shutdown, dev, sig, state, test_running_state, alarm,
                   htxd_shutdown_flag, watch, th, history>>

-----------------------------------------------------------------------------
(***************************************************************************)
(* The stop watch monitor of htxd: a device whose run period has elapsed   *)
(* is marked and its exerciser sent SIGTERM.  PID is read once for the     *)
(* test and, after a message has been sent, once more for the signal;      *)
(* kill with PID 0 goes to htxd's own process group, where sig_end sets    *)
(* htxd_shutdown_flag.                                                     *)
(***************************************************************************)
Signalled(p, who) == [sig EXCEPT ![p] = @ \cup {who}]

Expire(d) ==
    /\ watch = NoDev /\ ~htxd_shutdown_flag
    /\ \A t \in Threads : th[t].pc # "done"
    /\ d \in TimedDevices /\ HE[d].test_started_time
    /\ ~HE[d].test_run_period_expired
    /\ HE' = [HE EXCEPT ![d].test_run_period_expired = TRUE]
    /\ watch' = IF HE[d].PID = NoProc THEN NoDev ELSE d
    /\ UNCHANGED <<sems, shutdown, procs, state, test_running_state, alarm,
                   report, htxd_shutdown_flag, th, history>>

WatchSignal(d) ==
    /\ watch = d
    /\ watch' = NoDev
    /\ IF HE[d].PID = NoProc
       THEN htxd_shutdown_flag' = TRUE /\ UNCHANGED sig
       ELSE sig' = Signalled(HE[d].PID, "stop_watch") /\ UNCHANGED htxd_shutdown_flag
    /\ UNCHANGED <<sems, shutdown, HE, pc, dev, state, test_running_state,
                   alarm, report, th, history>>

-----------------------------------------------------------------------------
(***************************************************************************)
(* Command threads.                                                        *)
(***************************************************************************)
SetRun(d, value) ==
    /\ run' = [run EXCEPT ![d] = value]
    /\ runPasses' = [p \in Procs |->
                       IF dev[p] = d /\ run[d] # value THEN 0 ELSE runPasses[p]]

SetSem0(value) ==
    /\ sem0' = value
    /\ haltPasses' = [p \in Procs |-> IF sem0 # value THEN 0 ELSE haltPasses[p]]

(* htxd_process_command tests the daemon state against the mask of the       *)
(* option.  The mask of test_activate_halt admits every state; it needs the  *)
(* MDT to be in htxd's list, from which shutdown takes it just before it     *)
(* sets the flag in the shared memory.                                       *)
Accepts(t, c) ==
    /\ th[t].pc = "idle" /\ c \in Cmds
    /\ state = "RUNNING" \/ (c = "test_activate_halt" /\ ~shutdown)

(* htxd_option_method_test_activate_halt reads the semaphore it toggles ... *)
BeginHalt(t) ==
    /\ Accepts(t, "test_activate_halt")
    /\ th' = [th EXCEPT ![t] =
                [IdleThread EXCEPT
                   !.pc = IF sem0 = 0 THEN "setGlobal" ELSE "setActive",
                   !.cmd = "test_activate_halt"]]
    /\ UNCHANGED <<sems, shutdown, HE, procs, daemon, history>>

(* ... sets it ...                                                          *)
SetGlobal(t) ==
    /\ th[t].pc = "setGlobal"
    /\ SetSem0(1)
    /\ th' = [th EXCEPT ![t].pc = "poll"]
    /\ UNCHANGED <<run, err, ack, shutdown, HE, procs, daemon, runPasses>>

(* ... and polls: a GETALL of the semaphores, then a look at each device    *)
(* until one is found that has not stopped.                                 *)
Poll(t) ==
    /\ th[t].pc = "poll"
    /\ th' = [th EXCEPT
                ![t].snap = {d \in Devices : ack[d] = 1 \/ err[d] = 1 \/ run[d] = 1},
                ![t].todo = Devices,
                ![t].pc = "count"]
    /\ UNCHANGED <<sems, shutdown, HE, procs, daemon, history>>

CountStopped(t, d) ==
    /\ th[t].pc = "count" /\ d \in th[t].todo
    /\ d \in th[t].snap \/ HE[d].PID = NoProc
    /\ th' = [th EXCEPT
                ![t].todo = @ \ {d},
                ![t].pc = IF th[t].todo = {d} THEN "halted" ELSE @,
                ![t].reply = IF th[t].todo = {d} THEN "stopped" ELSE @]
    /\ UNCHANGED <<sems, shutdown, HE, procs, daemon, history>>

\* Mutation of CountRunning: one poll too many.
CountRunningOnceMore(t, d) ==
    /\ th[t].pc = "count" /\ d \in th[t].todo
    /\ d \notin th[t].snap /\ HE[d].PID # NoProc
    /\ th' = [th EXCEPT
                ![t].polls = @ + 1,
                ![t].pc = IF th[t].polls < MaxPolls THEN "poll" ELSE "halted",
                ![t].reply = IF th[t].polls < MaxPolls THEN @ ELSE "warning"]
    /\ UNCHANGED <<sems, shutdown, HE, procs, daemon, history>>

\* Mutation of CountRunning: the delay counter is not advanced.
CountRunningUncounted(t, d) ==
    /\ th[t].pc = "count" /\ d \in th[t].todo
    /\ d \notin th[t].snap /\ HE[d].PID # NoProc
    /\ th' = [th EXCEPT
                ![t].pc = IF th[t].polls + 1 < MaxPolls THEN "poll" ELSE "halted",
                ![t].reply = IF th[t].polls + 1 < MaxPolls THEN @ ELSE "warning"]
    /\ UNCHANGED <<sems, shutdown, HE, procs, daemon, history>>

CountRunning(t, d) ==
    /\ th[t].pc = "count" /\ d \in th[t].todo
    /\ d \notin th[t].snap /\ HE[d].PID # NoProc
    /\ th' = [th EXCEPT
                ![t].polls = @ + 1,
                ![t].pc = IF th[t].polls + 1 < MaxPolls THEN "poll" ELSE "halted",
                ![t].reply = IF th[t].polls + 1 < MaxPolls THEN @ ELSE "warning"]
    /\ UNCHANGED <<sems, shutdown, HE, procs, daemon, history>>

Halted(t) ==
    /\ th[t].pc = "halted"
    /\ test_running_state' = 0
    /\ th' = [th EXCEPT ![t] = [IdleThread EXCEPT !.reply = th[t].reply]]
    /\ UNCHANGED <<sems, shutdown, HE, procs, state, alarm, report,
                   htxd_shutdown_flag, watch, history>>

SetActive(t) ==
    /\ th[t].pc = "setActive"
    /\ SetSem0(0)
    /\ th' = [th EXCEPT ![t].pc = "activated"]
    /\ UNCHANGED <<run, err, ack, shutdown, HE, procs, daemon, runPasses>>

\* Mutation of Activated: the test state is not updated.
Activated(t) ==
    /\ th[t].pc = "activated"
    /\ test_running_state' = 1
    /\ th' = [th EXCEPT ![t] = [IdleThread EXCEPT !.reply = "activated"]]
    /\ UNCHANGED <<sems, shutdown, HE, procs, state, alarm, report,
                   htxd_shutdown_flag, watch, history>>

(* A command that takes a list of devices works through them one by one;    *)
(* the operator chooses the list, so the order is left open.                *)
BeginList(t, c, S) ==
    /\ Accepts(t, c)
    /\ S # {}
    /\ th' = [th EXCEPT ![t] =
                [IdleThread EXCEPT !.pc = "each", !.cmd = c, !.todo = S]]
    /\ UNCHANGED <<sems, shutdown, HE, procs, daemon, history>>

Visits(t, c, d) == th[t].pc = "each" /\ th[t].cmd = c /\ d \in th[t].todo

NextDevice(t, d) ==
    th' = [th EXCEPT ![t] =
             IF @.todo \subseteq {d} THEN IdleThread
             ELSE [IdleThread EXCEPT !.pc = "each", !.cmd = th[t].cmd,
                                     !.todo = th[t].todo \ {d}]]

ActivateDevice(t, d) ==
    /\ Visits(t, "activate", d)
    /\ SetRun(d, 0)
    /\ NextDevice(t, d)
    /\ UNCHANGED <<sem0, err, ack, shutdown, HE, procs, daemon, haltPasses>>

SuspendDevice(t, d) ==
    /\ Visits(t, "suspend", d)
    /\ SetRun(d, 1)
    /\ NextDevice(t, d)
    /\ UNCHANGED <<sem0, err, ack, shutdown, HE, procs, daemon, haltPasses>>

CoeDevice(t, d) ==
    /\ Visits(t, "coe", d)
    /\ HE' = [HE EXCEPT ![d].cont_on_err = TRUE]
    /\ NextDevice(t, d)
    /\ UNCHANGED <<sems, shutdown, procs, daemon, history>>

SoeDevice(t, d) ==
    /\ Visits(t, "soe", d)
    /\ HE' = [HE EXCEPT ![d].cont_on_err = FALSE]
    /\ NextDevice(t, d)
    /\ UNCHANGED <<sems, shutdown, procs, daemon, history>>

(* The toggles of a single device read, then write the other value.         *)
ToggleRead(t, d) ==
    /\ Visits(t, "activate_halt", d) \/ Visits(t, "coe_soe", d)
    /\ th' = [th EXCEPT
                ![t].cur = d,
                ![t].saved = IF th[t].cmd = "activate_halt" THEN run[d]
                             ELSE IF HE[d].cont_on_err THEN 1 ELSE 0,
                ![t].pc = "flip"]
    /\ UNCHANGED <<sems, shutdown, HE, procs, daemon, history>>

ToggleWrite(t, d) ==
    /\ th[t].pc = "flip" /\ th[t].cur = d
    /\ IF th[t].cmd = "activate_halt"
       THEN SetRun(d, 1 - th[t].saved) /\ UNCHANGED HE
       ELSE /\ HE' = [HE EXCEPT ![d].cont_on_err = (th[t].saved = 0)]
            /\ UNCHANGED <<run, runPasses>>
    /\ NextDevice(t, d)
    /\ UNCHANGED <<sem0, err, ack, shutdown, procs, daemon, haltPasses>>

(* htxd_set_device_restart_status and htxd_load_exerciser: a process is     *)
(* forked for the device and its PID stored over whatever was there; the    *)
(* child sleeps 5 s before it runs, "let daemon update shared memory", so   *)
(* fork and store are one step.  The fork may fail.                         *)
RestartDevice(t, d) ==
    /\ Visits(t, "restart", d)
    /\ NextDevice(t, d)
    /\ \/ UNCHANGED <<HE, pc, dev>>
       \/ \E p \in Procs :
            /\ pc[p] = "unused"
            /\ Goto(p, "forked")
            /\ dev' = [dev EXCEPT ![p] = d]
            /\ HE' = [HE EXCEPT ![d].PID = p]
    /\ UNCHANGED <<sems, shutdown, sig, daemon, history>>

(***************************************************************************)
(* htxd_set_device_terminate_status.  The test tm_last_upd /= 0 fails only  *)
(* within htx_start, which clears the field; it is -1 from the loading of   *)
(* the MDT and a time from START on.  The child is in a session of its own, *)
(* so pause() is not called.                                                *)
(***************************************************************************)
TerminateDevice(t, d) ==
    /\ Visits(t, "terminate", d)
    /\ \/ /\ HE[d].PID # NoProc => pc[HE[d].PID] = "forked"
          /\ NextDevice(t, d)
       \/ /\ HE[d].PID # NoProc
          /\ th' = [th EXCEPT ![t].cur = d, ![t].HE_pid = HE[d].PID,
                              ![t].saved = run[d], ![t].pc = "termRun"]
    /\ UNCHANGED <<sems, shutdown, HE, procs, daemon, history>>

TermRun(t, d) ==
    /\ th[t].pc = "termRun" /\ th[t].cur = d
    /\ SetRun(d, 0)
    /\ th' = [th EXCEPT ![t].pc = "termErr"]
    /\ UNCHANGED <<sem0, err, ack, shutdown, HE, procs, daemon, haltPasses>>

TermErr(t, d) ==
    /\ th[t].pc = "termErr" /\ th[t].cur = d
    /\ err' = [err EXCEPT ![d] = 0]
    /\ th' = [th EXCEPT ![t].pc = "termMark"]
    /\ UNCHANGED <<sem0, run, ack, shutdown, HE, procs, daemon, history>>

\* Mutation of TermMark: user_term is not set.
TermMarkNoFlag(t, d) ==
    /\ th[t].pc = "termMark" /\ th[t].cur = d
    /\ HE' = [HE EXCEPT ![d].max_cycles = FALSE]
    /\ alarm' = TRUE
    /\ th' = [th EXCEPT ![t].pc = "termKill"]
    /\ UNCHANGED <<sems, shutdown, procs, state, test_running_state, report,
                   htxd_shutdown_flag, watch, history>>

TermMark(t, d) ==
    /\ th[t].pc = "termMark" /\ th[t].cur = d
    /\ HE' = [HE EXCEPT ![d].user_term = TRUE, ![d].max_cycles = FALSE]
    /\ alarm' = TRUE
    /\ th' = [th EXCEPT ![t].pc = "termKill"]
    /\ UNCHANGED <<sems, shutdown, procs, state, test_running_state, report,
                   htxd_shutdown_flag, watch, history>>

(* kill succeeds on a process that has not been reaped; otherwise the flags *)
(* are taken back.                                                          *)
TermKill(t, d) ==
    /\ th[t].pc = "termKill" /\ th[t].cur = d
    /\ IF pc[th[t].HE_pid] = "reaped"
       THEN /\ alarm' = FALSE
            /\ HE' = [HE EXCEPT ![d].user_term = FALSE, ![d].DR_term = FALSE]
            /\ th' = [th EXCEPT ![t].pc = "termRestore"]
            /\ UNCHANGED sig
       ELSE /\ sig' = Signalled(th[t].HE_pid, "terminate")
            /\ th' = [th EXCEPT ![t].pc = "termAlarm"]
            /\ UNCHANGED <<alarm, HE>>
    /\ UNCHANGED <<sems, shutdown, pc, dev, state, test_running_state, report,
                   htxd_shutdown_flag, watch, history>>

(* if (!alarm(0)) SIGKILL: alarm(0) returns 0 only when no alarm is set.    *)
TermAlarm(t, d) ==
    /\ th[t].pc = "termAlarm" /\ th[t].cur = d
    /\ alarm' = FALSE
    /\ sig' = IF alarm \/ pc[th[t].HE_pid] = "reaped" THEN sig
              ELSE Signalled(th[t].HE_pid, "kill")
    /\ th' = [th EXCEPT ![t].pc = "termRestore"]
    /\ UNCHANGED <<sems, shutdown, HE, pc, dev, state, test_running_state,
                   report, htxd_shutdown_flag, watch, history>>

TermRestore(t, d) ==
    /\ th[t].pc = "termRestore" /\ th[t].cur = d
    /\ SetRun(d, th[t].saved)
    /\ NextDevice(t, d)
    /\ UNCHANGED <<sem0, err, ack, shutdown, HE, procs, daemon, haltPasses>>

(***************************************************************************)
(* The shutdown of the MDT: htxd_option_method_shutdown_mdt sets the daemon *)
(* state, after which no command is accepted, and htxd_unload_exercisers    *)
(* ends the processes and waits, without a limit, for every PID to be 0.    *)
(***************************************************************************)
BeginShutdown(t) ==
    /\ Accepts(t, "shutdown")
    /\ state' = "SHUTTING_DOWN"
    /\ th' = [th EXCEPT ![t] =
                [IdleThread EXCEPT !.pc = "unloadFlag", !.cmd = "shutdown"]]
    /\ UNCHANGED <<sems, shutdown, HE, procs, test_running_state, alarm,
                   report, htxd_shutdown_flag, watch, history>>

UnloadFlag(t) ==
    /\ th[t].pc = "unloadFlag"
    /\ shutdown' = TRUE
    /\ th' = [th EXCEPT ![t].pc = "unloadRelease"]
    /\ UNCHANGED <<sems, HE, procs, daemon, history>>

UnloadRelease(t) ==
    /\ th[t].pc = "unloadRelease"
    /\ sem0' = 0
    /\ run' = [d \in Devices |-> 0]
    /\ err' = [d \in Devices |-> 0]
    /\ ack' = [d \in Devices |-> 0]
    /\ haltPasses' = [p \in Procs |-> 0]
    /\ runPasses' = [p \in Procs |-> 0]
    /\ th' = [th EXCEPT ![t].todo = Devices, ![t].pc = "unloadKill"]
    /\ UNCHANGED <<shutdown, HE, procs, daemon>>

\* Mutation of UnloadKill: no signal is sent.
UnloadKillNot(t, d) ==
    /\ th[t].pc = "unloadKill" /\ d \in th[t].todo
    /\ UNCHANGED sig
    /\ th' = [th EXCEPT ![t].todo = @ \ {d},
                        ![t].pc = IF th[t].todo = {d} THEN "unloadWait" ELSE @]
    /\ UNCHANGED <<sems, shutdown, HE, pc, dev, daemon, history>>

UnloadKill(t, d) ==
    /\ th[t].pc = "unloadKill" /\ d \in th[t].todo
    /\ sig' = IF HE[d].PID = NoProc THEN sig ELSE Signalled(HE[d].PID, "unload")
    /\ th' = [th EXCEPT ![t].todo = @ \ {d},
                        ![t].pc = IF th[t].todo = {d} THEN "unloadWait" ELSE @]
    /\ UNCHANGED <<sems, shutdown, HE, pc, dev, daemon, history>>

\* Mutation of UnloadWait: the processes are not waited for.
UnloadWaitNot(t) ==
    /\ th[t].pc = "unloadWait"
    /\ th' = [th EXCEPT ![t].pc = "done"]
    /\ UNCHANGED <<sems, shutdown, HE, procs, daemon, history>>

UnloadWait(t) ==
    /\ th[t].pc = "unloadWait"
    /\ \A d \in Devices : HE[d].PID = NoProc
    /\ th' = [th EXCEPT ![t].pc = "done"]
    /\ UNCHANGED <<sems, shutdown, HE, procs, daemon, history>>

-----------------------------------------------------------------------------
(* What a process does once it is in hxfupdate; nothing but a semaphore     *)
(* holds it up.                                                             *)
InCall(p) ==
    \/ Start(p) \/ LeaveCycles(p) \/ SetErr(p) \/ PassErr(p) \/ PassRun(p)
    \/ ReadGlobal(p) \/ SetAck(p) \/ PassAct(p) \/ ClearAck(p) \/ Interrupt(p)

Exerciser(p) ==
    \/ InCall(p) \/ Update(p) \/ Reconfig(p) \/ FinishLastCycle(p) \/ Error(p)
    \/ Exit(p) \/ Reap(p)

(* The steps of a command that has been accepted.                           *)
HaltStep(t) ==
    \/ SetGlobal(t) \/ Poll(t) \/ Halted(t) \/ SetActive(t) \/ Activated(t)
    \/ \E d \in Devices : CountStopped(t, d) \/ CountRunning(t, d)

ListStep(t, d) ==
    \/ ActivateDevice(t, d) \/ SuspendDevice(t, d)
    \/ CoeDevice(t, d) \/ SoeDevice(t, d)
    \/ ToggleRead(t, d) \/ ToggleWrite(t, d) \/ RestartDevice(t, d)
    \/ TerminateDevice(t, d) \/ TermRun(t, d) \/ TermErr(t, d)
    \/ TermMark(t, d) \/ TermKill(t, d) \/ TermAlarm(t, d) \/ TermRestore(t, d)

UnloadStep(t) ==
    \/ UnloadFlag(t) \/ UnloadRelease(t) \/ UnloadWait(t)
    \/ \E d \in Devices : UnloadKill(t, d)

Working(t) == HaltStep(t) \/ UnloadStep(t) \/ \E d \in Devices : ListStep(t, d)

Command(t) ==
    \/ BeginHalt(t) \/ BeginShutdown(t) \/ Working(t)
    \/ \E c \in ListCmds, S \in SUBSET Devices : BeginList(t, c, S)

StopWatch == \E d \in Devices : Expire(d) \/ WatchSignal(d)

Next ==
    \/ \E p \in Procs : Exerciser(p)
    \/ \E t \in Threads : Command(t)
    \/ StopWatch

(***************************************************************************)
(* Fairness: the operating system runs every process and thread; the        *)
(* kernel delivers SIGCHLD; an exerciser calls hxfupdate again and again    *)
(* (developers manual, hxfupdate) and ends when it has received SIGTERM.    *)
(* Nothing makes an operator issue a command or an exerciser meet an error. *)
(***************************************************************************)
Fairness ==
    /\ \A p \in Procs :
         /\ WF_vars(InCall(p))
         /\ WF_vars(Update(p))
         /\ WF_vars(sig[p] # {} /\ Exit(p))
         /\ WF_vars(Reap(p))
    /\ \A t \in Threads : WF_vars(Working(t))
    /\ WF_vars(\E d \in Devices : WatchSignal(d))

Spec == Init /\ [][Next]_vars

FairSpec == Spec /\ Fairness

-----------------------------------------------------------------------------
(***************************************************************************)
(* Properties.                                                             *)
(***************************************************************************)

(* While the test is halted, hxfupdate lets no process return more than     *)
(* once: one that had passed its wait for the previous halt may still come  *)
(* back, and then it is held at its next call.  Holds for every             *)
(* interleaving of commands, including two threads that halt and activate   *)
(* at the same time (hxfupdate.c, wait on semaphore 0).                     *)
HaltTakesEffect ==
    sem0 = 1 /\ ~shutdown => \A p \in Procs : haltPasses[p] <= 1

(* The same for the suspension of one device: after suspend each process of *)
(* the device returns at most once until the device is activated again      *)
(* (hxfupdate.c, wait on the run semaphore).                                *)
SuspendTakesEffect ==
    ~shutdown =>
      \A p \in Procs : dev[p] # NoDev /\ run[dev[p]] = 1 => runPasses[p] <= 1

(* When the halt command has answered that all exercisers are stopped, an   *)
(* exerciser that nevertheless tests is one that had been held by the       *)
(* previous halt and was let go by the activation in between: it has        *)
(* returned once and goes no further.  For one operator session without     *)
(* suspend and restart.                                                     *)
HaltReport ==
    \A t \in Threads : th[t].reply = "stopped" /\ sem0 = 1 /\ ~shutdown =>
      \A p \in Procs : pc[p] = "test" => haltPasses[p] = 1

(* The end of a process that the operator terminated is never reported as a *)
(* hardware error (sessions that restart no device).                        *)
TerminateIsNoError ==
    \A p \in Procs : "terminate" \in sig[p] => report[p] # "hard error"

(* Every process whose PID the exerciser table holds is known to be a child *)
(* that has not been reaped, and belongs to the device of the entry: a      *)
(* signal sent to the PID of an entry reaches the exerciser of the device.  *)
EntryNamesItsProcess ==
    \A d \in Devices : LET p == HE[d].PID IN
      p # NoProc => dev[p] = d /\ pc[p] \notin {"unused", "reaped"}

(* A shutdown that has waited for all PIDs to be 0 leaves no exerciser of   *)
(* the MDT behind (sessions that restart no device).                        *)
UnloadLeavesNone ==
    \A t \in Threads : th[t].pc = "done" => \A p \in Procs : ~Live(p)

(* A halt always answers: the poll loop ends by finding every device        *)
(* stopped or by its bound.                                                 *)
HaltAnswers == \A t \in Threads : th[t].pc = "setGlobal" ~> th[t].pc = "idle"

(* A shutdown ends: every process that is waited for has been sent SIGTERM. *)
UnloadEnds == \A t \in Threads : th[t].pc = "unloadFlag" ~> th[t].pc = "done"

(* Nothing holds an exerciser.                                              *)
AllOpen == sem0 = 0 /\ \A d \in Devices : run[d] = 0 /\ err[d] = 0

(* No resume is lost: when the semaphores stay 0 from some time on, every   *)
(* exerciser comes back from hxfupdate again and again, or sleeps after its *)
(* last cycle, however commands, errors and signals were interleaved before *)
(* (hxfupdate_tunsafe, the waits).                                          *)
Resumes == \A p \in Procs :
    <>[]AllOpen => []<>(pc[p] \in {"unused", "test", "cycles", "exited", "reaped"})
=============================================================================
