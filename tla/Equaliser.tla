----------------------------- MODULE Equaliser -----------------------------
(***************************************************************************)
(* The equaliser (htxd_equaliser.c) beside the exercisers and the commands *)
(* of DeviceControl: a helper process of htxd that stops and continues the *)
(* exercisers with SIGSTOP and SIGCONT, one bit of a device's utilisation  *)
(* pattern per time quantum.                                               *)
(*                                                                         *)
(* A stopped process takes no step and keeps a SIGTERM pending; only       *)
(* SIGKILL ends it.  The equaliser reads the shared memory and the         *)
(* semaphores one after the other and signals afterwards, so that all it   *)
(* has read may be out of date by then.  Every step here is a step of      *)
(* DeviceControl or leaves its variables alone.                            *)
(***************************************************************************)
EXTENDS DeviceControl, Sequences

CONSTANTS
    Config,       \* the cpu_utilization entry of each device, see Utilization
    Offline       \* the MDT asks for the CPU of a stopped device to be offline

Utilization == [util_pattern : {"LEFT", "RIGHT", "RANDOM", "PATTERN"},
                pattern_length : 1..32,         \* the pattern is a uint32
                utilization_sequence : Seq(0..100) \ {<<>>},
                bits : SUBSET Nat]     \* the bits given with "PATTERN"

ASSUME EqualiserAssumption ==
    /\ Offline \in BOOLEAN
    /\ Config \in [Devices -> Utilization]
    /\ \A d \in Devices : Config[d].bits \subseteq 0..(Config[d].pattern_length - 1)

VARIABLES
    stopped,         \* the process is stopped by a SIGSTOP
    equaliser_halt,  \* the flag of that name in the entry of a device
    starting,        \* tm_last_upd = 0 or started_delay_flag = 1
    complete,        \* cycles >= max_cycles, where max_cycles /= 0
    online,          \* the CPU of the device is online
    data,            \* run time data of a device, see RunTimeData
    eq,              \* the equaliser: pc, the devices left in this quantum
                     \* and the one being visited
    frozen           \* htxd and its helpers are stopped

HEvars == <<equaliser_halt, starting, complete>>
eqvars == <<stopped, HEvars, online, data, eq, frozen>>
allvars == <<vars, eqvars>>

EqPC == {"sleep", "each", "sem0", "err", "run", "stop", "halted", "cont",
         "continued", "gone"}

RunTimeData(d) ==
    [current_step : 0..(Config[d].pattern_length - 1),
     current_seq_step : DOMAIN Config[d].utilization_sequence,
     utilization_pattern : SUBSET (0..(Config[d].pattern_length - 1))]

-----------------------------------------------------------------------------
(***************************************************************************)
(* The utilisation pattern, as the set of its 1 bits.                      *)
(***************************************************************************)
target_active(d, seq_step) ==
    (Config[d].utilization_sequence[seq_step] * Config[d].pattern_length) \div 100

(* One exchange of shuffle_pattern.                                         *)
Exchange(S, first_pos, second_pos) ==
    (S \ {first_pos, second_pos})
      \cup {q \in {second_pos} : first_pos \in S}
      \cup {q \in {first_pos} : second_pos \in S}

(* What shuffle_pattern can make of a pattern of n bits: after[f] are the   *)
(* patterns it can have when first_pos = f.                                 *)
Shuffles(n, pattern) ==
    LET after[f \in 0..n] ==
          IF f = 0 THEN {pattern}
          ELSE {Exchange(S, f - 1, g) : S \in after[f - 1], g \in (f - 1)..(n - 1)}
    IN  after[n]

(* reset_utilization_queue: the patterns it can leave for the device.       *)
reset_utilization_queue(d, seq_step) ==
    LET n == Config[d].pattern_length
        k == target_active(d, seq_step)
        left == {n - j : j \in 1..k}
    IN  CASE Config[d].util_pattern = "LEFT"    -> {left}
          [] Config[d].util_pattern = "RIGHT"   -> {{k - j : j \in 1..k}}
          [] Config[d].util_pattern = "RANDOM"  -> Shuffles(n, left)
          [] Config[d].util_pattern = "PATTERN" -> {Config[d].bits}

\* Mutation of action: the bits are counted from 1.
action_from_1(d, step) ==
    IF Config[d].pattern_length - step \in data[d].utilization_pattern
    THEN 1 ELSE 0

(* The bit of the pattern for a step: the leftmost one comes first.         *)
action(d, step) ==
    IF Config[d].pattern_length - (step + 1) \in data[d].utilization_pattern
    THEN 1 ELSE 0

(* initialize_run_time_data.                                                *)
InitialData(d) ==
    {[current_step |-> 0, current_seq_step |-> 1, utilization_pattern |-> P] :
        P \in reset_utilization_queue(d, 1)}

EqInit ==
    /\ Init
    /\ stopped = [p \in Procs |-> FALSE]
    /\ equaliser_halt = [d \in Devices |-> 0]
    /\ starting = [d \in Devices |-> FALSE]
    /\ complete = [d \in Devices |-> FALSE]
    /\ online = [d \in Devices |-> TRUE]
    /\ data \in [Devices -> UNION {InitialData(d) : d \in Devices}]
    /\ \A d \in Devices : data[d] \in InitialData(d)
    /\ eq = [pc |-> "sleep", todo |-> {}, cur |-> NoDev]
    /\ frozen = FALSE

-----------------------------------------------------------------------------
(***************************************************************************)
(* The exercisers.                                                         *)
(***************************************************************************)

(* htx_start clears cycles and tm_last_upd; a start delay follows.          *)
BeginStart(p) ==
    LET d == dev[p] IN
    /\ pc[p] = "forked" /\ ~stopped[p]
    /\ HE[d].PID = p /\ ~starting[d]
    /\ starting' = [starting EXCEPT ![d] = TRUE]
    /\ complete' = [complete EXCEPT ![d] = FALSE]
    /\ UNCHANGED <<vars, stopped, equaliser_halt, online, data, eq, frozen>>

EndStart(p) ==
    LET d == dev[p] IN
    /\ ~stopped[p] /\ Start(p)
    /\ IF HE[d].PID = p
       THEN starting[d] /\ starting' = [starting EXCEPT ![d] = FALSE]
       ELSE UNCHANGED starting
    /\ UNCHANGED <<stopped, equaliser_halt, complete, online, data, eq, frozen>>

Completes(p) ==
    /\ ~stopped[p] /\ FinishLastCycle(p)
    /\ complete' = [complete EXCEPT ![dev[p]] = TRUE]
    /\ UNCHANGED <<stopped, equaliser_halt, starting, online, data, eq, frozen>>

(* The other steps of a process that is not stopped.                        *)
Proceeds(p) ==
    \/ LeaveCycles(p) \/ SetErr(p) \/ PassErr(p) \/ PassRun(p) \/ ReadGlobal(p)
    \/ SetAck(p) \/ PassAct(p) \/ ClearAck(p) \/ Interrupt(p)

Runs(p) ==
    /\ ~stopped[p]
    /\ Proceeds(p) \/ Update(p) \/ Reconfig(p) \/ Error(p)
    /\ UNCHANGED eqvars

Dies(p) ==
    /\ stopped[p] => "kill" \in sig[p]
    /\ Exit(p)
    /\ stopped' = [stopped EXCEPT ![p] = FALSE]
    /\ UNCHANGED <<HEvars, online, data, eq, frozen>>

(* The daemon, unless a signal to its own process group has stopped it.     *)
Reaps(p) == ~frozen /\ Reap(p) /\ UNCHANGED eqvars

Daemon ==
    /\ ~frozen
    /\ StopWatch \/ \E t \in Threads : Command(t)
    /\ UNCHANGED eqvars

-----------------------------------------------------------------------------
(***************************************************************************)
(* The equaliser.  htxd ends it once the exercisers are gone.              *)
(***************************************************************************)
EqAt(where) ==
    ~frozen /\ eq.pc = where /\ \A t \in Threads : th[t].pc # "done"

(* On to the next device of this quantum, in any order of the CPUs, or to   *)
(* the end of it.                                                           *)
NextVisit ==
    eq' = [pc |-> IF eq.todo = {} THEN "sleep" ELSE "each",
           todo |-> eq.todo, cur |-> NoDev]

\* Mutation of Advance: only an active step is counted.
Advance_running(d) ==
    /\ data' = [data EXCEPT ![d].current_step =
                   IF action(d, @) = 0 THEN @
                   ELSE (@ + 1) % Config[d].pattern_length]
    /\ NextVisit

(* The step of the pattern is done; after the last one comes the next       *)
(* utilisation of the sequence, and a new pattern unless it is the same.    *)
Advance(d) ==
    LET c == Config[d]
        x == data[d]
        step == (x.current_step + 1) % c.pattern_length
        seq == (x.current_seq_step % Len(c.utilization_sequence)) + 1
        ends == step = 0 /\ c.util_pattern # "PATTERN"
    IN  /\ \E P \in IF ends /\ (Len(c.utilization_sequence) > 1
                                \/ c.util_pattern = "RANDOM")
                    THEN reset_utilization_queue(d, seq)
                    ELSE {x.utilization_pattern} :
             data' = [data EXCEPT ![d] =
                        [current_step |-> step,
                         current_seq_step |-> IF ends THEN seq
                                              ELSE x.current_seq_step,
                         utilization_pattern |-> P]]
        /\ NextVisit

Quantum ==
    /\ EqAt("sleep")
    /\ eq' = [pc |-> "each", todo |-> Devices, cur |-> NoDev]
    /\ UNCHANGED <<vars, stopped, HEvars, online, data, frozen>>

\* Mutation of Visit: nothing is done any more once the MDT is shut down.
Visit_until_shutdown(d) ==
    /\ EqAt("each") /\ d \in eq.todo
    /\ IF /\ HE[d].PID # NoProc
          /\ ~starting[d] /\ ~shutdown
          /\ ~(HE[d].max_cycles /\ complete[d])
       THEN eq' = [pc |-> "sem0", todo |-> eq.todo \ {d}, cur |-> d]
       ELSE eq' = [pc |-> IF eq.todo = {d} THEN "sleep" ELSE "each",
                   todo |-> eq.todo \ {d}, cur |-> NoDev]
    /\ UNCHANGED <<vars, stopped, HEvars, online, data, frozen>>

(* The tests of the entry in shared memory ...                              *)
Visit(d) ==
    /\ EqAt("each") /\ d \in eq.todo
    /\ IF /\ HE[d].PID # NoProc
          /\ ~starting[d]
          /\ ~(HE[d].max_cycles /\ complete[d])
       THEN eq' = [pc |-> "sem0", todo |-> eq.todo \ {d}, cur |-> d]
       ELSE eq' = [pc |-> IF eq.todo = {d} THEN "sleep" ELSE "each",
                   todo |-> eq.todo \ {d}, cur |-> NoDev]
    /\ UNCHANGED <<vars, stopped, HEvars, online, data, frozen>>

(* ... then of the semaphores: the test is not halted, the device not       *)
(* stopped on error and not suspended.                                      *)
TestSem(where, value, next) ==
    /\ EqAt(where)
    /\ IF value = 0 THEN eq' = [eq EXCEPT !.pc = next] ELSE NextVisit
    /\ UNCHANGED <<vars, stopped, HEvars, online, data, frozen>>

TestSem0(d) == eq.cur = d /\ TestSem("sem0", sem0, "err")

TestErr(d) == eq.cur = d /\ TestSem("err", err[d], "run")

(* The last test, and what the bit of this step asks for.                   *)
Decide(d) ==
    LET a == action(d, data[d].current_step) IN
    /\ EqAt("run") /\ eq.cur = d
    /\ \/ run[d] # 0 /\ NextVisit /\ UNCHANGED data
       \/ /\ run[d] = 0 /\ a = 0 /\ equaliser_halt[d] = 0
          /\ eq' = [eq EXCEPT !.pc = "stop"] /\ UNCHANGED data
       \/ /\ run[d] = 0 /\ a = 1 /\ equaliser_halt[d] = 1
          /\ eq' = [eq EXCEPT !.pc = "cont"] /\ UNCHANGED data
       \/ run[d] = 0 /\ a # equaliser_halt[d] /\ Advance(d)
    /\ UNCHANGED <<vars, stopped, HEvars, online, frozen>>

(* killpg(PID, ...), with the PID read again.  It fails while the child has *)
(* not yet made itself a group of its own.  With PID 0 it goes to the       *)
(* group of the equaliser, which is that of htxd: SIGSTOP stops them all.   *)
Stop(d) ==
    LET p == HE[d].PID IN
    /\ EqAt("stop") /\ eq.cur = d
    /\ \/ /\ p = NoProc
          /\ frozen' = TRUE
          /\ eq' = [eq EXCEPT !.pc = "halted"]
          /\ UNCHANGED <<stopped, data>>
       \/ /\ p # NoProc
          /\ stopped' = [stopped EXCEPT ![p] = Live(p)]
          /\ eq' = [eq EXCEPT !.pc = "halted"]
          /\ UNCHANGED <<data, frozen>>
       \/ /\ p # NoProc /\ pc[p] = "forked"
          /\ Advance(d)
          /\ UNCHANGED <<stopped, frozen>>
    /\ UNCHANGED <<vars, HEvars, online>>

\* Mutation of MarkHalt: the flag is not set.
MarkHaltNot(d) ==
    /\ EqAt("halted") /\ eq.cur = d
    /\ online' = [online EXCEPT ![d] = ~Offline]
    /\ Advance(d)
    /\ UNCHANGED <<vars, stopped, HEvars, frozen>>

(* The flag is set after the signal, then the CPU taken offline.            *)
MarkHalt(d) ==
    /\ EqAt("halted") /\ eq.cur = d
    /\ equaliser_halt' = [equaliser_halt EXCEPT ![d] = 1]
    /\ online' = [online EXCEPT ![d] = ~Offline]
    /\ Advance(d)
    /\ UNCHANGED <<vars, stopped, starting, complete, frozen>>

(* The CPU is brought online and the process bound to it, which may fail    *)
(* and end the equaliser; then SIGCONT.                                     *)
Cont(d) ==
    LET p == HE[d].PID IN
    /\ EqAt("cont") /\ eq.cur = d
    /\ online' = [online EXCEPT ![d] = TRUE]
    /\ \/ /\ Offline
          /\ eq' = [pc |-> "gone", todo |-> {}, cur |-> NoDev]
          /\ UNCHANGED <<stopped, data>>
       \/ /\ stopped' = [q \in Procs |-> stopped[q] /\ q # p]
          /\ eq' = [eq EXCEPT !.pc = "continued"]
          /\ UNCHANGED data
       \/ /\ p # NoProc /\ pc[p] = "forked" /\ ~stopped[p]
          /\ Advance(d)
          /\ UNCHANGED stopped
    /\ UNCHANGED <<vars, HEvars, frozen>>

MarkCont(d) ==
    /\ EqAt("continued") /\ eq.cur = d
    /\ equaliser_halt' = [equaliser_halt EXCEPT ![d] = 0]
    /\ Advance(d)
    /\ UNCHANGED <<vars, stopped, starting, complete, online, frozen>>

EqualiserStep ==
    \/ Quantum
    \/ \E d \in Devices :
         \/ Visit(d) \/ TestSem0(d) \/ TestErr(d) \/ Decide(d)
         \/ Stop(d) \/ MarkHalt(d) \/ Cont(d) \/ MarkCont(d)

EqNext ==
    \/ \E p \in Procs : \/ BeginStart(p) \/ EndStart(p) \/ Completes(p)
                        \/ Runs(p) \/ Dies(p) \/ Reaps(p)
    \/ Daemon
    \/ EqualiserStep

(***************************************************************************)
(* Fairness: as in DeviceControl, except that a process which the          *)
(* equaliser stops and continues is only ever again, and not always, able  *)
(* to run; a quantum in which it runs (time_quantum, 1 s) is long for it.  *)
(***************************************************************************)
EqFairness ==
    /\ \A p \in Procs :
         /\ SF_allvars(BeginStart(p) \/ EndStart(p))
         /\ SF_allvars(~stopped[p] /\ Proceeds(p) /\ UNCHANGED eqvars)
         /\ SF_allvars(~stopped[p] /\ Update(p) /\ UNCHANGED eqvars)
         /\ SF_allvars(sig[p] # {} /\ Dies(p))
         /\ WF_allvars(Reaps(p))
    /\ \A t \in Threads : WF_allvars(~frozen /\ Working(t) /\ UNCHANGED eqvars)
    /\ WF_allvars(EqualiserStep)

EqSpec == EqInit /\ [][EqNext]_allvars

EqFairSpec == EqSpec /\ EqFairness

-----------------------------------------------------------------------------
(***************************************************************************)
(* Properties.                                                             *)
(***************************************************************************)

(* The flag of the entry is set or about to be.                             *)
Marked(d) == equaliser_halt[d] = 1 \/ (eq.cur = d /\ eq.pc = "halted")

(* Whatever commands, exits and restarts come between the test, the signal  *)
(* and the store: an exerciser that is stopped, or whose CPU is offline,    *)
(* has equaliser_halt set in its entry or is about to get it, so that the   *)
(* equaliser knows it has to be continued (htxd_equaliser.c 456-514).       *)
HaltIsKnown ==
    \A d \in Devices :
      /\ ~online[d] => equaliser_halt[d] = 1
      /\ HE[d].PID # NoProc /\ stopped[HE[d].PID] => Marked(d)

(* Of the steps of one pass through the pattern as many have a 1 as the     *)
(* target utilisation asks for, after a shuffle as well (the patterns given *)
(* as bits have no target).                                                 *)
ShareIsTarget ==
    \A d \in Devices : Config[d].util_pattern # "PATTERN" =>
      Cardinality({s \in 0..(Config[d].pattern_length - 1) : action(d, s) = 1})
        = target_active(d, data[d].current_seq_step)

(* A stopped exerciser the equaliser does not continue: it was stopped      *)
(* after the test, in htx_start, after its last cycle or, when a shutdown   *)
(* had already released the semaphores, at an error, and every later test   *)
(* fails; or its PID has been overwritten; or the equaliser has ended; or   *)
(* the daemon itself is stopped.                                            *)
Stranded(p) ==
    \/ frozen
    \/ /\ stopped[p]
       /\ \/ eq.pc = "gone"
          \/ HE[dev[p]].PID # p
          \/ starting[dev[p]]
          \/ HE[dev[p]].max_cycles /\ complete[dev[p]]
          \/ shutdown /\ err[dev[p]] = 1

(* When the semaphores stay 0 from some time on, an exerciser comes back    *)
(* from hxfupdate again and again, although the equaliser stops it at any   *)
(* point of its waits, unless it stays stranded.                            *)
EqResumes == \A p \in Procs :
    <>[]AllOpen => \/ []<>(~stopped[p] /\ pc[p] \in {"test", "cycles"})
                   \/ <>[](~Live(p) \/ Stranded(p))

(* A shutdown ends unless an exerciser stays stranded: the SIGTERM that is  *)
(* pending for a stopped exerciser is delivered at its next 1 bit.          *)
EqUnloadEnds == \A t \in Threads :
    \/ th[t].pc = "unloadFlag" ~> th[t].pc = "done"
    \/ <>[](\E p \in Procs : Stranded(p))
=============================================================================
