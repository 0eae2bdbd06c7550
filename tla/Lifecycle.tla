------------------------------ MODULE Lifecycle ------------------------------
(***************************************************************************)
(* The life of an MDT (an "ECG") in the htxd daemon: the commands select,  *)
(* run, shutdown and createmdt, each in a thread of its own, autostart and *)
(* the SIGTERM shutdown in the main thread, the helper processes hxsmsg,   *)
(* hxstats and equaliser that htxd forks, waits for and reaps, the IPC of  *)
(* an MDT, and the message queue that hxsmsg reads.                        *)
(*                                                                         *)
(* No lock protects any of this: a command is let in by one read of the    *)
(* daemon state, and every step below may be interleaved with another      *)
(* thread's.  What the exercisers of a loaded MDT do is DeviceControl's    *)
(* subject; here they either have processes or have none.                  *)
(***************************************************************************)
EXTENDS Naturals, Sequences, FiniteSets

CONSTANTS
    Sessions,      \* command threads (one per client connection)
    Main,          \* the main thread
    Mdts,          \* names of MDT files
    None,          \* no name
    EqMdts,        \* the MDTs whose equaliser is enabled
    Cmds,          \* the commands clients issue
    Events,        \* what may happen around htxd: the actions name them
    Quiet,         \* TRUE: clients stay silent once htxd is told to stop
    MaxStarts,     \* bound: MDT nodes and ECG managers allocated
    MaxForks,      \* bound: helper processes forked
    KeyLimit,      \* KYE_OFF_SET_LIMIT, 1000 in htxd_define.h
    QueueSize      \* messages the queue holds

ASSUME LifecycleAssumption ==
    /\ Main \notin Sessions /\ None \notin Mdts /\ EqMdts \subseteq Mdts
    /\ Cmds \subseteq {"createmdt", "select", "run", "shutdown"}
    /\ Events \subseteq {"syscfg", "ipc", "helper", "hxsmsg", "autostart", "sigterm"}
    /\ Quiet \in BOOLEAN
    /\ MaxStarts \in Nat /\ MaxForks \in Nat /\ KeyLimit \in Nat
    /\ QueueSize \in Nat \ {0}

VARIABLES
    state,               \* run_state of the htxd instance
    test,                \* is_test_active
    ecg_shutdown_flag,   \* htxd_ecg_shutdown_flag
    htxd_shutdown_flag,  \* set by SIGTERM
    manager,             \* p_ecg_manager: 0 is NULL
    mgr,                 \* every ECG manager object allocated so far
    node,                \* every htxd_ecg_info allocated so far
    next_key_offset,     \* the static of htxd_get_next_key_offset
    ipc,                 \* the semaphores and shared memory under each key
    exers,               \* the nodes whose exercisers have processes ...
    killed,              \* ... and those of them that were sent SIGTERM
    syscfg,              \* init_syscfg_flag
    monitors,            \* the monitor threads (hotplug, hang, stop watch) run
    pid,                 \* the pid htxd holds for each helper, 0: none
    proc,                \* the helper processes forked
    termed,              \* those of them that were sent SIGTERM
    mq,                  \* the message queue
    th,                  \* the threads
    lost,                \* history: why a wait of idle_daemon cannot end
    undefined            \* history: htxd used a NULL or freed pointer

daemon == <<state, test, ecg_shutdown_flag, htxd_shutdown_flag>>
ecgs == <<manager, mgr, node, next_key_offset, ipc>>
loads == <<exers, killed, syscfg, monitors>>
helpers == <<pid, proc, termed>>
vars == <<daemon, ecgs, loads, helpers, mq, th, lost, undefined>>

Threads == Sessions \cup {Main}
Nodes == 1..MaxStarts
Mgrs == 1..MaxStarts
Procs == 1..MaxForks
Keys == 0..KeyLimit
Helpers == {"hxsmsg", "hxstats", "equaliser"}

NoMgr == [st |-> "none", list |-> <<>>, len |-> 0, current |-> 0,
          selected |-> None, running |-> None]
NoNode == [mdt |-> None, key |-> 0, id |-> 0, shm |-> FALSE]
NoProc == [kind |-> "none", st |-> "none"]
NoQueue == [exists |-> FALSE, n |-> 0, final |-> FALSE]
IdleThread == [pc |-> "idle", cmd |-> "none", mdt |-> None, mgr |-> 0,
               node |-> 0, pid |-> 0, reply |-> "none"]

(* The daemon process has crashed or ended: its threads take no more steps. *)
gone == undefined \/ th[Main].pc = "exited"

Listed(m) == {mgr[m].list[i] : i \in 1..Len(mgr[m].list)}

----------------------------------------------------------------------------
(* Steps of threads                                                         *)

At(t, w) == ~gone /\ th[t].pc = w
Goto(t, w) == th' = [th EXCEPT ![t].pc = w]

(* The handler returns; the main thread, after autostart, accepts commands. *)
Reply(t, r) ==
    th' = [th EXCEPT ![t] = [IdleThread EXCEPT
                               !.pc = IF t = Main THEN "accept" ELSE "idle",
                               !.reply = r]]

(* A NULL or freed pointer is used: what htxd does from here on is undefined *)
(* (it crashes, in practice), and the model stops.                          *)
Undefined ==
    /\ undefined' = TRUE
    /\ UNCHANGED <<daemon, ecgs, loads, helpers, mq, th, lost>>

Live(m) == m # 0 /\ mgr[m].st = "live"

(* htxd_send_message does not wait for room: the message is sent or lost.   *)
(* The queue it is sent to is that of the daemon's ECG manager.             *)
Room == mq.n + (IF mq.final THEN 1 ELSE 0) < QueueSize
htxd_send_message == mq' = [mq EXCEPT !.n = IF mq.exists /\ Room THEN @ + 1 ELSE @]

Init ==
    /\ state = "IDLE" /\ test = "HALTED"
    /\ ecg_shutdown_flag = FALSE /\ htxd_shutdown_flag = FALSE
    /\ manager = 0
    /\ mgr = [m \in Mgrs |-> NoMgr]
    /\ node = [n \in Nodes |-> NoNode]
    /\ next_key_offset = 0
    /\ ipc = [k \in Keys |-> 0]
    /\ exers = {} /\ killed = {} /\ syscfg = FALSE /\ monitors = FALSE
    /\ pid = [h \in Helpers |-> 0]
    /\ proc = [p \in Procs |-> NoProc]
    /\ termed = {}
    /\ mq = NoQueue
    /\ th = [t \in Threads |->
               [IdleThread EXCEPT !.pc = IF t = Main THEN "boot" ELSE "idle"]]
    /\ lost = {} /\ undefined = FALSE

(* option_list: the daemon states in which a command is let in.             *)
command_state(c) ==
    CASE c = "createmdt" -> {"IDLE"}
      [] c = "select" -> {"IDLE"}
      [] c = "run" -> {"IDLE", "SELECTED"}
      [] c = "shutdown" -> {"SELECTED", "RUNNING"}

(* Bound: what a start may allocate is there for every start let in.        *)
Affordable ==
    LET starts == 1 + Cardinality({t \in Threads : th[t].cmd \in {"run", "select"}})
    IN  /\ Cardinality({n \in Nodes : node[n].mdt = None}) >= starts
        /\ Cardinality({m \in Mgrs : mgr[m].st = "none"}) >= starts
        /\ Cardinality({p \in Procs : proc[p].st = "none"}) >= 3 * starts

(* htxd_process_command checks the state once, then calls the method.       *)
process_command(s, c, m) ==
    /\ th[Main].pc = "accept" /\ At(s, "idle")
    /\ Quiet => ~htxd_shutdown_flag
    /\ c \in Cmds /\ state \in command_state(c)
    /\ (c \in {"run", "select"}) => Affordable
    /\ (m = None) => (c \in {"shutdown", "createmdt"})
    /\ (c = "createmdt") => (m = None)
    /\ th' = [th EXCEPT ![s] = [IdleThread EXCEPT !.pc = c, !.cmd = c, !.mdt = m]]
    /\ UNCHANGED <<daemon, ecgs, loads, helpers, mq, lost, undefined>>

(* htxd_autostart: before the first accept, the main thread may run an MDT. *)
autostart ==
    /\ At(Main, "boot")
    /\ \/ Goto(Main, "accept")
       \/ /\ "autostart" \in Events
          /\ \E m \in Mdts : th' = [th EXCEPT ![Main].pc = "run",
                                             ![Main].cmd = "run",
                                             ![Main].mdt = m]
    /\ UNCHANGED <<daemon, ecgs, loads, helpers, mq, lost, undefined>>

(* htxd_option_method_create_mdt: the shell profile takes minutes.          *)
create_mdt(t) ==
    /\ At(t, "createmdt")
    /\ state' = "CREATING"
    /\ Goto(t, "created")
    /\ UNCHANGED <<test, ecg_shutdown_flag, htxd_shutdown_flag, ecgs, loads,
                   helpers, mq, lost, undefined>>

\* Mutation of created: the state is not set back.
created(t) ==
    /\ At(t, "created")
    /\ state' = "IDLE"
    /\ Reply(t, "created")
    /\ UNCHANGED <<test, ecg_shutdown_flag, htxd_shutdown_flag, ecgs, loads,
                   helpers, mq, lost, undefined>>

----------------------------------------------------------------------------
(* select and run: from a name to a listed, initialised MDT                 *)

select_mdt(t) ==
    /\ At(t, "select")
    /\ \/ /\ state \in {"SELECTED", "RUNNING"} /\ Reply(t, "refused")
       \/ /\ state \notin {"SELECTED", "RUNNING"} /\ Reply(t, "invalid")
       \/ /\ state \notin {"SELECTED", "RUNNING"}
          /\ th' = [th EXCEPT ![t].pc = "mgr", ![t].mgr = manager]
    /\ UNCHANGED <<daemon, ecgs, loads, helpers, mq, lost, undefined>>

(* run reads the manager pointer once, before the shell profile is run and  *)
(* the file is looked for, and uses that copy to the end.                   *)
run_mdt(t) ==
    /\ At(t, "run")
    /\ ecg_shutdown_flag' = FALSE
    /\ \/ Reply(t, "invalid")
       \/ th' = [th EXCEPT ![t].pc = "mgr", ![t].mgr = manager]
    /\ UNCHANGED <<state, test, htxd_shutdown_flag, ecgs, loads, helpers, mq,
                   lost, undefined>>

(* create_ecg_manager also creates, or finds, the message queue, and select *)
(* says that the daemon woke up.                                            *)
create_ecg_manager(t) ==
    /\ At(t, "mgr")
    /\ LET w == IF th[t].cmd = "run" THEN "hxsmsg" ELSE "name"
       IN  \/ /\ th[t].mgr # 0
              /\ Goto(t, w)
              /\ UNCHANGED <<manager, mgr, mq>>
           \/ /\ th[t].mgr = 0
              /\ \E m \in Mgrs :
                   /\ mgr[m].st = "none" /\ \A x \in 1..(m - 1) : mgr[x].st # "none"
                   /\ mgr' = [mgr EXCEPT ![m] = [NoMgr EXCEPT !.st = "live"]]
                   /\ manager' = m
                   /\ th' = [th EXCEPT ![t].pc = w, ![t].mgr = m]
              /\ mq' = [mq EXCEPT !.exists = TRUE,
                                  !.n = IF th[t].cmd = "select" /\ Room THEN @ + 1
                                        ELSE @]
    /\ UNCHANGED <<daemon, node, next_key_offset, ipc, loads, helpers, lost,
                   undefined>>

(* "already running" is looked up in the daemon's manager, not in the copy. *)
Name(t) ==
    /\ At(t, "name")
    /\ LET m == th[t].mdt
           known == Live(manager) /\ \E n \in Listed(manager) : node[n].mdt = m
           look == th[t].cmd = "select" \/ state # "SELECTED"
       IN  \/ /\ ~Live(IF look THEN manager ELSE th[t].mgr) /\ Undefined
           \/ /\ look /\ known
              /\ Reply(t, "already")
              /\ UNCHANGED <<daemon, ecgs, mq, undefined>>
           \/ /\ look /\ Live(manager) /\ ~known
              /\ IF th[t].cmd = "select" THEN state' = "SELECTING" /\ UNCHANGED mq
                 ELSE htxd_send_message /\ UNCHANGED state
              /\ Goto(t, "alloc")
              /\ UNCHANGED <<test, ecg_shutdown_flag, htxd_shutdown_flag, ecgs,
                             undefined>>
           \/ /\ ~look /\ Live(th[t].mgr) /\ mgr[th[t].mgr].selected # m
              /\ Reply(t, "refused")
              /\ UNCHANGED <<daemon, ecgs, mq, undefined>>
           \/ /\ ~look /\ Live(th[t].mgr) /\ mgr[th[t].mgr].selected = m
              /\ mgr' = [mgr EXCEPT ![th[t].mgr].selected = None]
              /\ Goto(t, "starting")
              /\ UNCHANGED <<daemon, manager, node, next_key_offset, ipc, mq,
                             undefined>>
    /\ UNCHANGED <<loads, helpers, lost>>

(* htxd_allocate_ecg_info appends a node and makes it the current one.      *)
allocate_ecg_info(t) ==
    /\ At(t, "alloc")
    /\ \/ /\ ~Live(th[t].mgr) /\ Undefined
       \/ /\ Live(th[t].mgr)
          /\ \E n \in Nodes :
               /\ node[n].mdt = None /\ \A x \in 1..(n - 1) : node[x].mdt # None
               /\ node' = [node EXCEPT ![n].mdt = th[t].mdt]
               /\ mgr' = [mgr EXCEPT ![th[t].mgr].list = Append(@, n),
                                     ![th[t].mgr].current = n]
          /\ Goto(t, "key")
          /\ UNCHANGED <<daemon, manager, next_key_offset, ipc, undefined>>
    /\ UNCHANGED <<loads, helpers, mq, lost>>

(* htxd_get_next_key_offset skips the offset of a listed MDT, and the one   *)
(* the new node's uninitialised key happens to hold (EcgKeys has the scan). *)
next_key_offsets(m) ==
    LET taken == \E n \in Listed(m) :
                   node[n].shm /\ node[n].key = next_key_offset
        base == IF taken THEN next_key_offset + 1 ELSE next_key_offset
    IN  {IF k > KeyLimit THEN KeyLimit ELSE k : k \in {base, base + 1}}

(* htxd_init_ecg_info: semget and shmget take the IPC found under the key,  *)
(* or create it.  When they fail ("ipc") the node stays, uninitialised, and *)
(* is not counted; the callers do not look at the return code.              *)
init_ecg_info(t) ==
    /\ At(t, "key")
    /\ LET m == th[t].mgr
           n == mgr[m].current
       IN  \/ /\ ~Live(m) /\ Undefined
           \/ /\ Live(m) /\ n # 0
              /\ \E k \in next_key_offsets(m) :
                   /\ next_key_offset' = k
                   /\ \/ LET id == IF ipc[k] = 0 THEN n ELSE ipc[k]
                         IN  /\ ipc' = [ipc EXCEPT ![k] = id]
                             /\ node' = [node EXCEPT ![n].key = k, ![n].id = id,
                                                     ![n].shm = TRUE]
                             /\ mgr' = [mgr EXCEPT ![m].len = @ + 1]
                      \/ /\ "ipc" \in Events
                         /\ node' = [node EXCEPT ![n].key = k]
                         /\ UNCHANGED <<ipc, mgr>>
              /\ Goto(t, IF th[t].cmd = "run" THEN "starting" ELSE "hxsmsg")
              /\ UNCHANGED <<daemon, manager, undefined>>
    /\ UNCHANGED <<loads, helpers, mq, lost>>

selected(t) ==
    /\ At(t, "selected")
    /\ \/ /\ ~Live(th[t].mgr) \/ manager = 0
          /\ Undefined
       \/ /\ Live(th[t].mgr) /\ manager # 0
          /\ mgr' = [mgr EXCEPT ![th[t].mgr].selected = th[t].mdt]
          /\ htxd_send_message
          /\ state' = "SELECTED"
          /\ Reply(t, "selected")
          /\ UNCHANGED <<test, ecg_shutdown_flag, htxd_shutdown_flag, manager,
                         node, next_key_offset, ipc, undefined>>
    /\ UNCHANGED <<loads, helpers, lost>>

----------------------------------------------------------------------------
(* Helper processes                                                         *)

(* htxd_load_hxsmsg, htxd_load_hxstats, htxd_start_equaliser: where the     *)
(* thread goes after the helper is loaded, or was loaded already.           *)
AfterLoad(t, h) ==
    CASE h = "hxsmsg" -> IF th[t].cmd = "run" THEN "name" ELSE "selected"
      [] h = "hxstats" -> "equaliser"
      [] h = "equaliser" -> "monitors"

Wanted(t, h) ==
    (h = "equaliser") => node[mgr[th[t].mgr].current].mdt \in EqMdts

(* htxd_check_for_equaliser_start looks into the thread's ECG manager.      *)
Readable(t, h) == (h = "equaliser") => Live(th[t].mgr)

Unreadable(t, h) == At(t, h) /\ th[t].pid = 0 /\ ~Readable(t, h) /\ Undefined

LoadedAlready(t, h) ==
    /\ At(t, h) /\ th[t].pid = 0 /\ Readable(t, h)
    /\ pid[h] # 0 \/ ~Wanted(t, h)
    /\ Goto(t, AfterLoad(t, h))
    /\ UNCHANGED <<daemon, ecgs, loads, helpers, mq, lost, undefined>>

Fork(t, h) ==
    /\ At(t, h) /\ th[t].pid = 0 /\ Readable(t, h)
    /\ pid[h] = 0 /\ Wanted(t, h)
    /\ \E p \in Procs :
         /\ proc[p].st = "none" /\ \A q \in 1..(p - 1) : proc[q].st # "none"
         /\ proc' = [proc EXCEPT ![p] = [kind |-> h, st |-> "alive"]]
         /\ th' = [th EXCEPT ![t].pid = p]
    /\ UNCHANGED <<daemon, ecgs, loads, pid, termed, mq, lost, undefined>>

(* The parent stores the pid: in vain when the helper has been reaped.  For *)
(* run, a message to the hxsmsg just started follows.                       *)
StorePid(t, h) ==
    LET says == h = "hxsmsg" /\ th[t].cmd = "run"
    IN  /\ At(t, h) /\ th[t].pid # 0
        /\ \/ /\ says /\ manager = 0 /\ Undefined
           \/ /\ says => manager # 0
              /\ pid' = [pid EXCEPT ![h] = th[t].pid]
              /\ lost' = IF proc[th[t].pid].st = "reaped" THEN lost \cup {"pid"}
                         ELSE lost
              /\ th' = [th EXCEPT ![t].pid = 0, ![t].pc = AfterLoad(t, h)]
              /\ IF says THEN htxd_send_message ELSE UNCHANGED mq
              /\ UNCHANGED <<proc, termed, undefined>>
        /\ UNCHANGED <<daemon, ecgs, loads>>

----------------------------------------------------------------------------
(* run: from an initialised MDT to a running one                            *)

\* Mutation of starting: the daemon says that it runs before it has started.
StartingRuns(t) ==
    /\ At(t, "starting")
    /\ \/ /\ ~Live(th[t].mgr) /\ Undefined
       \/ /\ Live(th[t].mgr)
          /\ state' = "RUNNING"
          /\ Goto(t, "syscfg")
          /\ UNCHANGED <<test, ecg_shutdown_flag, htxd_shutdown_flag, undefined>>
    /\ UNCHANGED <<ecgs, loads, helpers, mq, lost>>

starting(t) ==
    /\ At(t, "starting")
    /\ \/ /\ ~Live(th[t].mgr) /\ Undefined
       \/ /\ Live(th[t].mgr)
          /\ state' = "STARTING"
          /\ Goto(t, "syscfg")
          /\ UNCHANGED <<test, ecg_shutdown_flag, htxd_shutdown_flag, undefined>>
    /\ UNCHANGED <<ecgs, loads, helpers, mq, lost>>

(* When init_syscfg fails the command ends here, in state STARTING.         *)
init_syscfg(t) ==
    /\ At(t, "syscfg")
    /\ \/ syscfg' = TRUE /\ Goto(t, "activate")
       \/ /\ "syscfg" \in Events /\ ~syscfg
          /\ Reply(t, "failed")
          /\ UNCHANGED syscfg
    /\ UNCHANGED <<daemon, ecgs, exers, killed, monitors, helpers, mq, lost,
                   undefined>>

\* Mutation of activate_all_ecg_devices: the devices are not activated.
ActivateNone(t) ==
    /\ At(t, "activate")
    /\ LET n == mgr[th[t].mgr].current
       IN  \/ /\ ~Live(th[t].mgr) \/ ~node[n].shm
              /\ Undefined
           \/ /\ Live(th[t].mgr) /\ node[n].shm
              /\ exers' = exers
              /\ Goto(t, "started")
              /\ UNCHANGED <<killed, syscfg, monitors, undefined>>
    /\ UNCHANGED <<daemon, ecgs, helpers, mq, lost>>

(* htxd_activate_all_ecg_devices forks the exercisers and writes their pids *)
(* to the shared memory ...                                                 *)
activate_all_ecg_devices(t) ==
    /\ At(t, "activate")
    /\ LET n == mgr[th[t].mgr].current
       IN  \/ /\ ~Live(th[t].mgr) \/ ~node[n].shm
              /\ Undefined
           \/ /\ Live(th[t].mgr) /\ node[n].shm
              /\ exers' = exers \cup {n}
              /\ Goto(t, "started")
              /\ UNCHANGED <<killed, syscfg, monitors, undefined>>
    /\ UNCHANGED <<daemon, ecgs, helpers, mq, lost>>

(* ... and, ten seconds later, marks it started.                            *)
started(t) ==
    /\ At(t, "started")
    /\ \/ /\ ~Live(th[t].mgr) \/ ~node[mgr[th[t].mgr].current].shm
          /\ Undefined
       \/ /\ Live(th[t].mgr) /\ node[mgr[th[t].mgr].current].shm
          /\ Goto(t, "hxstats")
          /\ UNCHANGED undefined
    /\ UNCHANGED <<daemon, ecgs, loads, helpers, mq, lost>>

start_monitors(t) ==
    /\ At(t, "monitors")
    /\ monitors' = TRUE
    /\ Goto(t, "running")
    /\ UNCHANGED <<daemon, ecgs, exers, killed, syscfg, helpers, mq, lost, undefined>>

running(t) ==
    /\ At(t, "running")
    /\ \/ /\ ~Live(th[t].mgr) \/ manager = 0
          /\ Undefined
       \/ /\ Live(th[t].mgr) /\ manager # 0
          /\ test' = "ACTIVATED"
          /\ mgr' = [mgr EXCEPT ![th[t].mgr].running = th[t].mdt]
          /\ htxd_send_message
          /\ state' = "RUNNING"
          /\ Reply(t, "activated")
          /\ UNCHANGED <<ecg_shutdown_flag, htxd_shutdown_flag, manager, node,
                         next_key_offset, ipc, undefined>>
    /\ UNCHANGED <<loads, helpers, lost>>

----------------------------------------------------------------------------
(* shutdown                                                                 *)

(* The last listed node of a name, 0 when there is none.                    *)
NodeOf(m, name) ==
    LET S == {i \in 1..Len(mgr[m].list) : node[mgr[m].list[i]].mdt = name}
    IN  IF S = {} THEN 0
        ELSE mgr[m].list[CHOOSE i \in S : \A j \in S : j <= i]

(* Without a name: the selected MDT, or the first one listed.               *)
NameToStop(t) ==
    IF th[t].mdt # None THEN th[t].mdt
    ELSE IF state = "SELECTED" THEN mgr[manager].selected
    ELSE node[Head(mgr[manager].list)].mdt

shutdown_mdt(t) ==
    /\ At(t, "shutdown")
    /\ LET open == state \in {"RUNNING", "SELECTED"}
           readable == /\ Live(manager)
                       /\ th[t].mdt # None \/ state = "SELECTED"
                          \/ mgr[manager].list # <<>>
       IN  \/ /\ ~open /\ Reply(t, "inactive")
              /\ UNCHANGED undefined
           \/ /\ open /\ th[t].mdt # None /\ Reply(t, "invalid")
              /\ UNCHANGED undefined
           \/ /\ open /\ ~readable /\ Undefined
           \/ /\ open /\ readable
              /\ LET n == NodeOf(manager, NameToStop(t))
                 IN  IF n = 0 THEN Reply(t, "inactive")
                     ELSE th' = [th EXCEPT ![t].pc = "detach", ![t].node = n]
              /\ UNCHANGED undefined
    /\ UNCHANGED <<daemon, ecgs, loads, helpers, mq, lost>>

(* htxd_remove_ecg_info_node trusts the count of initialised MDTs: with     *)
(* another value than one it follows the links of the node.                 *)
Detached(m, n) == SelectSeq(mgr[m].list, LAMBDA x : x # n)
Removable(m, n) ==
    /\ Live(m) /\ mgr[m].len # 0
    /\ (mgr[m].len # 1) => (Len(mgr[m].list) > 1)
remove_ecg_info_node(m, n) ==
    mgr' = [mgr EXCEPT ![m].list = IF mgr[m].len = 1 THEN <<>> ELSE Detached(m, n),
                       ![m].len = @ - 1]

detach(t) ==
    /\ At(t, "detach")
    /\ \/ /\ ~Removable(manager, th[t].node) /\ Undefined
       \/ /\ Removable(manager, th[t].node)
          /\ state' = "SHUTTING_DOWN"
          /\ ecg_shutdown_flag' = TRUE
          /\ remove_ecg_info_node(manager, th[t].node)
          /\ Goto(t, "unload")
          /\ UNCHANGED <<test, htxd_shutdown_flag, manager, node,
                         next_key_offset, ipc, undefined>>
    /\ UNCHANGED <<loads, helpers, mq, lost>>

\* Mutation of unload_exercisers: entries without a process are signalled too.
(* htxd_unload_exercisers: flag and signal, then wait for every pid to be 0. *)
unload_exercisers(t) ==
    /\ At(t, "unload")
    /\ \/ /\ ~node[th[t].node].shm /\ Undefined
       \/ /\ node[th[t].node].shm
          /\ killed' = killed \cup ({th[t].node} \cap exers)
          /\ Goto(t, "unloadWait")
          /\ UNCHANGED <<exers, syscfg, monitors, undefined>>
    /\ UNCHANGED <<daemon, ecgs, helpers, mq, lost>>

(* The shutdown command reports, and idles the daemon after the last MDT.    *)
unloaded(t) ==
    /\ At(t, "unloadWait") /\ th[t].node \notin exers
    /\ \/ /\ manager = 0 /\ Undefined
       \/ /\ manager # 0
          /\ IF t # Main THEN htxd_send_message ELSE UNCHANGED mq
          /\ Goto(t, IF t # Main /\ mgr[manager].len = 0 THEN "idle1"
                     ELSE "cleanup")
          /\ UNCHANGED undefined
    /\ UNCHANGED <<daemon, ecgs, loads, helpers, lost>>

(* htxd_cleanup_ecg_ipc removes by id: what is found under the key, unless  *)
(* it was created after the node's was removed.                             *)
cleanup_ecg_ipc(t) ==
    /\ At(t, "cleanup")
    /\ LET n == th[t].node
       IN  /\ ipc' = [k \in Keys |-> IF ipc[k] = node[n].id THEN 0 ELSE ipc[k]]
           /\ node' = [node EXCEPT ![n].shm = FALSE]
    /\ IF t = Main THEN Goto(t, "all") ELSE Reply(t, "shutdown")
    /\ UNCHANGED <<daemon, manager, mgr, next_key_offset, loads, helpers, mq,
                   lost, undefined>>

----------------------------------------------------------------------------
(* htxd_idle_daemon                                                         *)

\* Mutation of idle_daemon: hxstats and equaliser are not signalled.
IdleNoSignal(t) ==
    /\ At(t, "idle1")
    /\ \/ /\ ~Live(manager) /\ Undefined
       \/ /\ Live(manager)
          /\ monitors' = FALSE
          /\ UNCHANGED termed
          /\ IF mq.exists /\ Room
             THEN mq' = [mq EXCEPT !.final = TRUE] /\ UNCHANGED lost
             ELSE /\ lost' = IF pid["hxsmsg"] # 0 THEN lost \cup {"final"} ELSE lost
                  /\ UNCHANGED mq
          /\ Goto(t, "waitStats")
          /\ UNCHANGED <<exers, killed, syscfg, pid, proc, undefined>>
    /\ UNCHANGED <<daemon, ecgs>>

(* Monitors are cancelled and joined, hxstats and equaliser signalled, and  *)
(* hxsmsg told to end by a message that is sent without waiting for room.   *)
idle_daemon(t) ==
    /\ At(t, "idle1")
    /\ \/ /\ ~Live(manager) /\ Undefined
       \/ /\ Live(manager)
          /\ monitors' = FALSE
          /\ termed' = termed \cup ({pid["hxstats"], pid["equaliser"]} \ {0})
          /\ IF mq.exists /\ Room
             THEN mq' = [mq EXCEPT !.final = TRUE] /\ UNCHANGED lost
             ELSE /\ lost' = IF pid["hxsmsg"] # 0 THEN lost \cup {"final"} ELSE lost
                  /\ UNCHANGED mq
          /\ Goto(t, "waitStats")
          /\ UNCHANGED <<exers, killed, syscfg, pid, proc, undefined>>
    /\ UNCHANGED <<daemon, ecgs>>

\* Mutation of WaitFor: the daemon does not wait for the helper.
WaitForNone(t, w, h, next) ==
    /\ At(t, w)
    /\ Goto(t, next)
    /\ UNCHANGED <<daemon, ecgs, loads, helpers, mq, lost, undefined>>

(* The three waits, in the order of the code.                               *)
WaitFor(t, w, h, next) ==
    /\ At(t, w) /\ pid[h] = 0
    /\ Goto(t, next)
    /\ UNCHANGED <<daemon, ecgs, loads, helpers, mq, lost, undefined>>

idle_waits(t) == \/ WaitFor(t, "waitStats", "hxstats", "waitMsg")
                 \/ WaitFor(t, "waitMsg", "hxsmsg", "waitEq")
                 \/ WaitFor(t, "waitEq", "equaliser", "idle2")

(* htxd_cleanup_system_shm frees the manager before the state is IDLE.      *)
cleanup_system_shm(t) ==
    /\ At(t, "idle2")
    /\ \/ /\ ~Live(manager) /\ Undefined
       \/ /\ Live(manager)
          /\ syscfg' = FALSE
          /\ mgr' = [mgr EXCEPT ![manager].st = "freed"]
          /\ manager' = 0
          /\ state' = "IDLE"
          /\ Goto(t, "idle3")
          /\ UNCHANGED <<test, ecg_shutdown_flag, htxd_shutdown_flag, node,
                         next_key_offset, ipc, exers, killed, monitors, undefined>>
    /\ UNCHANGED <<helpers, mq, lost>>

idle(t) ==
    /\ At(t, "idle3")
    /\ test' = "HALTED"
    /\ Goto(t, IF t = Main THEN "exited" ELSE "cleanup")
    /\ UNCHANGED <<state, ecg_shutdown_flag, htxd_shutdown_flag, ecgs, loads,
                   helpers, mq, lost, undefined>>

----------------------------------------------------------------------------
(* The main thread                                                          *)

sig_end ==
    /\ "sigterm" \in Events /\ ~gone /\ ~htxd_shutdown_flag
    /\ Quiet => \A s \in Sessions : th[s].pc = "idle"
    /\ htxd_shutdown_flag' = TRUE
    /\ UNCHANGED <<state, test, ecg_shutdown_flag, ecgs, loads, helpers, mq, th,
                   lost, undefined>>

\* Mutation of leave_loop: the daemon leaves its loop only when it is idle.
LeaveWhenIdle ==
    /\ At(Main, "accept") /\ htxd_shutdown_flag
    /\ \/ state = "IDLE" /\ Goto(Main, "exited") /\ UNCHANGED undefined
    /\ UNCHANGED <<daemon, ecgs, loads, helpers, mq, lost>>

\* Mutation of leave_loop: the shutdown does not look at the daemon state.
LeaveUntested ==
    /\ At(Main, "accept") /\ htxd_shutdown_flag
    /\ \/ manager = 0 /\ Undefined
       \/ manager # 0 /\ Goto(Main, "all") /\ UNCHANGED undefined
    /\ UNCHANGED <<daemon, ecgs, loads, helpers, mq, lost>>

(* The accept loop ends; htxd_shutdown_all_mdt does nothing when IDLE.      *)
leave_loop ==
    /\ At(Main, "accept") /\ htxd_shutdown_flag
    /\ \/ state = "IDLE" /\ Goto(Main, "exited") /\ UNCHANGED undefined
       \/ state # "IDLE" /\ manager = 0 /\ Undefined
       \/ state # "IDLE" /\ manager # 0 /\ Goto(Main, "all") /\ UNCHANGED undefined
    /\ UNCHANGED <<daemon, ecgs, loads, helpers, mq, lost>>

shutdown_all_mdt ==
    /\ At(Main, "all")
    /\ \/ /\ ~Live(manager) /\ Undefined
       \/ /\ Live(manager) /\ mgr[manager].list = <<>>
          /\ Goto(Main, "idle1")
          /\ UNCHANGED <<mgr, undefined>>
       \/ /\ Live(manager) /\ mgr[manager].list # <<>>
          /\ LET n == Head(mgr[manager].list)
             IN  \/ /\ ~Removable(manager, n) /\ Undefined
                 \/ /\ Removable(manager, n)
                    /\ remove_ecg_info_node(manager, n)
                    /\ th' = [th EXCEPT ![Main].pc = "unload", ![Main].node = n]
                    /\ UNCHANGED undefined
    /\ UNCHANGED <<daemon, manager, node, next_key_offset, ipc, loads, helpers,
                   mq, lost>>

----------------------------------------------------------------------------
(* The processes around htxd                                                *)

\* Mutation of Ends: the pid of the equaliser is not forgotten.
EndsKeepsEqualiser(p) ==
    /\ proc' = [proc EXCEPT ![p].st = "reaped"]
    /\ pid' = IF gone THEN pid
              ELSE [h \in Helpers |-> IF pid[h] = p /\ h # "equaliser" THEN 0 ELSE pid[h]]
    /\ termed' = termed \ {p}

(* A helper ends, and child_death (SIGCHLD) reaps it: whichever helper has  *)
(* this pid is forgotten.                                                   *)
Ends(p) ==
    /\ proc' = [proc EXCEPT ![p].st = "reaped"]
    /\ pid' = IF gone THEN pid
              ELSE [h \in Helpers |-> IF pid[h] = p THEN 0 ELSE pid[h]]
    /\ termed' = termed \ {p}

child_death(p) ==
    /\ proc[p].st = "alive"
    /\ p \in termed \/ "helper" \in Events
    /\ proc[p].kind = "hxsmsg" => "hxsmsg" \in Events
    /\ Ends(p)
    /\ UNCHANGED <<daemon, ecgs, loads, mq, th, lost, undefined>>

Hxsmsg(p) == proc[p] = [kind |-> "hxsmsg", st |-> "alive"]

(* read_message takes the message of the lowest type: the final one last.   *)
read_message(p) ==
    /\ Hxsmsg(p) /\ mq.n > 0
    /\ mq' = [mq EXCEPT !.n = @ - 1]
    /\ UNCHANGED <<daemon, ecgs, loads, helpers, th, lost, undefined>>

(* On HTX_SYS_FINAL_MSG hxsmsg removes the queue and exits.                 *)
final_message(p) ==
    /\ Hxsmsg(p) /\ mq.n = 0 /\ mq.final
    /\ mq' = NoQueue
    /\ Ends(p)
    /\ UNCHANGED <<daemon, ecgs, loads, th, lost, undefined>>

(* Exercisers report; the kernel blocks them while the queue is full.       *)
htx_message ==
    /\ exers # {} /\ mq.exists /\ Room
    /\ mq' = [mq EXCEPT !.n = @ + 1]
    /\ UNCHANGED <<daemon, ecgs, loads, helpers, th, lost, undefined>>

(* Exercisers that were sent SIGTERM end, and their pids are cleared.       *)
exercisers_end(n) ==
    /\ n \in killed
    /\ exers' = exers \ {n} /\ killed' = killed \ {n}
    /\ UNCHANGED <<daemon, ecgs, syscfg, monitors, helpers, mq, th, lost, undefined>>

----------------------------------------------------------------------------
Start(t) ==
    \/ create_mdt(t) \/ created(t) \/ select_mdt(t) \/ run_mdt(t)
    \/ create_ecg_manager(t) \/ Name(t) \/ allocate_ecg_info(t)
    \/ init_ecg_info(t) \/ selected(t)
    \/ \E h \in Helpers : \/ Unreadable(t, h) \/ LoadedAlready(t, h)
                          \/ Fork(t, h) \/ StorePid(t, h)
    \/ starting(t) \/ init_syscfg(t) \/ activate_all_ecg_devices(t)
    \/ started(t) \/ start_monitors(t) \/ running(t)

Stop(t) ==
    \/ shutdown_mdt(t) \/ detach(t) \/ unload_exercisers(t) \/ unloaded(t)
    \/ cleanup_ecg_ipc(t) \/ idle_daemon(t) \/ idle_waits(t)
    \/ cleanup_system_shm(t) \/ idle(t)

Step(t) == Start(t) \/ Stop(t)
MainStep == autostart \/ leave_loop \/ shutdown_all_mdt
Process ==
    \/ htx_message
    \/ \E p \in Procs : child_death(p) \/ read_message(p) \/ final_message(p)
    \/ \E n \in Nodes : exercisers_end(n)

Next ==
    \/ \E s \in Sessions, c \in Cmds, m \in Mdts \cup {None} : process_command(s, c, m)
    \/ \E t \in Threads : Step(t)
    \/ MainStep \/ sig_end
    \/ Process

Spec == Init /\ [][Next]_vars

(* Threads run, hxsmsg reads, and what was told to end by a signal ends     *)
(* (for exercisers: UnloadEnds of DeviceControl).  Nothing else is fair: no *)
(* client has to issue a command and nothing has to fail.                   *)
Fairness ==
    /\ \A t \in Threads : WF_vars(Step(t))
    /\ WF_vars(MainStep)
    /\ \A p \in Procs : /\ WF_vars(read_message(p) \/ final_message(p))
                        /\ WF_vars(p \in termed /\ child_death(p))
    /\ \A n \in Nodes : WF_vars(exercisers_end(n))

FairSpec == Spec /\ Fairness

----------------------------------------------------------------------------
(* Properties                                                               *)

(* No command is being processed.                                           *)
Quiescent ==
    /\ th[Main].pc = "accept" /\ ~undefined
    /\ \A s \in Sessions : th[s].pc = "idle"

(* A daemon that says IDLE between commands holds nothing: htxd_idle_daemon *)
(* and the early returns of run and select leave no manager, no exerciser,  *)
(* no helper process or pid, no IPC, no monitor and no syscfg behind.       *)
IdleIsClean ==
    (Quiescent /\ state = "IDLE") =>
      /\ manager = 0 /\ test = "HALTED" /\ exers = {}
      /\ ~syscfg /\ ~monitors
      /\ \A h \in Helpers : pid[h] = 0
      /\ \A p \in Procs : proc[p].st # "alive"
      /\ \A k \in Keys : ipc[k] = 0

(* run_mdt's "ECG (%s) Activated.": while the daemon runs an MDT between    *)
(* commands, the listed MDT has exercisers, and the semaphores and shared   *)
(* memory they were started with still exist.                               *)
ActivatedHasIpc ==
    (Quiescent /\ state = "RUNNING" /\ Len(mgr[manager].list) = 1) =>
      \A n \in Listed(manager) :
        /\ n \in exers
        /\ node[n].shm /\ ipc[node[n].key] = node[n].id

(* No pointer to a freed or missing ECG manager, node or shared memory is   *)
(* used by the command methods, autostart, or the shutdown of the daemon.   *)
NothingUndefined == ~undefined

(* htxd_set_*_pid and child_death keep the helpers' pids exact: a pid that  *)
(* htxd holds is that of a live process of that kind, unless the process    *)
(* had been reaped before its pid was stored.                               *)
HeldPidIsAlive ==
    (~gone /\ "pid" \notin lost) =>
      \A h \in Helpers : pid[h] # 0 => proc[pid[h]] = [kind |-> h, st |-> "alive"]

(* The MDT that is loaded.                                                  *)
Loaded ==
    IF Live(manager) /\ mgr[manager].list # <<>>
    THEN node[Head(mgr[manager].list)].mdt ELSE None
Life == INSTANCE MdtLife WITH mode <- state, mdt <- Loaded

(* The daemon states refine MdtLife: one MDT at a time, loaded, started and *)
(* unloaded in order.                                                       *)
ImplementsMdtLife == Life!Spec

(* Every command that is let in ends, unless the final message to hxsmsg    *)
(* found the queue full or a helper was reaped before its pid was stored.   *)
CommandsEnd ==
    \A s \in Sessions :
      (th[s].pc # "idle") ~> (th[s].pc = "idle" \/ lost # {} \/ gone)

(* SIGTERM ends the daemon: htxd_shutdown_all_mdt, called between commands, *)
(* unloads every MDT and the process exits, under the same provisos.        *)
SigtermEnds == htxd_shutdown_flag ~> (th[Main].pc = "exited" \/ lost # {})

(* htxd_idle_daemon, "putting daemon back to idle state": the shutdown of   *)
(* the MDT ends in the idle state.                                          *)
ShutdownEnds ==
    (state = "SHUTTING_DOWN") ~> (state = "IDLE" \/ gone)
=============================================================================
