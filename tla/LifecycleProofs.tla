--------------------------- MODULE LifecycleProofs ---------------------------
(***************************************************************************)
(* Proofs about Lifecycle: the pids of the helpers for any number of       *)
(* clients, and the life of an MDT when one client at a time talks to the  *)
(* daemon.                                                                 *)
(***************************************************************************)
EXTENDS Lifecycle, TLAPS

(* The variables that hold functions and records.                          *)
IsThread(r) ==
    r = [pc |-> r.pc, cmd |-> r.cmd, mdt |-> r.mdt, mgr |-> r.mgr, node |-> r.node,
         pid |-> r.pid, reply |-> r.reply]
Records ==
    /\ th = [t \in Threads |-> th[t]] /\ \A t \in Threads : IsThread(th[t])
    /\ proc \in [Procs -> [kind : Helpers \cup {"none"}, st : {"none", "alive", "reaped"}]]
    /\ pid \in [Helpers -> Procs \cup {0}]

(* A pid that has not been stored yet is that of a process the thread has  *)
(* forked as the helper it loads.                                          *)
Pending(t) ==
    th[t].pid # 0 =>
      /\ th[t].pid \in Procs /\ th[t].pc \in Helpers /\ proc[th[t].pid].kind = th[t].pc
      /\ proc[th[t].pid].st # "none"

PidInv ==
    /\ Records /\ HeldPidIsAlive
    /\ \A t \in Threads : Pending(t)

-----------------------------------------------------------------------------
(***************************************************************************)
(* One client: at any time one thread works at most, and what it has done  *)
(* so far is all that has been done.                                       *)
(***************************************************************************)
IsMgr(r) ==
    r = [st |-> r.st, list |-> r.list, len |-> r.len, current |-> r.current,
         selected |-> r.selected, running |-> r.running]
IsNode(r) == r = [mdt |-> r.mdt, key |-> r.key, id |-> r.id, shm |-> r.shm]

MgrTypes == mgr = [m \in Mgrs |-> mgr[m]] /\ \A m \in Mgrs : IsMgr(mgr[m])
NodeTypes == node = [n \in Nodes |-> node[n]] /\ \A n \in Nodes : IsNode(node[n])
Types ==
    /\ manager \in Mgrs \cup {0} /\ MgrTypes /\ NodeTypes
    /\ next_key_offset \in Keys /\ ipc = [k \in Keys |-> ipc[k]]

Home(t) == IF t = Main THEN "accept" ELSE "idle"
Works(t) == th[t].pc # Home(t)

(* While one works the others do not, and the daemon is not told to end    *)
(* while a client's command is being processed.                            *)
OneWorks ==
    /\ \A t, u \in Threads : Works(t) /\ Works(u) => t = u
    /\ \A s \in Sessions : Works(s) => ~htxd_shutdown_flag

(* The MDT of the daemon, which stays the current one when it is unlisted. *)
current == mgr[manager].current

(* A node whose IPC is the only one there is.                              *)
Open(n) ==
    /\ n \in Nodes /\ node[n].mdt \in Mdts
    /\ node[n].shm /\ node[n].id = n /\ node[n].key \in Keys
    /\ \A k \in Keys : ipc[k] = IF k = node[n].key THEN n ELSE 0
NoIpc == \A k \in Keys : ipc[k] = 0

(* What the daemon holds, from nothing to a loaded MDT.                    *)
Nothing == manager = 0 /\ NoIpc /\ test = "HALTED"
Unlisted == manager # 0 /\ mgr[manager].list = <<>> /\ mgr[manager].len = 0
Fresh == Unlisted /\ NoIpc /\ exers = {}
Named ==
    /\ manager # 0 /\ current \in Nodes /\ node[current].mdt \in Mdts
    /\ mgr[manager].list = <<current>> /\ mgr[manager].len = 0
    /\ NoIpc /\ exers = {}
Full ==
    /\ manager # 0 /\ Open(current)
    /\ mgr[manager].list = <<current>> /\ mgr[manager].len = 1

Idle == state = "IDLE" /\ Nothing
Chosen == state = "SELECTED" /\ Full /\ exers = {}
Failed == state = "STARTING" /\ Full /\ exers = {}
Runs == state = "RUNNING" /\ Full /\ exers = {current}

(* Between two commands.                                                   *)
Rest == Idle \/ Chosen \/ Failed \/ Runs

(* Where the thread t is in its command.                                   *)
Begins(t) ==
    \/ th[t].pc \in {"boot", "createmdt"} /\ Idle
    \/ th[t].pc = "select" /\ th[t].cmd = "select" /\ th[t].mdt \in Mdts /\ Idle
    \/ th[t].pc = "created" /\ state = "CREATING" /\ Nothing
    \/ th[t].pc = "run" /\ th[t].cmd = "run" /\ th[t].mdt \in Mdts /\ (Idle \/ Chosen)
    \/ th[t].pc = "shutdown" /\ t # Main /\ (Chosen \/ Runs)

Loads(t) ==
    /\ th[t].mgr = manager /\ th[t].mdt \in Mdts
    /\ \/ th[t].pc = "mgr" /\ th[t].cmd \in {"run", "select"} /\ Idle
       \/ th[t].pc = "mgr" /\ th[t].cmd = "run" /\ Chosen
       \/ th[t].pc \in {"hxsmsg", "name"} /\ th[t].cmd = "run"
            /\ ((state = "IDLE" /\ Fresh) \/ Chosen)
       \/ th[t].pc = "name" /\ th[t].cmd = "select" /\ state = "IDLE" /\ Fresh
       \/ th[t].pc = "alloc" /\ th[t].cmd = "run" /\ state = "IDLE" /\ Fresh
       \/ th[t].pc = "alloc" /\ th[t].cmd = "select" /\ state = "SELECTING" /\ Fresh
       \/ th[t].pc = "key" /\ th[t].cmd = "run" /\ state = "IDLE" /\ Named
       \/ th[t].pc = "key" /\ th[t].cmd = "select" /\ state = "SELECTING" /\ Named
       \/ th[t].pc \in {"hxsmsg", "selected"} /\ th[t].cmd = "select"
            /\ state = "SELECTING" /\ Full /\ exers = {}

Starts(t) ==
    /\ th[t].mgr = manager /\ th[t].mdt \in Mdts /\ th[t].cmd = "run" /\ Full
    /\ \/ th[t].pc = "starting" /\ state \in {"IDLE", "SELECTED"} /\ exers = {}
       \/ th[t].pc \in {"syscfg", "activate"} /\ state = "STARTING" /\ exers = {}
       \/ th[t].pc \in {"started", "hxstats", "equaliser", "monitors", "running"}
            /\ state = "STARTING" /\ exers = {current}

Held == {"SELECTED", "STARTING", "RUNNING"}

Unloads(t) ==
    \/ th[t].pc = "detach" /\ t # Main /\ th[t].node = current /\ (Chosen \/ Runs)
    \/ /\ th[t].pc \in {"unload", "unloadWait"} /\ th[t].node = current
       /\ Unlisted /\ Open(current) /\ exers \subseteq {current}
       /\ IF t = Main THEN state \in Held ELSE state = "SHUTTING_DOWN"
    \/ /\ th[t].pc = "cleanup" /\ t = Main /\ th[t].node = current
       /\ Unlisted /\ Open(current) /\ exers = {} /\ state \in Held
    \/ /\ th[t].pc = "cleanup" /\ t # Main
       /\ manager = 0 /\ test = "HALTED" /\ state = "IDLE" /\ Open(th[t].node)
    \/ /\ th[t].pc = "all" /\ t = Main /\ state \in Held
       /\ (Full /\ exers \subseteq {current}) \/ Fresh

Idles(t) ==
    \/ /\ th[t].pc \in {"idle1", "waitStats", "waitMsg", "waitEq", "idle2"}
       /\ Unlisted /\ exers = {}
       /\ IF t = Main THEN state \in Held
          ELSE state = "SHUTTING_DOWN" /\ Open(th[t].node)
       /\ th[t].pc # "idle1" => ~monitors
       /\ th[t].pc \in {"waitMsg", "waitEq", "idle2"} => pid["hxstats"] = 0
       /\ th[t].pc \in {"waitEq", "idle2"} => pid["hxsmsg"] = 0
       /\ th[t].pc = "idle2" => pid["equaliser"] = 0
    \/ /\ th[t].pc = "idle3" /\ manager = 0 /\ state = "IDLE"
       /\ t # Main => Open(th[t].node)
    \/ th[t].pc = "exited" /\ t = Main

Phase(t) == Begins(t) \/ Loads(t) \/ Starts(t) \/ Unloads(t) \/ Idles(t)

(* Without a manager there is neither exerciser nor helper.                *)
Freed ==
    manager = 0 =>
      /\ exers = {} /\ ~syscfg /\ ~monitors
      /\ \A h \in Helpers : pid[h] = 0

(* A live helper is the one whose pid is held, or was forked just now.     *)
Children ==
    \A p \in Procs : proc[p].st = "alive" =>
      /\ proc[p].kind \in Helpers
      /\ pid[proc[p].kind] = p \/ \E t \in Threads : th[t].pid = p /\ th[t].pc = proc[p].kind

Signalled ==
    /\ killed \subseteq exers
    /\ killed # {} => \E t \in Threads : th[t].pc = "unloadWait"

OneInv ==
    /\ PidInv /\ Types /\ OneWorks /\ Children
    /\ ~undefined
    /\ manager # 0 => mgr[manager].st = "live"
    /\ th[Main].pc # "exited" =>
         /\ Freed /\ Signalled
         /\ \A t \in Threads : IF Works(t) THEN Phase(t) ELSE th[t].pid = 0
         /\ \A t \in Threads : th[t].pid # 0 => pid[th[t].pc] = 0
         /\ (\A t \in Threads : ~Works(t)) => Rest

-----------------------------------------------------------------------------
(***************************************************************************)
(* The pids of the helpers.                                                *)
(***************************************************************************)
(* The thread t goes on with the record r.                                 *)
Becomes(t, r) == IsThread(r) /\ th' = [u \in Threads |-> IF u = t THEN r ELSE th[u]]

(* The fields that a step to another place leaves alone.                   *)
Same(r, e) ==
    e.cmd = r.cmd /\ e.mdt = r.mdt /\ e.mgr = r.mgr /\ e.node = r.node /\ e.pid = r.pid

(* Going to a place writes nothing else of the thread's record.            *)
LEMMA SetPlace ==
    ASSUME NEW r, IsThread(r), NEW w
    PROVE  LET e == [r EXCEPT !.pc = w] IN IsThread(e) /\ e.pc = w /\ Same(r, e)
  BY DEF IsThread, Same

(* A step to another place in the command (Goto).                          *)
LEMMA GotoIs ==
    ASSUME Records, NEW t \in Threads, NEW w, Goto(t, w)
    PROVE  LET e == [th[t] EXCEPT !.pc = w] IN Becomes(t, e) /\ e.pc = w /\ Same(th[t], e)
  <1>1. IsThread(th[t]) /\ th = [u \in Threads |-> th[u]]
    BY Zenon DEF Records
  <1>2. th' = [u \in Threads |-> IF u = t THEN [th[t] EXCEPT !.pc = w] ELSE th[u]]
    BY <1>1 DEF Goto
  <1> QED BY <1>1, <1>2, SetPlace, Zenon DEF Becomes

(* The record of a thread that has replied.                                *)
Answer(t, a) == [IdleThread EXCEPT !.pc = Home(t), !.reply = a]

(* The end of a command (Reply).                                           *)
LEMMA ReplyIs ==
    ASSUME Records, NEW t \in Threads, NEW a, Reply(t, a)
    PROVE  Becomes(t, Answer(t, a)) /\ Answer(t, a).pc = Home(t) /\ Answer(t, a).pid = 0
  <1>1. IsThread(IdleThread) /\ IdleThread.pid = 0
    BY DEF IdleThread, IsThread
  <1>2. ASSUME NEW r, IsThread(r)
        PROVE  LET e == [r EXCEPT !.reply = a] IN IsThread(e) /\ e.pc = r.pc /\ e.pid = r.pid
    BY <1>2 DEF IsThread
  <1>3. LET e == [IdleThread EXCEPT !.pc = Home(t)] IN IsThread(e) /\ e.pc = Home(t) /\ e.pid = 0
    <2>1. LET e == [IdleThread EXCEPT !.pc = Home(t)] IN IsThread(e) /\ e.pc = Home(t) /\ Same(IdleThread, e)
      BY ONLY <1>1, SetPlace, Zenon
    <2> QED BY ONLY <1>1, <2>1, Zenon DEF Same
  <1>4. IsThread(Answer(t, a)) /\ Answer(t, a).pc = Home(t) /\ Answer(t, a).pid = 0
    BY <1>2, <1>3, Zenon DEF Answer
  <1>5. th' = [th EXCEPT ![t] = Answer(t, a)]
    BY Zenon DEF Reply, Home, Answer
  <1>6. th' = [u \in Threads |-> IF u = t THEN Answer(t, a) ELSE th[u]]
    BY <1>5 DEF Records
  <1> QED BY <1>4, <1>6, Zenon DEF Becomes

(* The other threads stay where they are.                                  *)
LEMMA OnlyOne ==
    ASSUME Records, NEW t \in Threads, NEW r, Becomes(t, r), UNCHANGED <<proc, pid>>
    PROVE  Records' /\ th'[t] = r /\ \A u \in Threads \ {t} : th'[u] = th[u]
  <1>1. th'[t] = r /\ \A u \in Threads \ {t} : th'[u] = th[u]
    BY Zenon DEF Becomes
  <1>2. \A u \in Threads : IsThread(th'[u])
    BY <1>1, Zenon DEF Becomes, Records
  <1>3. th' = [u \in Threads |-> th'[u]]
    BY DEF Becomes
  <1> QED BY <1>1, <1>2, <1>3, Zenon DEF Records, IsThread

(* A step that forks nothing and stores no pid, by a thread without a pid  *)
(* to store.                                                               *)
Plain(t) ==
    /\ ~gone /\ UNCHANGED <<proc, pid>> /\ lost \subseteq lost'
    /\ \E r : Becomes(t, r) /\ r.pid = 0

(* Such a step keeps the pids exact.                                       *)
LEMMA KeepsPids ==
    ASSUME PidInv, NEW t \in Threads, Plain(t)
    PROVE  PidInv'
  <1>0. PICK r : Becomes(t, r) /\ r.pid = 0
    BY Zenon DEF Plain
  <1>1. Records' /\ th'[t] = r /\ \A u \in Threads \ {t} : th'[u] = th[u]
    BY <1>0, OnlyOne, Zenon DEF Plain, PidInv
  <1>2. (\A u \in Threads : Pending(u))'
    BY <1>0, <1>1, Zenon DEF PidInv, Pending, Plain
  <1>3. HeldPidIsAlive'
    BY Zenon DEF PidInv, HeldPidIsAlive, Plain
  <1> QED BY <1>1, <1>2, <1>3, Zenon DEF PidInv

(* A step that leaves the threads alone, too.                              *)
LEMMA LeavesPids ==
    ASSUME PidInv, UNCHANGED <<proc, pid, th, lost>>, undefined => undefined'
    PROVE  PidInv'
  <1>1. (\A u \in Threads : Pending(u))'
    BY Zenon DEF PidInv, Pending
  <1>2. HeldPidIsAlive'
    BY Zenon DEF PidInv, HeldPidIsAlive, gone
  <1>3. Records'
    BY Zenon DEF PidInv, Records, IsThread
  <1> QED BY <1>1, <1>2, <1>3, Zenon DEF PidInv

(* A thread that loads no helper has no pid to store.                      *)
LEMMA NoPid ==
    ASSUME PidInv, NEW t \in Threads, th[t].pc \notin Helpers
    PROVE  th[t].pid = 0
  BY Zenon DEF PidInv, Pending

(* Steps that write another field of the thread as well.                   *)
SetsMgr(t, w, m) == th' = [th EXCEPT ![t].pc = w, ![t].mgr = m]

(* A step that stores the manager in the thread writes nothing else of it. *)
LEMMA MgrIs ==
    ASSUME Records, NEW t \in Threads, NEW w, NEW m, SetsMgr(t, w, m)
    PROVE  \E r : /\ Becomes(t, r) /\ r.pc = w /\ r.mgr = m
                  /\ r.cmd = th[t].cmd /\ r.mdt = th[t].mdt /\ r.node = th[t].node /\ r.pid = th[t].pid
  <1>1. IsThread(th[t]) /\ th = [u \in Threads |-> th[u]]
    BY Zenon DEF Records
  <1>2. PICK e : e = [th[t] EXCEPT !.pc = w]
    BY Zenon
  <1>3. PICK r : r = [e EXCEPT !.mgr = m]
    BY Zenon
  <1>4. IsThread(e) /\ e.pc = w /\ Same(th[t], e)
    BY <1>1, <1>2, SetPlace, Zenon
  <1>5. /\ IsThread(r) /\ r.pc = e.pc /\ r.mgr = m
        /\ r.cmd = e.cmd /\ r.mdt = e.mdt /\ r.node = e.node /\ r.pid = e.pid
    BY <1>3, <1>4 DEF IsThread
  <1>6. th' = [u \in Threads |-> IF u = t THEN r ELSE th[u]]
    BY <1>1, <1>2, <1>3 DEF SetsMgr
  <1> QED BY <1>4, <1>5, <1>6, Zenon DEF Becomes, Same

(* The MDT to stop is written.                                             *)
SetsNode(t, w, n) == th' = [th EXCEPT ![t].pc = w, ![t].node = n]

(* A step that stores a node in the thread writes nothing else of it.      *)
LEMMA NodeIs ==
    ASSUME Records, NEW t \in Threads, NEW w, NEW n, SetsNode(t, w, n)
    PROVE  \E r : Becomes(t, r) /\ r.pc = w /\ r.node = n /\ r.pid = th[t].pid
  <1>1. IsThread(th[t]) /\ th = [u \in Threads |-> th[u]]
    BY Zenon DEF Records
  <1>2. PICK e : e = [th[t] EXCEPT !.pc = w]
    BY Zenon
  <1>3. PICK r : r = [e EXCEPT !.node = n]
    BY Zenon
  <1>4. IsThread(e) /\ e.pc = w /\ Same(th[t], e)
    BY <1>1, <1>2, SetPlace, Zenon
  <1>5. IsThread(r) /\ r.pc = e.pc /\ r.node = n /\ r.pid = e.pid
    BY <1>3, <1>4 DEF IsThread
  <1>6. th' = [u \in Threads |-> IF u = t THEN r ELSE th[u]]
    BY <1>1, <1>2, <1>3 DEF SetsNode
  <1> QED BY <1>4, <1>5, <1>6, Zenon DEF Becomes, Same

(* The record of a thread that begins a command.                           *)
Issued(i, c, m) == [i EXCEPT !.pc = c, !.cmd = c, !.mdt = m]

(* What the start of a command sets.                                       *)
LEMMA IssuedIs ==
    ASSUME NEW i, NEW c, NEW m, IsThread(i)
    PROVE  /\ IsThread(Issued(i, c, m)) /\ Issued(i, c, m).pc = c /\ Issued(i, c, m).cmd = c
           /\ Issued(i, c, m).mdt = m /\ Issued(i, c, m).pid = i.pid
  <1>1. PICK e : e = [i EXCEPT !.pc = c]
    BY Zenon
  <1>2. PICK d : d = [e EXCEPT !.cmd = c]
    BY Zenon
  <1>3. PICK r : r = [d EXCEPT !.mdt = m]
    BY Zenon
  <1>4. IsThread(e) /\ e.pc = c /\ Same(i, e)
    BY <1>1, SetPlace, Zenon
  <1>5. IsThread(d) /\ d.pc = e.pc /\ d.cmd = c /\ d.pid = e.pid
    BY <1>2, <1>4 DEF IsThread
  <1>6. IsThread(r) /\ r.pc = d.pc /\ r.cmd = d.cmd /\ r.mdt = m /\ r.pid = d.pid
    BY <1>3, <1>5 DEF IsThread
  <1>7. r = Issued(i, c, m)
    BY <1>1, <1>2, <1>3, Zenon DEF Issued
  <1> QED BY <1>4, <1>5, <1>6, <1>7, Zenon DEF Same

(* A client's command begins at its first place.                           *)
SetsCommand(t, c, m) == th' = [th EXCEPT ![t] = Issued(IdleThread, c, m)]

(* A command of a client begins.                                           *)
LEMMA CommandIs ==
    ASSUME Records, NEW t \in Threads, NEW c, NEW m, SetsCommand(t, c, m)
    PROVE  \E r : Becomes(t, r) /\ r.pc = c /\ r.cmd = c /\ r.mdt = m /\ r.pid = 0
  <1>1. th = [u \in Threads |-> th[u]]
    BY Zenon DEF Records
  <1>2. IsThread(IdleThread) /\ IdleThread.pid = 0
    BY DEF IdleThread, IsThread
  <1>3. PICK r : r = Issued(IdleThread, c, m)
    BY Zenon
  <1>4. IsThread(r) /\ r.pc = c /\ r.cmd = c /\ r.mdt = m /\ r.pid = 0
    <2> DEFINE q == Issued(IdleThread, c, m)
    <2>1. IsThread(q) /\ q.pc = c /\ q.cmd = c /\ q.mdt = m /\ q.pid = IdleThread.pid
      BY ONLY <1>2, IssuedIs
    <2> QED BY ONLY <1>2, <1>3, <2>1, Zenon
  <1>5. th' = [th EXCEPT ![t] = r]
    BY <1>3, Zenon DEF SetsCommand
  <1>6. th' = [u \in Threads |-> IF u = t THEN r ELSE th[u]]
    BY ONLY <1>1, <1>5, t \in Threads
  <1> QED BY <1>4, <1>6, Zenon DEF Becomes

(* The command of autostart begins.                                        *)
LEMMA AutostartIs ==
    ASSUME Records, Main \in Threads, NEW m,
           th' = [th EXCEPT ![Main].pc = "run", ![Main].cmd = "run", ![Main].mdt = m]
    PROVE  \E r : Becomes(Main, r) /\ r.pc = "run" /\ r.cmd = "run" /\ r.mdt = m /\ r.pid = th[Main].pid
  <1>1. IsThread(th[Main]) /\ th = [u \in Threads |-> th[u]]
    BY Zenon DEF Records
  <1>2. PICK r : r = Issued(th[Main], "run", m)
    BY Zenon
  <1>3. IsThread(r) /\ r.pc = "run" /\ r.cmd = "run" /\ r.mdt = m /\ r.pid = th[Main].pid
    <2> DEFINE q == Issued(th[Main], "run", m)
    <2>1. IsThread(q) /\ q.pc = "run" /\ q.cmd = "run" /\ q.mdt = m /\ q.pid = th[Main].pid
      BY ONLY <1>1, IssuedIs
    <2> QED BY ONLY <1>2, <2>1, Zenon
  <1>4. \A f, x, y, z : f = [u \in Threads |-> f[u]] =>
          [f EXCEPT ![Main].pc = x, ![Main].cmd = y, ![Main].mdt = z]
            = [u \in Threads |-> IF u = Main THEN [f[Main] EXCEPT !.pc = x, !.cmd = y, !.mdt = z] ELSE f[u]]
    BY ONLY Main \in Threads
  <1>5. th' = [u \in Threads |-> IF u = Main THEN r ELSE th[u]]
    BY <1>1, <1>2, <1>4, Zenon DEF Issued
  <1> QED BY <1>3, <1>5, Zenon DEF Becomes

(* The two plain steps.                                                    *)
LEMMA PlainGoto ==
    ASSUME PidInv, NEW t \in Threads, ~gone, th[t].pid = 0, NEW w, Goto(t, w), UNCHANGED <<proc, pid>>,
           lost \subseteq lost'
    PROVE  PidInv'
  <1>1. Becomes(t, [th[t] EXCEPT !.pc = w]) /\ Same(th[t], [th[t] EXCEPT !.pc = w])
    BY GotoIs, Zenon DEF PidInv
  <1>2. Plain(t)
    BY <1>1, Zenon DEF Plain, Same
  <1> QED BY <1>2, KeepsPids, Zenon

(* An answer to the client leaves no pid to store.                         *)
LEMMA PlainReply ==
    ASSUME PidInv, NEW t \in Threads, ~gone, NEW a, Reply(t, a), UNCHANGED <<proc, pid>>, lost \subseteq lost'
    PROVE  PidInv'
  <1>1. Becomes(t, Answer(t, a)) /\ Answer(t, a).pid = 0
    BY ReplyIs, Zenon DEF PidInv
  <1>2. Plain(t)
    BY <1>1, Zenon DEF Plain
  <1> QED BY <1>2, KeepsPids, Zenon

(* A crash of htxd changes no pid.                                         *)
LEMMA UndefinedPids == ASSUME PidInv, Undefined PROVE PidInv'
  BY LeavesPids, Zenon DEF Undefined, helpers

(* A thread that is at no helper has no pid to store.                      *)
LEMMA AtPlace ==
    ASSUME PidInv, NEW t \in Threads, NEW w, At(t, w), w \notin Helpers
    PROVE  ~gone /\ th[t].pid = 0
  BY NoPid, Zenon DEF At

(* The steps of select and run that load no helper.                        *)
LEMMA LoadPids ==
    ASSUME PidInv, NEW t \in Threads,
           \/ create_mdt(t) \/ created(t) \/ select_mdt(t) \/ run_mdt(t) \/ create_ecg_manager(t)
           \/ Name(t) \/ allocate_ecg_info(t) \/ init_ecg_info(t) \/ selected(t)
    PROVE  PidInv'
  <1>0. Records
    BY Zenon DEF PidInv
  <1> USE DEF helpers
  <1>1. CASE create_mdt(t)
    <2>1. ~gone /\ th[t].pid = 0
      BY <1>1, AtPlace, Zenon DEF create_mdt, Helpers
    <2> QED BY <1>1, <2>1, PlainGoto, Zenon DEF create_mdt
  <1>2. CASE created(t)
    BY <1>2, PlainReply, Zenon DEF created, At
  <1>3. CASE select_mdt(t)
    <2>1. ~gone /\ th[t].pid = 0 /\ UNCHANGED <<proc, pid, lost>>
      BY <1>3, AtPlace, Zenon DEF select_mdt, Helpers
    <2>2. CASE th' = [th EXCEPT ![t].pc = "mgr", ![t].mgr = manager]
      <3>1. Plain(t)
        BY <1>0, <2>1, <2>2, MgrIs, Zenon DEF Plain, SetsMgr
      <3> QED BY <3>1, KeepsPids, Zenon
    <2> QED BY <1>3, <2>1, <2>2, PlainReply, Zenon DEF select_mdt
  <1>4. CASE run_mdt(t)
    <2>1. ~gone /\ th[t].pid = 0 /\ UNCHANGED <<proc, pid, lost>>
      BY <1>4, AtPlace, Zenon DEF run_mdt, Helpers
    <2>2. CASE th' = [th EXCEPT ![t].pc = "mgr", ![t].mgr = manager]
      <3>1. Plain(t)
        BY <1>0, <2>1, <2>2, MgrIs, Zenon DEF Plain, SetsMgr
      <3> QED BY <3>1, KeepsPids, Zenon
    <2> QED BY <1>4, <2>1, <2>2, PlainReply, Zenon DEF run_mdt
  <1>5. CASE create_ecg_manager(t)
    <2>1. ~gone /\ th[t].pid = 0 /\ UNCHANGED <<proc, pid, lost>>
      BY <1>5, AtPlace, Zenon DEF create_ecg_manager, Helpers
    <2>2. ASSUME NEW w, NEW m, th' = [th EXCEPT ![t].pc = w, ![t].mgr = m]
          PROVE  PidInv'
      <3>1. Plain(t)
        BY <1>0, <2>1, <2>2, MgrIs, Zenon DEF Plain, SetsMgr
      <3> QED BY <3>1, KeepsPids, Zenon
    <2>3. \A w : Goto(t, w) => PidInv'
      BY <2>1, PlainGoto, Zenon
    <2>4. PICK w : w = IF th[t].cmd = "run" THEN "hxsmsg" ELSE "name"
      BY Zenon
    <2>5. Goto(t, w) \/ \E m : th' = [th EXCEPT ![t].pc = w, ![t].mgr = m]
      BY ONLY <1>5, <2>4, Zenon DEF create_ecg_manager
    <2> QED BY ONLY <2>2, <2>3, <2>5, Zenon
  <1>6. CASE Name(t)
    <2>1. ~gone /\ th[t].pid = 0 /\ UNCHANGED <<proc, pid, lost>>
      BY <1>6, AtPlace, Zenon DEF Name, Helpers
    <2> QED BY <1>6, <2>1, PlainReply, PlainGoto, UndefinedPids, Zenon DEF Name
  <1>7. CASE allocate_ecg_info(t)
    <2>1. ~gone /\ th[t].pid = 0 /\ UNCHANGED <<proc, pid, lost>>
      BY <1>7, AtPlace, Zenon DEF allocate_ecg_info, Helpers
    <2> QED BY <1>7, <2>1, PlainGoto, UndefinedPids, Zenon DEF allocate_ecg_info
  <1>8. CASE init_ecg_info(t)
    <2>1. ~gone /\ th[t].pid = 0 /\ UNCHANGED <<proc, pid, lost>>
      BY <1>8, AtPlace, Zenon DEF init_ecg_info, Helpers
    <2> QED BY <1>8, <2>1, PlainGoto, UndefinedPids, Zenon DEF init_ecg_info
  <1>9. CASE selected(t)
    BY <1>9, PlainReply, UndefinedPids, Zenon DEF selected, At
  <1> QED BY <1>1, <1>2, <1>3, <1>4, <1>5, <1>6, <1>7, <1>8, <1>9, Zenon

(* Loading a helper: the process is forked, and its pid stored, by two     *)
(* steps between which it may end.                                         *)
LEMMA HelperPids ==
    ASSUME PidInv, NEW t \in Threads, NEW h \in Helpers,
           \/ Unreadable(t, h) \/ LoadedAlready(t, h) \/ Fork(t, h) \/ StorePid(t, h)
    PROVE  PidInv'
  <1>0. Records
    BY Zenon DEF PidInv
  <1>1. CASE Unreadable(t, h)
    BY <1>1, UndefinedPids, Zenon DEF Unreadable
  <1>2. CASE LoadedAlready(t, h)
    <2>1. ~gone /\ th[t].pid = 0 /\ UNCHANGED <<proc, pid, lost>> /\ Goto(t, AfterLoad(t, h))
      BY <1>2, Zenon DEF LoadedAlready, At, helpers
    <2> QED BY <2>1, PlainGoto, Zenon
  <1>3. CASE Fork(t, h)
    <2>1. ~gone /\ th[t].pc = h /\ UNCHANGED <<pid, lost>>
      BY <1>3, Zenon DEF Fork, At
    <2>2. PICK p \in Procs : /\ proc[p].st = "none"
                             /\ proc' = [proc EXCEPT ![p] = [kind |-> h, st |-> "alive"]]
                             /\ th' = [th EXCEPT ![t].pid = p]
      BY <1>3, Zenon DEF Fork
    <2>3. IsThread(th[t]) /\ th = [u \in Threads |-> th[u]]
      BY <1>0, Zenon DEF Records
    <2>4. PICK r : r = [th[t] EXCEPT !.pid = p]
      BY Zenon
    <2>5. IsThread(r) /\ r.pc = h /\ r.pid = p
      BY <2>1, <2>3, <2>4 DEF IsThread
    <2>6. th' = [u \in Threads |-> IF u = t THEN r ELSE th[u]]
      BY ONLY <2>2, <2>3, <2>4, t \in Threads
    <2>7. /\ th' = [u \in Threads |-> th'[u]] /\ th'[t] = r
          /\ \A u \in Threads \ {t} : th'[u] = th[u]
      BY ONLY <2>6, t \in Threads
    <2>8. /\ proc' \in [Procs -> [kind : Helpers \cup {"none"}, st : {"none", "alive", "reaped"}]]
          /\ proc'[p] = [kind |-> h, st |-> "alive"] /\ \A q \in Procs \ {p} : proc'[q] = proc[q]
      BY <1>0, <2>2 DEF Records
    <2>9. Records'
      <3>1. \A u \in Threads : IsThread(th'[u])
        BY <1>0, <2>5, <2>7, Zenon DEF Records
      <3> QED BY <1>0, <2>1, <2>7, <2>8, <3>1, Zenon DEF Records, IsThread
    <2>10. (\A u \in Threads : Pending(u))'
      <3> SUFFICES ASSUME NEW u \in Threads, th'[u].pid # 0
                   PROVE  /\ th'[u].pid \in Procs /\ th'[u].pc \in Helpers
                          /\ proc'[th'[u].pid].kind = th'[u].pc /\ proc'[th'[u].pid].st # "none"
        BY Zenon DEF Pending
      <3>1. CASE u = t
        BY <2>5, <2>7, <2>8, <3>1
      <3>2. CASE u # t
        <4>1. /\ th'[u] = th[u] /\ th[u].pid \in Procs /\ th[u].pc \in Helpers
              /\ proc[th[u].pid].kind = th[u].pc /\ proc[th[u].pid].st # "none"
          BY <2>7, <3>2, Zenon DEF PidInv, Pending
        <4> QED BY <2>2, <2>8, <4>1, Zenon
      <3> QED BY <3>1, <3>2, Zenon
    <2>11. HeldPidIsAlive'
      <3> SUFFICES ASSUME "pid" \notin lost, NEW g \in Helpers, pid[g] # 0
                   PROVE  proc'[pid[g]] = [kind |-> g, st |-> "alive"]
        BY <2>1, Zenon DEF HeldPidIsAlive
      <3>1. proc[pid[g]] = [kind |-> g, st |-> "alive"] /\ pid[g] \in Procs
        BY <1>0, <2>1 DEF PidInv, HeldPidIsAlive, Records
      <3>2. pid[g] # p
        BY <2>2, <3>1
      <3> QED BY <2>8, <3>1, <3>2, Zenon
    <2> QED BY <2>9, <2>10, <2>11, Zenon DEF PidInv
  <1>4. CASE StorePid(t, h) /\ ~Undefined
    <2>1. /\ ~gone /\ th[t].pc = h /\ th[t].pid # 0 /\ proc' = proc
          /\ pid' = [pid EXCEPT ![h] = th[t].pid]
          /\ lost' = IF proc[th[t].pid].st = "reaped" THEN lost \cup {"pid"} ELSE lost
          /\ th' = [th EXCEPT ![t].pid = 0, ![t].pc = AfterLoad(t, h)]
      BY <1>4, Zenon DEF StorePid, At
    <2>2. th[t].pid \in Procs /\ proc[th[t].pid].kind = h /\ proc[th[t].pid].st # "none"
      BY <2>1, Zenon DEF PidInv, Pending
    <2>3. IsThread(th[t]) /\ th = [u \in Threads |-> th[u]]
      BY <1>0, Zenon DEF Records
    <2>4. PICK w : w = AfterLoad(t, h)
      BY Zenon
    <2>5. PICK e : e = [th[t] EXCEPT !.pid = 0]
      BY Zenon
    <2>6. PICK r : r = [e EXCEPT !.pc = w]
      BY Zenon
    <2>7. IsThread(e) /\ e.pid = 0
      BY ONLY <2>3, <2>5 DEF IsThread
    <2>8. IsThread(r) /\ r.pid = 0
      BY <2>6, <2>7, SetPlace, Zenon DEF Same
    <2>9. th' = [u \in Threads |-> IF u = t THEN r ELSE th[u]]
      <3>1. th' = [th EXCEPT ![t].pid = 0, ![t].pc = w]
        BY <2>1, <2>4, Zenon
      <3> QED BY ONLY <2>3, <2>5, <2>6, <3>1, t \in Threads
    <2>10. /\ th' = [u \in Threads |-> th'[u]] /\ th'[t] = r
           /\ \A u \in Threads \ {t} : th'[u] = th[u]
      BY ONLY <2>9, t \in Threads
    <2>11. /\ pid' \in [Helpers -> Procs \cup {0}]
           /\ pid'[h] = th[t].pid /\ \A g \in Helpers \ {h} : pid'[g] = pid[g]
      BY <1>0, <2>1, <2>2 DEF Records
    <2>12. Records'
      <3>1. \A u \in Threads : IsThread(th'[u])
        BY <1>0, <2>8, <2>10, Zenon DEF Records
      <3> QED BY <1>0, <2>1, <2>10, <2>11, <3>1, Zenon DEF Records, IsThread
    <2>13. (\A u \in Threads : Pending(u))'
      BY <2>1, <2>8, <2>10, Zenon DEF PidInv, Pending
    <2>14. HeldPidIsAlive'
      <3> SUFFICES ASSUME "pid" \notin lost', NEW g \in Helpers, pid'[g] # 0
                   PROVE  proc[pid'[g]] = [kind |-> g, st |-> "alive"]
        BY <2>1, Zenon DEF HeldPidIsAlive
      <3>1. "pid" \notin lost /\ proc[th[t].pid].st # "reaped"
        BY <2>1, Zenon
      <3>2. CASE g = h
        <4>1. proc[th[t].pid] \in [kind : Helpers \cup {"none"}, st : {"none", "alive", "reaped"}]
          BY <1>0, <2>2, Zenon DEF Records
        <4>2. proc[th[t].pid] = [kind |-> h, st |-> "alive"]
          BY <2>2, <3>1, <4>1
        <4> QED BY <2>11, <3>2, <4>2, Zenon
      <3>3. CASE g # h
        BY <2>1, <2>11, <3>1, <3>3, Zenon DEF PidInv, HeldPidIsAlive
      <3> QED BY <3>2, <3>3, Zenon
    <2> QED BY <2>12, <2>13, <2>14, Zenon DEF PidInv
  <1> QED BY <1>1, <1>2, <1>3, <1>4, UndefinedPids, Zenon

(* The steps from an initialised MDT to a running one.                     *)
LEMMA StartPids ==
    ASSUME PidInv, NEW t \in Threads,
           \/ starting(t) \/ init_syscfg(t) \/ activate_all_ecg_devices(t)
           \/ started(t) \/ start_monitors(t) \/ running(t)
    PROVE  PidInv'
  <1> USE DEF helpers
  <1>1. CASE starting(t)
    <2>1. ~gone /\ th[t].pid = 0 /\ UNCHANGED <<proc, pid, lost>>
      BY <1>1, AtPlace, Zenon DEF starting, Helpers
    <2> QED BY <1>1, <2>1, PlainGoto, UndefinedPids, Zenon DEF starting
  <1>2. CASE init_syscfg(t)
    <2>1. ~gone /\ th[t].pid = 0 /\ UNCHANGED <<proc, pid, lost>>
      BY <1>2, AtPlace, Zenon DEF init_syscfg, Helpers
    <2> QED BY <1>2, <2>1, PlainGoto, PlainReply, Zenon DEF init_syscfg
  <1>3. CASE activate_all_ecg_devices(t)
    <2>1. ~gone /\ th[t].pid = 0 /\ UNCHANGED <<proc, pid, lost>>
      BY <1>3, AtPlace, Zenon DEF activate_all_ecg_devices, Helpers
    <2> QED BY <1>3, <2>1, PlainGoto, UndefinedPids, Zenon DEF activate_all_ecg_devices
  <1>4. CASE started(t)
    <2>1. ~gone /\ th[t].pid = 0 /\ UNCHANGED <<proc, pid, lost>>
      BY <1>4, AtPlace, Zenon DEF started, Helpers
    <2> QED BY <1>4, <2>1, PlainGoto, UndefinedPids, Zenon DEF started
  <1>5. CASE start_monitors(t)
    <2>1. ~gone /\ th[t].pid = 0 /\ UNCHANGED <<proc, pid, lost>>
      BY <1>5, AtPlace, Zenon DEF start_monitors, Helpers
    <2> QED BY <1>5, <2>1, PlainGoto, Zenon DEF start_monitors
  <1>6. CASE running(t)
    BY <1>6, PlainReply, UndefinedPids, Zenon DEF running, At
  <1> QED BY <1>1, <1>2, <1>3, <1>4, <1>5, <1>6, Zenon

(* The steps of shutdown.                                                  *)
LEMMA StopPids ==
    ASSUME PidInv, NEW t \in Threads, Stop(t)
    PROVE  PidInv'
  <1>0. Records
    BY Zenon DEF PidInv
  <1> USE DEF helpers
  <1>1. CASE shutdown_mdt(t)
    <2>1. ~gone /\ th[t].pid = 0 /\ UNCHANGED <<proc, pid, lost>>
      BY <1>1, AtPlace, Zenon DEF shutdown_mdt, Helpers
    <2>2. ASSUME NEW n, th' = [th EXCEPT ![t].pc = "detach", ![t].node = n]
          PROVE  PidInv'
      <3>1. Plain(t)
        BY <1>0, <2>1, <2>2, NodeIs, Zenon DEF Plain, SetsNode
      <3> QED BY <3>1, KeepsPids, Zenon
    <2>3. \A a : Reply(t, a) => PidInv'
      BY <2>1, PlainReply, Zenon
    <2> QED BY ONLY <1>1, <2>2, <2>3, PidInv, UndefinedPids, Zenon DEF shutdown_mdt
  <1>2. CASE detach(t)
    <2>1. ~gone /\ th[t].pid = 0 /\ UNCHANGED <<proc, pid, lost>>
      BY <1>2, AtPlace, Zenon DEF detach, Helpers
    <2> QED BY <1>2, <2>1, PlainGoto, UndefinedPids, Zenon DEF detach
  <1>3. CASE unload_exercisers(t)
    <2>1. ~gone /\ th[t].pid = 0 /\ UNCHANGED <<proc, pid, lost>>
      BY <1>3, AtPlace, Zenon DEF unload_exercisers, Helpers
    <2> QED BY <1>3, <2>1, PlainGoto, UndefinedPids, Zenon DEF unload_exercisers
  <1>4. CASE unloaded(t)
    <2>1. ~gone /\ th[t].pid = 0 /\ UNCHANGED <<proc, pid, lost>>
      BY <1>4, AtPlace, Zenon DEF unloaded, Helpers
    <2> QED BY <1>4, <2>1, PlainGoto, UndefinedPids, Zenon DEF unloaded
  <1>5. CASE cleanup_ecg_ipc(t)
    <2>1. ~gone /\ th[t].pid = 0 /\ UNCHANGED <<proc, pid, lost>>
      BY <1>5, AtPlace, Zenon DEF cleanup_ecg_ipc, Helpers
    <2> QED BY <1>5, <2>1, PlainGoto, PlainReply, Zenon DEF cleanup_ecg_ipc
  <1>6. CASE idle_daemon(t)
    <2>1. ~gone /\ th[t].pid = 0
      BY <1>6, AtPlace, Zenon DEF idle_daemon, Helpers
    <2>2. Undefined \/ (Goto(t, "waitStats") /\ UNCHANGED <<proc, pid>> /\ lost \subseteq lost')
      BY <1>6, Zenon DEF idle_daemon
    <2> QED BY <2>1, <2>2, PlainGoto, UndefinedPids, Zenon
  <1>7. CASE idle_waits(t)
    <2>1. ~gone /\ th[t].pid = 0 /\ UNCHANGED <<proc, pid, lost>>
      BY <1>7, AtPlace, Zenon DEF idle_waits, WaitFor, Helpers
    <2> QED BY <1>7, <2>1, PlainGoto, Zenon DEF idle_waits, WaitFor
  <1>8. CASE cleanup_system_shm(t)
    <2>1. ~gone /\ th[t].pid = 0 /\ UNCHANGED <<proc, pid, lost>>
      BY <1>8, AtPlace, Zenon DEF cleanup_system_shm, Helpers
    <2> QED BY <1>8, <2>1, PlainGoto, UndefinedPids, Zenon DEF cleanup_system_shm
  <1>9. CASE idle(t)
    <2>1. ~gone /\ th[t].pid = 0 /\ UNCHANGED <<proc, pid, lost>>
      BY <1>9, AtPlace, Zenon DEF idle, Helpers
    <2> QED BY <1>9, <2>1, PlainGoto, Zenon DEF idle
  <1> QED BY <1>1, <1>2, <1>3, <1>4, <1>5, <1>6, <1>7, <1>8, <1>9, Zenon DEF Stop

(* A command is let in, and the steps of the main thread.                  *)
LEMMA MainPids ==
    ASSUME PidInv,
           \/ \E s \in Sessions, c \in Cmds, m \in Mdts \cup {None} : process_command(s, c, m)
           \/ MainStep \/ sig_end
    PROVE  PidInv'
  <1>0. Records /\ Main \in Threads /\ Sessions \subseteq Threads
    BY Zenon DEF PidInv, Threads
  <1> USE DEF helpers
  <1>1. ASSUME NEW s \in Sessions, NEW c \in Cmds, NEW m \in Mdts \cup {None}, process_command(s, c, m)
        PROVE  PidInv'
    <2>1. /\ ~gone /\ UNCHANGED <<proc, pid, lost>> /\ s \in Threads
          /\ SetsCommand(s, c, m)
      BY <1>0, <1>1, Zenon DEF process_command, At, Issued, SetsCommand
    <2>2. \E r : Becomes(s, r) /\ r.pid = 0
      BY ONLY <1>0, <2>1, CommandIs
    <2>3. Plain(s)
      BY <2>1, <2>2, Zenon DEF Plain
    <2> QED BY <2>1, <2>3, KeepsPids, Zenon
  <1>2. CASE autostart
    <2>1. ~gone /\ th[Main].pid = 0 /\ UNCHANGED <<proc, pid, lost>>
      BY <1>0, <1>2, AtPlace, Zenon DEF autostart, Helpers
    <2>2. ASSUME NEW m, th' = [th EXCEPT ![Main].pc = "run", ![Main].cmd = "run", ![Main].mdt = m]
          PROVE  PidInv'
      <3>1. \E r : Becomes(Main, r) /\ r.pid = 0
        BY <1>0, <2>1, <2>2, AutostartIs, Zenon
      <3> QED BY <1>0, <2>1, <3>1, KeepsPids, Zenon DEF Plain
    <2>3. Goto(Main, "accept") => PidInv'
      BY <1>0, <2>1, PlainGoto, Zenon
    <2> QED BY ONLY <1>2, <2>2, <2>3, Zenon DEF autostart
  <1>3. CASE leave_loop
    <2>1. ~gone /\ th[Main].pid = 0 /\ UNCHANGED <<proc, pid, lost>>
      BY <1>0, <1>3, AtPlace, Zenon DEF leave_loop, Helpers
    <2> QED BY <1>0, <1>3, <2>1, PlainGoto, UndefinedPids, Zenon DEF leave_loop
  <1>4. CASE shutdown_all_mdt
    <2>1. ~gone /\ th[Main].pid = 0 /\ UNCHANGED <<proc, pid, lost>>
      BY <1>0, <1>4, AtPlace, Zenon DEF shutdown_all_mdt, Helpers
    <2>2. ASSUME NEW n, th' = [th EXCEPT ![Main].pc = "unload", ![Main].node = n]
          PROVE  PidInv'
      <3>1. Plain(Main)
        BY <1>0, <2>1, <2>2, NodeIs, Zenon DEF Plain, SetsNode
      <3> QED BY <1>0, <3>1, KeepsPids, Zenon
    <2>3. Goto(Main, "idle1") => PidInv'
      BY <1>0, <2>1, PlainGoto, Zenon
    <2> QED BY ONLY <1>4, <2>2, <2>3, PidInv, UndefinedPids, Zenon DEF shutdown_all_mdt
  <1>5. CASE sig_end
    BY <1>5, LeavesPids, Zenon DEF sig_end
  <1> QED BY <1>1, <1>2, <1>3, <1>4, <1>5, Zenon DEF MainStep

(* A helper ends: child_death forgets its pid, wherever it was stored.     *)
LEMMA ReapedPids ==
    ASSUME PidInv, NEW p \in Procs, proc[p].st = "alive", Ends(p), UNCHANGED <<th, lost, undefined>>
    PROVE  PidInv'
  <1>0. Records
    BY Zenon DEF PidInv
  <1>1. /\ proc' \in [Procs -> [kind : Helpers \cup {"none"}, st : {"none", "alive", "reaped"}]]
        /\ proc'[p].kind = proc[p].kind /\ proc'[p].st = "reaped"
        /\ \A q \in Procs \ {p} : proc'[q] = proc[q]
    BY <1>0 DEF Records, Ends
  <1>2. /\ pid' \in [Helpers -> Procs \cup {0}]
        /\ ~gone => \A h \in Helpers : pid'[h] = IF pid[h] = p THEN 0 ELSE pid[h]
    BY <1>0 DEF Records, Ends
  <1>3. Records'
    BY <1>0, <1>1, <1>2, Zenon DEF Records, IsThread
  <1>4. (\A u \in Threads : Pending(u))'
    <2> SUFFICES ASSUME NEW u \in Threads, th[u].pid # 0
                 PROVE  /\ th[u].pid \in Procs /\ th[u].pc \in Helpers
                        /\ proc'[th[u].pid].kind = th[u].pc /\ proc'[th[u].pid].st # "none"
      BY Zenon DEF Pending
    <2>1. /\ th[u].pid \in Procs /\ th[u].pc \in Helpers /\ proc[th[u].pid].kind = th[u].pc
          /\ proc[th[u].pid].st # "none"
      BY Zenon DEF PidInv, Pending
    <2> QED BY <1>1, <2>1, Zenon
  <1>5. HeldPidIsAlive'
    <2> SUFFICES ASSUME ~gone, "pid" \notin lost, NEW h \in Helpers, pid'[h] # 0
                 PROVE  proc'[pid'[h]] = [kind |-> h, st |-> "alive"]
      BY Zenon DEF HeldPidIsAlive, gone
    <2>1. pid'[h] = pid[h] /\ pid[h] # p
      BY <1>2, Zenon
    <2>2. proc[pid[h]] = [kind |-> h, st |-> "alive"] /\ pid[h] \in Procs
      BY <1>0, <2>1 DEF PidInv, HeldPidIsAlive, Records
    <2> QED BY <1>1, <2>1, <2>2, Zenon
  <1> QED BY <1>3, <1>4, <1>5, Zenon DEF PidInv

(* The steps of the processes around htxd.                                 *)
LEMMA ProcessPids ==
    ASSUME PidInv, Process
    PROVE  PidInv'
  <1> USE DEF helpers
  <1>1. CASE htx_message
    BY <1>1, LeavesPids, Zenon DEF htx_message
  <1>2. ASSUME NEW p \in Procs, child_death(p) \/ final_message(p)
        PROVE  PidInv'
    <2>1. proc[p].st = "alive" /\ Ends(p) /\ UNCHANGED <<th, lost, undefined>>
      BY <1>2 DEF child_death, final_message, Hxsmsg
    <2> QED BY <2>1, ReapedPids, Zenon
  <1>3. ASSUME NEW p \in Procs, read_message(p)
        PROVE  PidInv'
    BY <1>3, LeavesPids, Zenon DEF read_message
  <1>4. ASSUME NEW n \in Nodes, exercisers_end(n)
        PROVE  PidInv'
    BY <1>4, LeavesPids, Zenon DEF exercisers_end
  <1> QED BY <1>1, <1>2, <1>3, <1>4, Zenon DEF Process

(* No step of the daemon or of a process around it breaks PidInv.          *)
LEMMA PidStep == ASSUME PidInv, [Next]_vars PROVE PidInv'
  <1>1. CASE UNCHANGED vars
    BY <1>1, LeavesPids, Zenon DEF vars, helpers
  <1>2. ASSUME NEW t \in Threads, Step(t)
        PROVE  PidInv'
    BY <1>2, LoadPids, HelperPids, StartPids, StopPids, Zenon DEF Step, Start
  <1> QED BY <1>1, <1>2, MainPids, ProcessPids, Zenon DEF Next

(* Nothing is forked when htxd starts.                                     *)
LEMMA PidInit == Init => PidInv
  <1> SUFFICES ASSUME Init
               PROVE  PidInv
    OBVIOUS
  <1>1. IsThread(IdleThread) /\ IdleThread.pid = 0
    BY DEF IdleThread, IsThread
  <1>2. ASSUME NEW t \in Threads
        PROVE  IsThread(th[t]) /\ th[t].pid = 0
    <2>1. PICK w : w = IF t = Main THEN "boot" ELSE "idle"
      BY Zenon
    <2>2. th[t] = [IdleThread EXCEPT !.pc = w]
      BY <2>1, Zenon DEF Init
    <2>3. IsThread([IdleThread EXCEPT !.pc = w]) /\ Same(IdleThread, [IdleThread EXCEPT !.pc = w])
      BY <1>1, SetPlace, Zenon
    <2> QED BY <1>1, <2>2, <2>3, Zenon DEF Same, IsThread
  <1>3. th = [t \in Threads |-> th[t]]
    BY DEF Init
  <1>4. /\ proc \in [Procs -> [kind : Helpers \cup {"none"}, st : {"none", "alive", "reaped"}]]
        /\ pid \in [Helpers -> Procs \cup {0}] /\ \A h \in Helpers : pid[h] = 0
    BY DEF Init, NoProc
  <1> QED BY <1>2, <1>3, <1>4, Zenon DEF PidInv, Records, HeldPidIsAlive, Pending

(* For any number of clients: a pid that htxd holds for a helper is that   *)
(* of a live process of this helper, unless a helper was reaped between    *)
(* its fork and the store of its pid (lost has "pid").  child_death never  *)
(* leaves the pid of a process that has ended behind, and no two helpers   *)
(* share one.                                                              *)
THEOREM PidsExact == Spec => []HeldPidIsAlive
  <1>1. PidInv => HeldPidIsAlive
    BY Zenon DEF PidInv
  <1> QED BY <1>1, PidInit, PidStep, PTL DEF Spec

-----------------------------------------------------------------------------
(***************************************************************************)
(* The life of an MDT with one client.                                     *)
(***************************************************************************)
(* One client at a time, silent once the daemon is told to end, and IPC    *)
(* that can be created: what LC_one assumes.                               *)
OneClient ==
    /\ \A s, u \in Sessions : s = u
    /\ Quiet /\ "ipc" \notin Events

(* Every other thread is at rest.                                          *)
Sole(t) == \A u \in Threads \ {t} : ~Works(u)

(* What is known of a thread at work.                                      *)
LEMMA Alone ==
    ASSUME OneInv, NEW t \in Threads, NEW w, At(t, w), w # "accept", w # "idle"
    PROVE  /\ Sole(t) /\ Phase(t) /\ Freed /\ killed \subseteq exers
           /\ (w # "unloadWait" => killed = {})
           /\ (t # Main => ~htxd_shutdown_flag)
           /\ (manager # 0 => Live(manager))
           /\ Types /\ Records /\ ~gone /\ th[t].pc = w
  <1>1. ~gone /\ th[t].pc = w /\ th[Main].pc # "exited"
    BY Zenon DEF At, gone
  <1>2. Works(t)
    BY <1>1, Zenon DEF Works, Home
  <1>3. Sole(t)
    BY <1>2, Zenon DEF Sole, OneInv, OneWorks
  <1>4. Phase(t) /\ Freed /\ Signalled
    BY <1>1, <1>2, Zenon DEF OneInv
  <1>5. ASSUME w # "unloadWait", NEW u \in Threads, th[u].pc = "unloadWait"
        PROVE  FALSE
    <2>1. Works(u)
      BY <1>5, Zenon DEF Works, Home
    <2> QED BY <1>1, <1>3, <1>5, <2>1, Zenon DEF Sole
  <1>6. (t # Main => ~htxd_shutdown_flag)
    BY <1>2, Zenon DEF OneInv, OneWorks, Threads
  <1>7. manager # 0 => Live(manager)
    BY Zenon DEF OneInv, Live
  <1>8. Types /\ Records
    BY Zenon DEF OneInv, PidInv
  <1> QED BY <1>1, <1>3, <1>4, <1>5, <1>6, <1>7, <1>8, Zenon DEF Signalled

(* The same, for all places but the wait for the exercisers.               *)
Calm(t) ==
    /\ Sole(t) /\ Phase(t) /\ Freed /\ killed = {}
    /\ t # Main => ~htxd_shutdown_flag
    /\ manager # 0 => Live(manager)
    /\ Types /\ Records /\ ~gone

(* A thread anywhere else than in that wait is calm.                       *)
LEMMA CalmAt ==
    ASSUME OneInv, NEW t \in Threads, NEW w, At(t, w), w # "accept", w # "idle", w # "unloadWait"
    PROVE  Calm(t) /\ th[t].pc = w
  BY Alone, Zenon DEF Calm

(* What a step of one thread has to show.                                  *)
Sound(t, r) ==
    /\ Types' /\ (manager' # 0 => mgr'[manager'].st = "live")
    /\ Freed' /\ killed' \subseteq exers' /\ (killed' # {} => r.pc = "unloadWait")
    /\ IF r.pc # Home(t) THEN Phase(t)' ELSE Rest'

(* A step that forks nothing and stores no pid.                            *)
LEMMA OneStep ==
    ASSUME OneInv, ~gone, NEW t \in Threads, Sole(t), t # Main => ~htxd_shutdown_flag,
           NEW r, Becomes(t, r), r.pid = 0, th[t].pid = 0,
           UNCHANGED <<proc, pid, undefined, htxd_shutdown_flag>>, lost \subseteq lost', Sound(t, r)
    PROVE  OneInv'
  <1>1. PidInv'
    BY KeepsPids, Zenon DEF OneInv, Plain
  <1>2. th'[t] = r /\ \A u \in Threads \ {t} : th'[u] = th[u]
    BY OnlyOne, Zenon DEF OneInv, PidInv
  <1>3. \A u \in Threads \ {t} : ~Works(u)'
    BY <1>2, Zenon DEF Sole, Works
  <1>4. Works(t)' <=> r.pc # Home(t)
    BY <1>2, Zenon DEF Works, Home
  <1>5. OneWorks'
    <2>1. (\A v, u \in Threads : Works(v) /\ Works(u) => v = u)'
      BY <1>3, Zenon
    <2>2. ASSUME NEW s \in Sessions, Works(s)'
          PROVE  ~htxd_shutdown_flag'
      <3>1. s = t /\ s # Main
        BY <1>3, <2>2, LifecycleAssumption, Zenon DEF Threads
      <3> QED BY <3>1, Zenon
    <2> QED BY <2>1, <2>2, Zenon DEF OneWorks
  <1>6. \A u \in Threads : th'[u].pid = 0
    <2>1. \A u \in Threads \ {t} : th[u].pid = 0
      BY Zenon DEF OneInv, Sole, gone
    <2> QED BY <1>2, <2>1, Zenon
  <1>7. Children'
    <2>1. \A u \in Threads : th[u].pid = 0
      BY Zenon DEF OneInv, Sole, gone
    <2> SUFFICES ASSUME NEW p \in Procs, proc[p].st = "alive"
                 PROVE  proc[p].kind \in Helpers /\ pid[proc[p].kind] = p
      BY Zenon DEF Children
    <2>2. p # 0
      BY LifecycleAssumption DEF Procs
    <2> QED BY <2>1, <2>2, Zenon DEF OneInv, Children
  <1>8. Freed' /\ Signalled'
    BY <1>2, Zenon DEF Sound, Signalled
  <1>9. (\A u \in Threads : IF Works(u) THEN Phase(u) ELSE th[u].pid = 0)'
    BY <1>3, <1>4, <1>6, Zenon DEF Sound
  <1>10. ((\A u \in Threads : ~Works(u)) => Rest)'
    BY <1>4, Zenon DEF Sound
  <1> QED BY <1>1, <1>5, <1>6, <1>7, <1>8, <1>9, <1>10, Zenon DEF OneInv, Sound, gone

(* What is held does not change when nobody writes it.                     *)
LEMMA SameHold ==
    ASSUME UNCHANGED <<manager, mgr, node, ipc>>
    PROVE  /\ current' = current /\ (NoIpc' <=> NoIpc) /\ (Unlisted' <=> Unlisted)
           /\ \A n : (Open(n)' <=> Open(n))
           /\ (Full' <=> Full) /\ Loaded' = Loaded
  BY Zenon DEF current, NoIpc, Unlisted, Open, Full, Loaded, Live

(* What the daemon has loaded stays as long as nobody writes it.           *)
LEMMA Kept ==
    ASSUME UNCHANGED <<state, test, manager, mgr, node, ipc, exers>>
    PROVE  /\ (Idle => Idle') /\ (Chosen => Chosen') /\ (Failed => Failed') /\ (Runs => Runs')
           /\ (Nothing => Nothing') /\ (Fresh => Fresh') /\ (Named => Named')
  BY SameHold, Zenon DEF Idle, Chosen, Failed, Runs, Fresh, Named, Nothing, current, NoIpc

(* What the daemon holds when a thread is at a given place.                *)
LEMMA BeginPlaces ==
    ASSUME NEW t \in Threads, Phase(t)
    PROVE  /\ th[t].pc \in {"boot", "createmdt"} => Idle
           /\ th[t].pc = "select" => th[t].cmd = "select" /\ th[t].mdt \in Mdts /\ Idle
           /\ th[t].pc = "created" => state = "CREATING" /\ Nothing
           /\ th[t].pc = "run" => th[t].cmd = "run" /\ th[t].mdt \in Mdts /\ (Idle \/ Chosen)
           /\ th[t].pc = "shutdown" => t # Main /\ (Chosen \/ Runs)
  <1> USE DEF Phase, Begins, Loads, Starts, Unloads, Idles
  <1>1. th[t].pc \in {"boot", "createmdt"} => Idle
    BY Zenon
  <1>2. th[t].pc = "select" => th[t].cmd = "select" /\ th[t].mdt \in Mdts /\ Idle
    BY Zenon
  <1>3. th[t].pc = "created" => state = "CREATING" /\ Nothing
    BY Zenon
  <1>4. th[t].pc = "run" => th[t].cmd = "run" /\ th[t].mdt \in Mdts /\ (Idle \/ Chosen)
    BY Zenon
  <1>5. th[t].pc = "shutdown" => t # Main /\ (Chosen \/ Runs)
    BY Zenon
  <1> QED BY ONLY <1>1, <1>2, <1>3, <1>4, <1>5, Zenon

(* While an MDT is named, allocated and given its IPC.                     *)
LEMMA LoadPlaces ==
    ASSUME NEW t \in Threads, Phase(t),
           th[t].pc \in {"mgr", "name", "hxsmsg", "alloc", "key", "selected"}
    PROVE  /\ th[t].mgr = manager /\ th[t].mdt \in Mdts
           /\ th[t].pc = "mgr" => (th[t].cmd \in {"run", "select"} /\ Idle) \/ (th[t].cmd = "run" /\ Chosen)
           /\ th[t].pc = "name" =>
                \/ th[t].cmd \in {"run", "select"} /\ state = "IDLE" /\ Fresh
                \/ th[t].cmd = "run" /\ Chosen
           /\ th[t].pc = "hxsmsg" =>
                \/ th[t].cmd = "run" /\ ((state = "IDLE" /\ Fresh) \/ Chosen)
                \/ th[t].cmd = "select" /\ state = "SELECTING" /\ Full /\ exers = {}
           /\ th[t].pc = "alloc" =>
                \/ th[t].cmd = "run" /\ state = "IDLE" /\ Fresh
                \/ th[t].cmd = "select" /\ state = "SELECTING" /\ Fresh
           /\ th[t].pc = "key" =>
                \/ th[t].cmd = "run" /\ state = "IDLE" /\ Named
                \/ th[t].cmd = "select" /\ state = "SELECTING" /\ Named
           /\ th[t].pc = "selected" => th[t].cmd = "select" /\ state = "SELECTING" /\ Full /\ exers = {}
  <1>1. Loads(t)
    BY Zenon DEF Phase, Begins, Starts, Unloads, Idles
  <1> USE <1>1 DEF Loads
  <1>2. th[t].mgr = manager /\ th[t].mdt \in Mdts
    BY Zenon
  <1>3. th[t].pc = "mgr" => (th[t].cmd \in {"run", "select"} /\ Idle) \/ (th[t].cmd = "run" /\ Chosen)
    BY Zenon
  <1>4. th[t].pc = "name" =>
          \/ th[t].cmd \in {"run", "select"} /\ state = "IDLE" /\ Fresh
          \/ th[t].cmd = "run" /\ Chosen
    BY Zenon
  <1>5. th[t].pc = "hxsmsg" =>
          \/ th[t].cmd = "run" /\ ((state = "IDLE" /\ Fresh) \/ Chosen)
          \/ th[t].cmd = "select" /\ state = "SELECTING" /\ Full /\ exers = {}
    BY Zenon
  <1>6. th[t].pc = "alloc" =>
          \/ th[t].cmd = "run" /\ state = "IDLE" /\ Fresh
          \/ th[t].cmd = "select" /\ state = "SELECTING" /\ Fresh
    BY Zenon
  <1>7. th[t].pc = "key" =>
          \/ th[t].cmd = "run" /\ state = "IDLE" /\ Named
          \/ th[t].cmd = "select" /\ state = "SELECTING" /\ Named
    BY Zenon
  <1>8. th[t].pc = "selected" => th[t].cmd = "select" /\ state = "SELECTING" /\ Full /\ exers = {}
    BY Zenon
  <1> QED BY ONLY <1>2, <1>3, <1>4, <1>5, <1>6, <1>7, <1>8, Zenon

(* While its exercisers are started.                                       *)
LEMMA StartPlaces ==
    ASSUME NEW t \in Threads, Phase(t),
           th[t].pc \in {"starting", "syscfg", "activate", "started", "hxstats", "equaliser",
                         "monitors", "running"}
    PROVE  /\ th[t].mgr = manager /\ th[t].mdt \in Mdts /\ th[t].cmd = "run" /\ Full /\ manager # 0
           /\ th[t].pc = "starting" => state \in {"IDLE", "SELECTED"} /\ exers = {}
           /\ th[t].pc \in {"syscfg", "activate"} => state = "STARTING" /\ exers = {}
           /\ th[t].pc \in {"started", "hxstats", "equaliser", "monitors", "running"} =>
                state = "STARTING" /\ exers = {current}
  <1>1. Starts(t)
    BY Zenon DEF Phase, Begins, Loads, Unloads, Idles
  <1> USE <1>1 DEF Starts
  <1>2. th[t].mgr = manager /\ th[t].mdt \in Mdts /\ th[t].cmd = "run" /\ Full /\ manager # 0
    BY Zenon DEF Full
  <1>3. th[t].pc = "starting" => state \in {"IDLE", "SELECTED"} /\ exers = {}
    BY Zenon
  <1>4. th[t].pc \in {"syscfg", "activate"} => state = "STARTING" /\ exers = {}
    BY Zenon
  <1>5. th[t].pc \in {"started", "hxstats", "equaliser", "monitors", "running"} =>
          state = "STARTING" /\ exers = {current}
    BY Zenon
  <1> QED BY ONLY <1>2, <1>3, <1>4, <1>5, Zenon

(* While it is detached, its exercisers end and its IPC is removed.        *)
LEMMA UnloadPlaces ==
    ASSUME NEW t \in Threads, Phase(t)
    PROVE  /\ th[t].pc = "detach" => t # Main /\ th[t].node = current /\ (Chosen \/ Runs)
           /\ th[t].pc \in {"unload", "unloadWait"} =>
                /\ th[t].node = current /\ Unlisted /\ Open(current) /\ exers \subseteq {current}
                /\ IF t = Main THEN state \in Held ELSE state = "SHUTTING_DOWN"
           /\ th[t].pc = "cleanup" =>
                IF t = Main THEN /\ th[t].node = current /\ Unlisted /\ Open(current)
                                 /\ exers = {} /\ state \in Held
                ELSE manager = 0 /\ test = "HALTED" /\ state = "IDLE" /\ Open(th[t].node)
           /\ th[t].pc = "all" => t = Main /\ state \in Held /\ ((Full /\ exers \subseteq {current}) \/ Fresh)
  <1> USE DEF Phase, Begins, Loads, Starts, Unloads, Idles
  <1>1. th[t].pc = "detach" => t # Main /\ th[t].node = current /\ (Chosen \/ Runs)
    BY Zenon
  <1>2. th[t].pc \in {"unload", "unloadWait"} =>
          /\ th[t].node = current /\ Unlisted /\ Open(current) /\ exers \subseteq {current}
          /\ IF t = Main THEN state \in Held ELSE state = "SHUTTING_DOWN"
    BY Zenon
  <1>3. th[t].pc = "cleanup" =>
          IF t = Main THEN /\ th[t].node = current /\ Unlisted /\ Open(current)
                           /\ exers = {} /\ state \in Held
          ELSE manager = 0 /\ test = "HALTED" /\ state = "IDLE" /\ Open(th[t].node)
    BY Zenon
  <1>4. th[t].pc = "all" => t = Main /\ state \in Held /\ ((Full /\ exers \subseteq {current}) \/ Fresh)
    BY Zenon
  <1> QED BY ONLY <1>1, <1>2, <1>3, <1>4, Zenon

(* While the daemon waits for its helpers and frees the manager.           *)
LEMMA IdlePlaces ==
    ASSUME NEW t \in Threads, Phase(t)
    PROVE  /\ th[t].pc \in {"idle1", "waitStats", "waitMsg", "waitEq", "idle2"} =>
                /\ Unlisted /\ exers = {}
                /\ IF t = Main THEN state \in Held
                   ELSE state = "SHUTTING_DOWN" /\ Open(th[t].node)
                /\ th[t].pc # "idle1" => ~monitors
                /\ th[t].pc \in {"waitMsg", "waitEq", "idle2"} => pid["hxstats"] = 0
                /\ th[t].pc \in {"waitEq", "idle2"} => pid["hxsmsg"] = 0
                /\ th[t].pc = "idle2" => pid["equaliser"] = 0
           /\ th[t].pc = "idle3" => manager = 0 /\ state = "IDLE" /\ (t # Main => Open(th[t].node))
  <1> USE DEF Phase, Begins, Loads, Starts, Unloads, Idles
  <1>1. th[t].pc \in {"idle1", "waitStats", "waitMsg", "waitEq", "idle2"} =>
          /\ Unlisted /\ exers = {}
          /\ IF t = Main THEN state \in Held
             ELSE state = "SHUTTING_DOWN" /\ Open(th[t].node)
          /\ th[t].pc # "idle1" => ~monitors
          /\ th[t].pc \in {"waitMsg", "waitEq", "idle2"} => pid["hxstats"] = 0
          /\ th[t].pc \in {"waitEq", "idle2"} => pid["hxsmsg"] = 0
          /\ th[t].pc = "idle2" => pid["equaliser"] = 0
    BY Zenon
  <1>2. th[t].pc = "idle3" => manager = 0 /\ state = "IDLE" /\ (t # Main => Open(th[t].node))
    BY Zenon
  <1> QED BY ONLY <1>1, <1>2, Zenon

(* The updates of the ECG manager.                                         *)
LEMMA OneMgr ==
    ASSUME MgrTypes, NEW m \in Mgrs, NEW r, IsMgr(r),
           \/ mgr' = [mgr EXCEPT ![m] = r]
           \/ mgr' = [x \in Mgrs |-> IF x = m THEN r ELSE mgr[x]]
    PROVE  MgrTypes' /\ mgr'[m] = r
  <1>1. mgr = [x \in Mgrs |-> mgr[x]]
    BY Zenon DEF MgrTypes
  <1>2. /\ mgr' = [x \in Mgrs |-> mgr'[x]] /\ mgr'[m] = r
        /\ \A x \in Mgrs \ {m} : mgr'[x] = mgr[x]
    BY ONLY <1>1, m \in Mgrs,
            \/ mgr' = [mgr EXCEPT ![m] = r]
            \/ mgr' = [x \in Mgrs |-> IF x = m THEN r ELSE mgr[x]]
  <1>3. \A x \in Mgrs : IsMgr(mgr'[x])
    BY <1>2, Zenon DEF MgrTypes
  <1> QED BY <1>2, <1>3, Zenon DEF MgrTypes, IsMgr

(* create_ecg_manager makes a live manager with an empty list.             *)
LEMMA NewManager ==
    ASSUME MgrTypes, NEW m \in Mgrs, mgr' = [mgr EXCEPT ![m] = [NoMgr EXCEPT !.st = "live"]]
    PROVE  MgrTypes' /\ m # 0 /\ mgr'[m].st = "live" /\ mgr'[m].list = <<>> /\ mgr'[m].len = 0
  <1>1. PICK r : r = [NoMgr EXCEPT !.st = "live"]
    BY Zenon
  <1>2. r = [st |-> "live", list |-> <<>>, len |-> 0, current |-> 0, selected |-> None, running |-> None]
    BY ONLY <1>1 DEF NoMgr
  <1>3. IsMgr(r) /\ r.st = "live" /\ r.list = <<>> /\ r.len = 0
    BY ONLY <1>2 DEF IsMgr
  <1>4. mgr' = [mgr EXCEPT ![m] = r]
    BY <1>1, Zenon
  <1>5. m # 0
    BY LifecycleAssumption DEF Mgrs
  <1>6. MgrTypes' /\ mgr'[m] = r
    BY <1>3, <1>4, OneMgr, Zenon
  <1> QED BY <1>3, <1>5, <1>6, Zenon

(* A name that is written to the manager.                                  *)
LEMMA Renamed ==
    ASSUME MgrTypes, NEW m \in Mgrs, NEW x,
           \/ mgr' = [mgr EXCEPT ![m].selected = x]
           \/ mgr' = [mgr EXCEPT ![m].running = x]
    PROVE  /\ MgrTypes' /\ mgr'[m].st = mgr[m].st /\ mgr'[m].list = mgr[m].list
           /\ mgr'[m].len = mgr[m].len /\ mgr'[m].current = mgr[m].current
  <1>1. IsMgr(mgr[m])
    BY Zenon DEF MgrTypes
  <1>2. PICK r : (r = [mgr[m] EXCEPT !.selected = x] \/ r = [mgr[m] EXCEPT !.running = x])
                 /\ mgr' = [mgr EXCEPT ![m] = r]
    BY Zenon
  <1>3. /\ IsMgr(r) /\ r.st = mgr[m].st /\ r.list = mgr[m].list
        /\ r.len = mgr[m].len /\ r.current = mgr[m].current
    BY ONLY <1>1, <1>2 DEF IsMgr
  <1>4. MgrTypes' /\ mgr'[m] = r
    BY <1>2, <1>3, OneMgr, Zenon
  <1> QED BY <1>3, <1>4, Zenon

(* htxd_allocate_ecg_info, on an empty list.                               *)
LEMMA Appended ==
    ASSUME MgrTypes, NEW m \in Mgrs, NEW n, mgr[m].list = <<>>,
           mgr' = [mgr EXCEPT ![m].list = Append(@, n), ![m].current = n]
    PROVE  /\ MgrTypes' /\ mgr'[m].st = mgr[m].st /\ mgr'[m].list = <<n>>
           /\ mgr'[m].len = mgr[m].len /\ mgr'[m].current = n
  <1>1. IsMgr(mgr[m]) /\ mgr = [x \in Mgrs |-> mgr[x]]
    BY Zenon DEF MgrTypes
  <1>2. PICK l : l = Append(mgr[m].list, n)
    BY Zenon
  <1>3. PICK e : e = [mgr[m] EXCEPT !.list = l]
    BY Zenon
  <1>4. PICK r : r = [e EXCEPT !.current = n]
    BY Zenon
  <1>5. l = <<n>>
    BY ONLY <1>2, mgr[m].list = <<>>
  <1>6. IsMgr(e) /\ e.list = l /\ e.st = mgr[m].st /\ e.len = mgr[m].len
    BY ONLY <1>1, <1>3 DEF IsMgr
  <1>7. IsMgr(r) /\ r.list = e.list /\ r.st = e.st /\ r.len = e.len /\ r.current = n
    BY ONLY <1>4, <1>6 DEF IsMgr
  <1>8. mgr' = [mgr EXCEPT ![m].list = l, ![m].current = n]
    BY <1>2, Zenon
  <1>9. mgr' = [x \in Mgrs |-> IF x = m THEN r ELSE mgr[x]]
    BY ONLY <1>1, <1>3, <1>4, <1>8, m \in Mgrs
  <1>10. MgrTypes' /\ mgr'[m] = r
    BY <1>7, <1>9, OneMgr, Zenon
  <1> QED BY <1>5, <1>6, <1>7, <1>10, Zenon

(* htxd_init_ecg_info counts the MDT.                                      *)
LEMMA Counted ==
    ASSUME MgrTypes, NEW m \in Mgrs, mgr[m].len = 0, mgr' = [mgr EXCEPT ![m].len = @ + 1]
    PROVE  /\ MgrTypes' /\ mgr'[m].st = mgr[m].st /\ mgr'[m].list = mgr[m].list
           /\ mgr'[m].len = 1 /\ mgr'[m].current = mgr[m].current
  <1>1. IsMgr(mgr[m])
    BY Zenon DEF MgrTypes
  <1>2. PICK r : r = [mgr[m] EXCEPT !.len = 1]
    BY Zenon
  <1>3. /\ IsMgr(r) /\ r.st = mgr[m].st /\ r.list = mgr[m].list
        /\ r.len = 1 /\ r.current = mgr[m].current
    BY ONLY <1>1, <1>2 DEF IsMgr
  <1>4. mgr[m].len + 1 = 1
    BY ONLY mgr[m].len = 0
  <1>5. mgr' = [mgr EXCEPT ![m] = r]
    BY <1>2, <1>4, Zenon
  <1>6. MgrTypes' /\ mgr'[m] = r
    BY <1>3, <1>5, OneMgr, Zenon
  <1> QED BY <1>3, <1>6, Zenon

(* htxd_remove_ecg_info_node, on a list of one.                            *)
LEMMA Removed ==
    ASSUME MgrTypes, NEW m \in Mgrs, mgr[m].len = 1, NEW n, remove_ecg_info_node(m, n)
    PROVE  /\ MgrTypes' /\ mgr'[m].st = mgr[m].st /\ mgr'[m].list = <<>>
           /\ mgr'[m].len = 0 /\ mgr'[m].current = mgr[m].current
  <1>1. IsMgr(mgr[m]) /\ mgr = [x \in Mgrs |-> mgr[x]]
    BY Zenon DEF MgrTypes
  <1>2. PICK s, z : s = <<>> /\ z = 0
    BY Zenon
  <1>3. PICK e : e = [mgr[m] EXCEPT !.list = s]
    BY Zenon
  <1>4. PICK r : r = [e EXCEPT !.len = z]
    BY Zenon
  <1>5. /\ IsMgr(e) /\ e.list = s /\ e.st = mgr[m].st /\ e.len = mgr[m].len
        /\ e.current = mgr[m].current
    BY ONLY <1>1, <1>3 DEF IsMgr
  <1>6. IsMgr(r) /\ r.list = e.list /\ r.st = e.st /\ r.len = z /\ r.current = e.current
    BY ONLY <1>4, <1>5 DEF IsMgr
  <1>7. s = IF mgr[m].len = 1 THEN <<>> ELSE Detached(m, n)
    BY <1>2, Zenon
  <1>8. mgr' = [mgr EXCEPT ![m].list = s, ![m].len = @ - 1]
    BY <1>7, Zenon DEF remove_ecg_info_node
  <1>9. z = mgr[m].len - 1
    BY ONLY <1>2, mgr[m].len = 1
  <1>10. mgr' = [x \in Mgrs |-> IF x = m THEN r ELSE mgr[x]]
    <2>1. mgr' = [x \in Mgrs |-> IF x = m THEN [e EXCEPT !.len = @ - 1] ELSE mgr[x]]
      BY ONLY <1>1, <1>3, <1>8, m \in Mgrs
    <2>2. r = [e EXCEPT !.len = @ - 1]
      BY ONLY <1>4, <1>5, <1>9
    <2> QED BY ONLY <2>1, <2>2, Zenon
  <1>11. MgrTypes' /\ mgr'[m] = r
    BY <1>6, <1>10, OneMgr, Zenon
  <1> QED BY <1>2, <1>5, <1>6, <1>11, Zenon

(* htxd_cleanup_system_shm frees the manager.                              *)
LEMMA FreedManager ==
    ASSUME MgrTypes, NEW m \in Mgrs, mgr' = [mgr EXCEPT ![m].st = "freed"]
    PROVE  MgrTypes'
  <1>1. IsMgr(mgr[m])
    BY Zenon DEF MgrTypes
  <1>2. PICK r : r = [mgr[m] EXCEPT !.st = "freed"]
    BY Zenon
  <1>3. IsMgr(r)
    BY ONLY <1>1, <1>2 DEF IsMgr
  <1> QED BY <1>2, <1>3, OneMgr, Zenon

(* The updates of a node, and of the IPC under its key.                    *)
LEMMA OneNode ==
    ASSUME NodeTypes, NEW n \in Nodes, NEW r, IsNode(r),
           \/ node' = [node EXCEPT ![n] = r]
           \/ node' = [x \in Nodes |-> IF x = n THEN r ELSE node[x]]
    PROVE  NodeTypes' /\ node'[n] = r
  <1>1. node = [x \in Nodes |-> node[x]]
    BY Zenon DEF NodeTypes
  <1>2. /\ node' = [x \in Nodes |-> node'[x]] /\ node'[n] = r
        /\ \A x \in Nodes \ {n} : node'[x] = node[x]
    BY ONLY <1>1, n \in Nodes,
            \/ node' = [node EXCEPT ![n] = r]
            \/ node' = [x \in Nodes |-> IF x = n THEN r ELSE node[x]]
  <1>3. \A x \in Nodes : IsNode(node'[x])
    BY <1>2, Zenon DEF NodeTypes
  <1> QED BY <1>2, <1>3, Zenon DEF NodeTypes, IsNode

(* allocate_ecg_info gives the node its name.                              *)
LEMMA NamedNode ==
    ASSUME NodeTypes, NEW n \in Nodes, NEW x, node' = [node EXCEPT ![n].mdt = x]
    PROVE  NodeTypes' /\ node'[n].mdt = x
  <1>1. IsNode(node[n])
    BY Zenon DEF NodeTypes
  <1>2. PICK r : r = [node[n] EXCEPT !.mdt = x]
    BY Zenon
  <1>3. IsNode(r) /\ r.mdt = x
    BY ONLY <1>1, <1>2 DEF IsNode
  <1>4. NodeTypes' /\ node'[n] = r
    BY <1>2, <1>3, OneNode, Zenon
  <1> QED BY <1>3, <1>4, Zenon

(* init_ecg_info gives the node the only IPC there is.                     *)
LEMMA OpenedNode ==
    ASSUME NodeTypes, ipc = [j \in Keys |-> ipc[j]], NoIpc, NEW n \in Nodes, node[n].mdt \in Mdts, NEW k \in Keys,
           ipc' = [ipc EXCEPT ![k] = n],
           node' = [node EXCEPT ![n].key = k, ![n].id = n, ![n].shm = TRUE]
    PROVE  NodeTypes' /\ ipc' = [j \in Keys |-> ipc'[j]] /\ node'[n].mdt = node[n].mdt /\ Open(n)'
  <1>1. IsNode(node[n]) /\ node = [x \in Nodes |-> node[x]]
    BY Zenon DEF NodeTypes
  <1>2. PICK d : d = [node[n] EXCEPT !.key = k]
    BY Zenon
  <1>3. PICK e : e = [d EXCEPT !.id = n]
    BY Zenon
  <1>4. PICK b : b = TRUE
    BY Zenon
  <1>5. PICK r : r = [e EXCEPT !.shm = b]
    BY Zenon
  <1>6. IsNode(d) /\ d.key = k /\ d.mdt = node[n].mdt
    BY ONLY <1>1, <1>2 DEF IsNode
  <1>7. IsNode(e) /\ e.key = d.key /\ e.id = n /\ e.mdt = d.mdt
    BY ONLY <1>3, <1>6 DEF IsNode
  <1>8. IsNode(r) /\ r.key = e.key /\ r.id = e.id /\ r.shm = b /\ r.mdt = e.mdt
    BY ONLY <1>5, <1>7 DEF IsNode
  <1>9. node' = [x \in Nodes |-> IF x = n THEN r ELSE node[x]]
    <2>1. node' = [node EXCEPT ![n].key = k, ![n].id = n, ![n].shm = b]
      BY <1>4, Zenon
    <2> QED BY ONLY <1>1, <1>2, <1>3, <1>5, <2>1, n \in Nodes
  <1>10. NodeTypes' /\ node'[n] = r
    BY <1>8, <1>9, OneNode, Zenon
  <1>11. ipc' = [j \in Keys |-> ipc'[j]] /\ ipc'[k] = n /\ \A j \in Keys \ {k} : ipc'[j] = ipc[j]
    BY ONLY ipc = [j \in Keys |-> ipc[j]], k \in Keys, ipc' = [ipc EXCEPT ![k] = n]
  <1>12. \A j \in Keys : ipc'[j] = IF j = k THEN n ELSE 0
    BY <1>11, Zenon DEF NoIpc
  <1>13. node'[n].key = k /\ node'[n].id = n /\ node'[n].shm /\ node'[n].mdt = node[n].mdt
    BY <1>4, <1>6, <1>7, <1>8, <1>10, Zenon
  <1>14. Open(n)'
    BY <1>12, <1>13, Zenon DEF Open
  <1> QED BY <1>10, <1>11, <1>13, <1>14, Zenon

(* cleanup_ecg_ipc removes the only IPC there is.                          *)
LEMMA ClosedNode ==
    ASSUME NodeTypes, NEW n \in Nodes, Open(n),
           ipc' = [k \in Keys |-> IF ipc[k] = node[n].id THEN 0 ELSE ipc[k]],
           node' = [node EXCEPT ![n].shm = FALSE]
    PROVE  NodeTypes' /\ ipc' = [k \in Keys |-> ipc'[k]] /\ NoIpc'
  <1>1. IsNode(node[n])
    BY Zenon DEF NodeTypes
  <1>2. PICK b : b = FALSE
    BY Zenon
  <1>3. PICK r : r = [node[n] EXCEPT !.shm = b]
    BY Zenon
  <1>4. IsNode(r)
    BY ONLY <1>1, <1>3 DEF IsNode
  <1>5. node' = [node EXCEPT ![n] = r]
    BY <1>2, <1>3, Zenon
  <1>6. NodeTypes'
    BY <1>4, <1>5, OneNode, Zenon
  <1>7. ASSUME NEW k \in Keys
        PROVE  ipc'[k] = 0
    <2>1. (ipc[k] = n \/ ipc[k] = 0) /\ node[n].id = n
      BY Zenon DEF Open
    <2>2. ipc'[k] = IF ipc[k] = node[n].id THEN 0 ELSE ipc[k]
      BY Zenon
    <2> QED BY ONLY <2>1, <2>2, Zenon
  <1>8. ipc' = [k \in Keys |-> ipc'[k]]
    BY ONLY ipc' = [k \in Keys |-> IF ipc[k] = node[n].id THEN 0 ELSE ipc[k]]
  <1> QED BY <1>6, <1>7, <1>8, Zenon DEF NoIpc

(* The steps that a command is made of.                                    *)
LEMMA GotoAt ==
    ASSUME Records, NEW t \in Threads, NEW v, Goto(t, v), UNCHANGED <<proc, pid>>
    PROVE  Becomes(t, th'[t]) /\ th'[t].pc = v /\ Same(th[t], th'[t])
  <1> DEFINE e == [th[t] EXCEPT !.pc = v]
  <1>1. Becomes(t, e) /\ e.pc = v /\ Same(th[t], e)
    BY GotoIs, Zenon
  <1>2. th'[t] = e
    BY <1>1, OnlyOne, Zenon
  <1> QED BY ONLY <1>1, <1>2, Zenon DEF Becomes, Same, IsThread

(* What such a step has to show of what is held; no exerciser is waited    *)
(* for after it.                                                           *)
Fine ==
    /\ Types' /\ (manager' # 0 => mgr'[manager'].st = "live")
    /\ Freed' /\ killed' = {}

(* A step within a command keeps OneInv when the next place is right.      *)
LEMMA OneGoto ==
    ASSUME OneInv, NEW t \in Threads, NEW w, At(t, w), w \notin Helpers, w # "accept", w # "idle",
           NEW v, Goto(t, v), v # "accept", v # "idle",
           UNCHANGED <<proc, pid, undefined, htxd_shutdown_flag>>, lost \subseteq lost', Fine, Phase(t)'
    PROVE  OneInv'
  <1>1. /\ Sole(t) /\ (t # Main => ~htxd_shutdown_flag) /\ Records /\ ~gone /\ th[t].pc = w
    BY Alone, Zenon
  <1>2. th[t].pid = 0
    BY <1>1, NoPid, Zenon DEF OneInv
  <1>3. Becomes(t, th'[t]) /\ th'[t].pc = v /\ Same(th[t], th'[t])
    BY <1>1, GotoAt, Zenon
  <1>4. PICK r : r = th'[t]
    BY Zenon
  <1>5. Becomes(t, r) /\ r.pid = 0 /\ r.pc # Home(t)
    BY <1>2, <1>3, <1>4, Zenon DEF Same, Home
  <1>6. Sound(t, r)
    BY <1>5, Zenon DEF Sound, Fine
  <1> QED BY <1>1, <1>2, <1>5, <1>6, OneStep, Zenon

(* The end of a command keeps OneInv when the daemon is at rest.           *)
LEMMA OneReply ==
    ASSUME OneInv, NEW t \in Threads, NEW w, At(t, w), w \notin Helpers, w # "accept", w # "idle",
           NEW a, Reply(t, a),
           UNCHANGED <<proc, pid, undefined, htxd_shutdown_flag>>, lost \subseteq lost', Fine, Rest'
    PROVE  OneInv'
  <1>1. /\ Sole(t) /\ (t # Main => ~htxd_shutdown_flag) /\ Records /\ ~gone /\ th[t].pc = w
    BY Alone, Zenon
  <1>2. th[t].pid = 0
    BY <1>1, NoPid, Zenon DEF OneInv
  <1>3. PICK r : r = Answer(t, a)
    BY Zenon
  <1>4. Becomes(t, r) /\ r.pc = Home(t) /\ r.pid = 0
    BY <1>1, <1>3, ReplyIs, Zenon
  <1>5. Sound(t, r)
    BY <1>4, Zenon DEF Sound, Fine
  <1> QED BY <1>1, <1>2, <1>4, <1>5, OneStep, Zenon

(* A step that changes nothing that is held.                               *)
LEMMA StaysFine ==
    ASSUME Types, Freed, manager # 0 => Live(manager), killed = {},
           UNCHANGED <<manager, mgr, node, next_key_offset, ipc, exers, killed, syscfg, monitors, pid>>
    PROVE  Fine
  <1>1. Types'
    BY Zenon DEF Types, MgrTypes, NodeTypes, IsMgr, IsNode
  <1>2. Freed'
    BY Zenon DEF Freed
  <1> QED BY <1>1, <1>2, Zenon DEF Fine, Live

(* Each step is one of the abstract specification, or none.                *)
Follows == [Life!Next]_<<state, Loaded>>

(* An empty list loads nothing.                                            *)
LEMMA LoadedNone ==
    /\ (manager = 0 \/ mgr[manager].list = <<>>) => Loaded = None
    /\ (manager' = 0 \/ mgr'[manager'].list = <<>>) => Loaded' = None
  BY Zenon DEF Loaded, Live

(* The only node of the list is the MDT loaded.                            *)
LEMMA LoadedIs ==
    ASSUME NEW n
    PROVE  /\ Live(manager) /\ mgr[manager].list = <<n>> => Loaded = node[n].mdt
           /\ Live(manager)' /\ mgr'[manager'].list = <<n>> => Loaded' = node'[n].mdt
  <1>1. \A s : s = <<n>> => Head(s) = n /\ s # <<>>
    OBVIOUS
  <1>2. mgr[manager].list = <<n>> => Head(mgr[manager].list) = n /\ mgr[manager].list # <<>>
    BY <1>1, Zenon
  <1>3. mgr'[manager'].list = <<n>> => Head(mgr'[manager'].list) = n /\ mgr'[manager'].list # <<>>
    BY <1>1, Zenon
  <1>4. Live(manager) /\ mgr[manager].list = <<n>> => Loaded = node[n].mdt
    BY <1>2 DEF Loaded
  <1>5. Live(manager)' /\ mgr'[manager'].list = <<n>> => Loaded' = node'[n].mdt
    BY <1>3 DEF Loaded
  <1> QED BY <1>4, <1>5, Zenon

(* A step that leaves state and list alone is none of MdtLife.             *)
LEMMA Stutters ==
    ASSUME UNCHANGED <<state, manager, mgr, node>>
    PROVE  Follows
  BY Zenon DEF Follows, Loaded, Live

(* createmdt, and the first steps of select and run.                       *)
LEMMA OneBegins ==
    ASSUME OneInv, NEW t \in Threads, create_mdt(t) \/ created(t) \/ select_mdt(t) \/ run_mdt(t)
    PROVE  OneInv' /\ Follows
  <1> USE DEF ecgs, loads, helpers, daemon
  <1>1. CASE create_mdt(t)
    <2>1. At(t, "createmdt") /\ Goto(t, "created")
      BY <1>1, Zenon DEF create_mdt
    <2>2. Calm(t) /\ th[t].pc = "createmdt"
      BY <2>1, CalmAt, Zenon
    <2>3. Idle
      BY <2>2, BeginPlaces, Zenon DEF Calm
    <2>4. state' = "CREATING" /\ Nothing'
      BY <1>1, <2>3, Zenon DEF Idle, Nothing, NoIpc, create_mdt
    <2>5. th'[t].pc = "created"
      BY <1>1, <2>1, <2>2, GotoAt, Zenon DEF create_mdt, Calm
    <2>6. Phase(t)'
      BY <2>4, <2>5, Zenon DEF Phase, Begins
    <2>7. Fine
      BY <1>1, <2>2, StaysFine, Zenon DEF Calm, create_mdt
    <2>8. OneInv'
      BY <1>1, <2>1, <2>6, <2>7, OneGoto, Zenon DEF create_mdt, Helpers
    <2>9. Loaded = None /\ Loaded' = None
      BY <2>3, <2>4, LoadedNone, Zenon DEF Idle, Nothing
    <2>10. Follows
      BY <2>3, <2>4, <2>9, Zenon DEF Follows, Idle, Life!Next, Life!Create
    <2> QED BY <2>8, <2>10
  <1>2. CASE created(t)
    <2>1. At(t, "created") /\ Reply(t, "created")
      BY <1>2, Zenon DEF created
    <2>2. Calm(t) /\ th[t].pc = "created"
      BY <2>1, CalmAt, Zenon
    <2>3. state = "CREATING" /\ Nothing
      BY <2>2, BeginPlaces, Zenon DEF Calm
    <2>4. Idle'
      BY <1>2, <2>3, Zenon DEF Idle, Nothing, NoIpc, created
    <2>5. Fine
      BY <1>2, <2>2, StaysFine, Zenon DEF Calm, created
    <2>6. OneInv'
      BY <1>2, <2>1, <2>4, <2>5, OneReply, Zenon DEF created, Helpers, Rest
    <2>7. Loaded = None /\ Loaded' = None
      BY <2>3, <2>4, LoadedNone, Zenon DEF Idle, Nothing
    <2>8. Follows
      BY <2>3, <2>4, <2>7, Zenon DEF Follows, Idle, Life!Next, Life!Create
    <2> QED BY <2>6, <2>8
  <1>3. CASE select_mdt(t)
    <2>1. /\ At(t, "select") /\ UNCHANGED <<daemon, ecgs, loads, helpers, undefined, lost>>
      BY <1>3, Zenon DEF select_mdt
    <2>2. Calm(t) /\ th[t].pc = "select"
      BY <2>1, CalmAt, Zenon
    <2>3. th[t].cmd = "select" /\ th[t].mdt \in Mdts /\ Idle /\ Idle'
      BY <2>1, <2>2, BeginPlaces, Kept, Zenon DEF Calm
    <2>4. Fine /\ Follows
      BY <2>1, <2>2, StaysFine, Stutters, Zenon DEF Calm
    <2>5. ASSUME NEW a, Reply(t, a)
          PROVE  OneInv'
      BY <2>1, <2>3, <2>4, <2>5, OneReply, Zenon DEF Helpers, Rest
    <2>6. ASSUME th' = [th EXCEPT ![t].pc = "mgr", ![t].mgr = manager]
          PROVE  OneInv'
      <3>1. PICK r : /\ Becomes(t, r) /\ r.pc = "mgr" /\ r.mgr = manager
                     /\ r.cmd = th[t].cmd /\ r.mdt = th[t].mdt /\ r.pid = th[t].pid
        <4>1. Records /\ SetsMgr(t, "mgr", manager)
          BY <2>2, <2>6, Zenon DEF Calm, SetsMgr
        <4> QED BY ONLY <4>1, t \in Threads, MgrIs
      <3>2. th[t].pid = 0
        BY <2>2, NoPid, Zenon DEF OneInv, Helpers
      <3>3. th'[t] = r
        BY <2>1, <2>2, <3>1, OnlyOne, Zenon DEF Calm
      <3>4. Phase(t)'
        BY <2>1, <2>3, <3>1, <3>3, Zenon DEF Phase, Loads
      <3>5. Sound(t, r)
        BY <2>4, <3>1, <3>4, Zenon DEF Sound, Fine, Home
      <3> QED BY <2>1, <2>2, <3>1, <3>2, <3>5, OneStep, Zenon DEF Calm
    <2> QED BY ONLY <1>3, <2>4, <2>5, <2>6, Zenon DEF select_mdt
  <1>4. CASE run_mdt(t)
    <2>1. /\ At(t, "run")
          /\ UNCHANGED <<state, test, htxd_shutdown_flag, ecgs, loads, helpers, undefined, lost>>
      BY <1>4, Zenon DEF run_mdt
    <2>2. Calm(t) /\ th[t].pc = "run"
      BY <2>1, CalmAt, Zenon
    <2>3. th[t].cmd = "run" /\ th[t].mdt \in Mdts /\ (Idle' \/ Chosen')
      BY <2>1, <2>2, BeginPlaces, Kept, Zenon DEF Calm
    <2>4. Fine /\ Follows
      BY <2>1, <2>2, StaysFine, Stutters, Zenon DEF Calm
    <2>5. ASSUME NEW a, Reply(t, a)
          PROVE  OneInv'
      BY <2>1, <2>3, <2>4, <2>5, OneReply, Zenon DEF Helpers, Rest
    <2>6. ASSUME th' = [th EXCEPT ![t].pc = "mgr", ![t].mgr = manager]
          PROVE  OneInv'
      <3>1. PICK r : /\ Becomes(t, r) /\ r.pc = "mgr" /\ r.mgr = manager
                     /\ r.cmd = th[t].cmd /\ r.mdt = th[t].mdt /\ r.pid = th[t].pid
        <4>1. Records /\ SetsMgr(t, "mgr", manager)
          BY <2>2, <2>6, Zenon DEF Calm, SetsMgr
        <4> QED BY ONLY <4>1, t \in Threads, MgrIs
      <3>2. th[t].pid = 0
        BY <2>2, NoPid, Zenon DEF OneInv, Helpers
      <3>3. th'[t] = r
        BY <2>1, <2>2, <3>1, OnlyOne, Zenon DEF Calm
      <3>4. Phase(t)'
        BY <2>1, <2>3, <3>1, <3>3, Zenon DEF Phase, Loads
      <3>5. Sound(t, r)
        BY <2>4, <3>1, <3>4, Zenon DEF Sound, Fine, Home
      <3> QED BY <2>1, <2>2, <3>1, <3>2, <3>5, OneStep, Zenon DEF Calm
    <2> QED BY ONLY <1>4, <2>4, <2>5, <2>6, Zenon DEF run_mdt
  <1> QED BY <1>1, <1>2, <1>3, <1>4

(* The ECG manager is found, or created with an empty list.                *)
LEMMA OneManager ==
    ASSUME OneInv, NEW t \in Threads, create_ecg_manager(t)
    PROVE  OneInv' /\ Follows
  <1> USE DEF ecgs, loads, helpers, daemon
  <1>1. /\ At(t, "mgr") /\ UNCHANGED <<state, test, htxd_shutdown_flag, node, next_key_offset, ipc, loads>>
        /\ UNCHANGED <<pid, proc, undefined, lost>>
    BY Zenon DEF create_ecg_manager
  <1>2. Calm(t) /\ th[t].pc = "mgr"
    BY <1>1, CalmAt, Zenon
  <1>3. /\ th[t].mgr = manager /\ th[t].mdt \in Mdts
        /\ (th[t].cmd \in {"run", "select"} /\ Idle) \/ (th[t].cmd = "run" /\ Chosen)
    BY <1>2, LoadPlaces, Zenon DEF Calm
  <1>4. PICK w : w = IF th[t].cmd = "run" THEN "hxsmsg" ELSE "name"
    BY Zenon
  <1>5. w # "accept" /\ w # "idle" /\ w # Home(t)
    BY <1>4, Zenon DEF Home
  <1>6. CASE Goto(t, w) /\ th[t].mgr # 0 /\ UNCHANGED <<manager, mgr>>
    <2>1. th[t].cmd = "run" /\ Chosen
      BY <1>3, <1>6, Zenon DEF Idle, Nothing
    <2>2. Chosen'
      BY <1>1, <1>6, <2>1, Kept, Zenon
    <2>3. th'[t].pc = "hxsmsg" /\ Same(th[t], th'[t])
      BY <1>1, <1>2, <1>4, <1>6, <2>1, GotoAt, Zenon DEF Calm
    <2>4. Phase(t)'
      BY <1>3, <1>6, <2>1, <2>2, <2>3, Zenon DEF Phase, Loads, Same
    <2>5. Fine /\ Follows
      BY <1>1, <1>2, <1>6, StaysFine, Stutters, Zenon DEF Calm
    <2> QED BY <1>1, <1>5, <1>6, <2>4, <2>5, OneGoto, Zenon DEF Helpers
  <1>7. ASSUME NEW m \in Mgrs, SetsMgr(t, w, m), th[t].mgr = 0, manager' = m,
               mgr' = [mgr EXCEPT ![m] = [NoMgr EXCEPT !.st = "live"]]
        PROVE  OneInv' /\ Follows
    <2>1. Idle /\ exers = {} /\ MgrTypes
      BY <1>2, <1>3, <1>7, Zenon DEF Chosen, Full, Calm, Freed, Types
    <2>2. MgrTypes' /\ m # 0 /\ mgr'[m].st = "live" /\ mgr'[m].list = <<>> /\ mgr'[m].len = 0
      BY <1>7, <2>1, NewManager, Zenon
    <2>3. state' = "IDLE" /\ Fresh'
      BY <1>1, <1>7, <2>1, <2>2, Zenon DEF Idle, Nothing, Fresh, Unlisted, NoIpc
    <2>4. PICK r : /\ Becomes(t, r) /\ r.pc = w /\ r.mgr = m
                   /\ r.cmd = th[t].cmd /\ r.mdt = th[t].mdt /\ r.pid = th[t].pid
      <3>1. Records
        BY <1>2, Zenon DEF Calm
      <3> QED BY ONLY <1>7, <3>1, t \in Threads, MgrIs
    <2>5. th'[t] = r /\ th[t].pid = 0
      BY <1>1, <1>2, <2>4, OnlyOne, NoPid, Zenon DEF Calm, OneInv, Helpers
    <2>6. Phase(t)'
      <3>1. (th[t].cmd = "run" /\ w = "hxsmsg") \/ (th[t].cmd = "select" /\ w = "name")
        BY <1>3, <1>4, <2>1, Zenon
      <3> QED BY <1>3, <1>7, <2>3, <2>4, <2>5, <3>1, Zenon DEF Phase, Loads
    <2>7. Types'
      BY <1>1, <1>2, <1>7, <2>2, Zenon DEF Calm, Types, NodeTypes, IsNode
    <2>8. Sound(t, r)
      BY <1>1, <1>2, <1>5, <1>7, <2>1, <2>2, <2>4, <2>6, <2>7, Zenon DEF Sound, Freed, Calm
    <2>9. OneInv'
      BY <1>1, <1>2, <2>4, <2>5, <2>8, OneStep, Zenon DEF Calm
    <2>10. Loaded = None /\ Loaded' = None
      BY <1>7, <2>1, <2>2, LoadedNone, Zenon DEF Idle, Nothing
    <2> QED BY <1>1, <2>9, <2>10, Zenon DEF Follows
  <1>8. \/ Goto(t, w) /\ th[t].mgr # 0 /\ UNCHANGED <<manager, mgr>>
        \/ \E m \in Mgrs : /\ SetsMgr(t, w, m) /\ th[t].mgr = 0 /\ manager' = m
                           /\ mgr' = [mgr EXCEPT ![m] = [NoMgr EXCEPT !.st = "live"]]
    BY ONLY <1>4, create_ecg_manager(t), Zenon DEF create_ecg_manager, SetsMgr
  <1> QED BY ONLY <1>6, <1>7, <1>8, Zenon

(* The name is looked up: a new one is announced, the selected one started. *)
LEMMA OneName ==
    ASSUME OneInv, NEW t \in Threads, Name(t)
    PROVE  OneInv' /\ Follows
  <1> USE DEF ecgs, loads, helpers, daemon
  <1>1. At(t, "name") /\ UNCHANGED <<loads, helpers, lost>>
    BY Zenon DEF Name
  <1>2. Calm(t) /\ th[t].pc = "name"
    BY <1>1, CalmAt, Zenon
  <1>3. /\ th[t].mgr = manager /\ th[t].mdt \in Mdts
        /\ \/ th[t].cmd \in {"run", "select"} /\ state = "IDLE" /\ Fresh
           \/ th[t].cmd = "run" /\ Chosen
    BY <1>2, LoadPlaces, Zenon DEF Calm
  <1>4. Live(manager) /\ manager # 0
    BY <1>2, <1>3, Zenon DEF Calm, Chosen, Full, Fresh, Unlisted
  <1>5. PICK look : look = (th[t].cmd = "select" \/ state # "SELECTED")
    BY Zenon
  <1>6. /\ look => th[t].cmd \in {"run", "select"} /\ state = "IDLE" /\ Fresh
        /\ ~look => th[t].cmd = "run" /\ Chosen
    BY <1>3, <1>5, Zenon DEF Chosen
  <1>7. PICK known : known = (Live(manager) /\ \E n \in Listed(manager) : node[n].mdt = th[t].mdt)
    BY Zenon
  <1>8. ~(look /\ known)
    <2>1. mgr[manager].list = <<>> => Listed(manager) = {}
      BY DEF Listed
    <2> QED BY <1>6, <1>7, <2>1, Zenon DEF Fresh, Unlisted
  <1>9. CASE /\ look /\ Goto(t, "alloc") /\ UNCHANGED <<test, htxd_shutdown_flag, ecgs, undefined>>
             /\ IF th[t].cmd = "select" THEN state' = "SELECTING" ELSE UNCHANGED state
    <2>1. th'[t].pc = "alloc" /\ Same(th[t], th'[t])
      BY <1>1, <1>2, <1>9, GotoAt, Zenon DEF Calm
    <2>2. Fresh'
      BY <1>1, <1>6, <1>9, Zenon DEF Fresh, Unlisted, NoIpc
    <2>3. Phase(t)'
      BY <1>3, <1>6, <1>9, <2>1, <2>2, Zenon DEF Phase, Loads, Same
    <2>4. Fine
      BY <1>1, <1>2, <1>9, StaysFine, Zenon DEF Calm
    <2>5. OneInv'
      BY <1>1, <1>9, <2>3, <2>4, OneGoto, Zenon DEF Helpers
    <2>6. Loaded = None /\ Loaded' = None
      BY <1>6, <1>9, <2>2, LoadedNone, Zenon DEF Fresh, Unlisted
    <2>7. Follows
      BY <1>6, <1>9, <2>6, Zenon DEF Follows, Life!Next, Life!Announce
    <2> QED BY <2>5, <2>7
  <1>10. CASE ~look /\ Reply(t, "refused") /\ UNCHANGED <<daemon, ecgs, undefined>>
    <2>1. Chosen'
      BY <1>1, <1>6, <1>10, Kept, Zenon
    <2>2. Fine /\ Follows
      BY <1>1, <1>2, <1>10, StaysFine, Stutters, Zenon DEF Calm
    <2> QED BY <1>1, <1>10, <2>1, <2>2, OneReply, Zenon DEF Helpers, Rest
  <1>11. CASE /\ ~look /\ mgr' = [mgr EXCEPT ![th[t].mgr].selected = None] /\ Goto(t, "starting")
              /\ UNCHANGED <<daemon, manager, node, next_key_offset, ipc, undefined>>
    <2>1. manager \in Mgrs /\ MgrTypes
      BY <1>2, <1>4, Zenon DEF Calm, Types
    <2>2. /\ MgrTypes' /\ mgr'[manager].st = mgr[manager].st /\ mgr'[manager].list = mgr[manager].list
          /\ mgr'[manager].len = mgr[manager].len /\ mgr'[manager].current = mgr[manager].current
      <3>1. mgr' = [mgr EXCEPT ![manager].selected = None]
        BY <1>3, <1>11, Zenon
      <3> QED BY <2>1, <3>1, Renamed, Zenon
    <2>3. current' = current /\ Full'
      BY <1>6, <1>11, <2>2, Zenon DEF Chosen, Full, Open, current
    <2>4. th'[t].pc = "starting" /\ Same(th[t], th'[t])
      BY <1>1, <1>2, <1>11, GotoAt, Zenon DEF Calm
    <2>5. Phase(t)'
      BY <1>1, <1>3, <1>6, <1>11, <2>3, <2>4, Zenon DEF Phase, Starts, Same, Chosen
    <2>6. Types' /\ Fine
      BY <1>1, <1>2, <1>4, <1>11, <2>2, Zenon DEF Types, Fine, Freed, Calm, NodeTypes, IsNode, Live
    <2>7. OneInv'
      BY <1>1, <1>11, <2>5, <2>6, OneGoto, Zenon DEF Helpers
    <2>8. Live(manager)'
      BY <1>4, <1>11, <2>2, Zenon DEF Live
    <2>9. Loaded = node[current].mdt /\ Loaded' = node[current].mdt
      <3>1. mgr[manager].list = <<current>> /\ mgr'[manager'].list = <<current>>
        BY <1>6, <1>11, <2>2, Zenon DEF Chosen, Full
      <3> QED BY <1>4, <1>11, <2>8, <3>1, LoadedIs, Zenon
    <2> QED BY <1>11, <2>7, <2>9, Zenon DEF Follows
  <1>12. \/ ~Live(IF look THEN manager ELSE th[t].mgr)
         \/ look /\ known
         \/ /\ look /\ Goto(t, "alloc") /\ UNCHANGED <<test, htxd_shutdown_flag, ecgs, undefined>>
            /\ IF th[t].cmd = "select" THEN state' = "SELECTING" ELSE UNCHANGED state
         \/ ~look /\ Reply(t, "refused") /\ UNCHANGED <<daemon, ecgs, undefined>>
         \/ /\ ~look /\ mgr' = [mgr EXCEPT ![th[t].mgr].selected = None] /\ Goto(t, "starting")
            /\ UNCHANGED <<daemon, manager, node, next_key_offset, ipc, undefined>>
    BY ONLY <1>5, <1>7, Name(t), Zenon DEF Name
  <1>13. Live(IF look THEN manager ELSE th[t].mgr)
    BY <1>3, <1>4, Zenon
  <1> QED BY ONLY <1>8, <1>9, <1>10, <1>11, <1>12, <1>13, Zenon

(* A node with the name is listed, and made the current one.               *)
LEMMA OneAllocate ==
    ASSUME OneInv, NEW t \in Threads, allocate_ecg_info(t)
    PROVE  OneInv' /\ Follows
  <1> USE DEF ecgs, loads, helpers, daemon
  <1>1. At(t, "alloc") /\ UNCHANGED <<loads, helpers, lost>>
    BY Zenon DEF allocate_ecg_info
  <1>2. Calm(t) /\ th[t].pc = "alloc"
    BY <1>1, CalmAt, Zenon
  <1>3. /\ th[t].mgr = manager /\ th[t].mdt \in Mdts /\ Fresh
        /\ (th[t].cmd = "run" /\ state = "IDLE") \/ (th[t].cmd = "select" /\ state = "SELECTING")
    BY <1>2, LoadPlaces, Zenon DEF Calm
  <1>4. Live(manager) /\ manager # 0 /\ manager \in Mgrs /\ Types
    BY <1>2, <1>3, Zenon DEF Calm, Fresh, Unlisted, Types
  <1>5. PICK n \in Nodes : /\ node' = [node EXCEPT ![n].mdt = th[t].mdt]
                           /\ mgr' = [mgr EXCEPT ![manager].list = Append(@, n), ![manager].current = n]
                           /\ Goto(t, "key")
                           /\ UNCHANGED <<daemon, manager, next_key_offset, ipc, undefined>>
    BY <1>3, <1>4, Zenon DEF allocate_ecg_info
  <1>6. /\ MgrTypes' /\ mgr'[manager].st = "live" /\ mgr'[manager].list = <<n>>
        /\ mgr'[manager].len = 0 /\ mgr'[manager].current = n
    BY <1>3, <1>4, <1>5, Appended, Zenon DEF Types, Live, Fresh, Unlisted
  <1>7. NodeTypes' /\ node'[n].mdt = th[t].mdt
    BY <1>4, <1>5, NamedNode, Zenon DEF Types
  <1>8. Named'
    BY <1>1, <1>3, <1>4, <1>5, <1>6, <1>7, Zenon DEF Named, current, Fresh, NoIpc
  <1>9. th'[t].pc = "key" /\ Same(th[t], th'[t])
    BY <1>1, <1>2, <1>5, GotoAt, Zenon DEF Calm
  <1>10. Phase(t)'
    BY <1>3, <1>5, <1>8, <1>9, Zenon DEF Phase, Loads, Same
  <1>11. Fine
    BY <1>1, <1>2, <1>4, <1>5, <1>6, <1>7, Zenon DEF Fine, Types, Freed, Calm
  <1>12. OneInv'
    BY <1>1, <1>5, <1>10, <1>11, OneGoto, Zenon DEF Helpers
  <1>13. Loaded = None
    BY <1>3, LoadedNone, Zenon DEF Fresh, Unlisted
  <1>14. Loaded' = th[t].mdt
    <2>1. Live(manager)' /\ mgr'[manager'].list = <<n>>
      BY <1>4, <1>5, <1>6, Zenon DEF Live
    <2> QED BY <1>7, <2>1, LoadedIs, Zenon
  <1>15. Life!Load(th[t].mdt)
    BY <1>3, <1>5, <1>13, <1>14, Zenon DEF Life!Load
  <1> QED BY <1>3, <1>12, <1>15, Zenon DEF Follows, Life!Next

(* The key offset stays within its limit.                                  *)
LEMMA KeyOffsets ==
    ASSUME Types, NEW m, NEW k \in next_key_offsets(m)
    PROVE  k \in Keys
  <1>1. next_key_offset \in Nat /\ KeyLimit \in Nat
    BY LifecycleAssumption DEF Types, Keys
  <1>2. PICK taken : taken = \E n \in Listed(m) : node[n].shm /\ node[n].key = next_key_offset
    BY Zenon
  <1>3. PICK base : base = IF taken THEN next_key_offset + 1 ELSE next_key_offset
    BY Zenon
  <1>4. k \in {IF j > KeyLimit THEN KeyLimit ELSE j : j \in {base, base + 1}}
    BY ONLY <1>2, <1>3, k \in next_key_offsets(m), Zenon DEF next_key_offsets
  <1>5. base \in Nat
    BY ONLY <1>1, <1>3
  <1> QED BY ONLY <1>1, <1>4, <1>5 DEF Keys

(* The IPC of the current node is created under a key.                     *)
LEMMA OneIpc ==
    ASSUME OneClient, OneInv, NEW t \in Threads, init_ecg_info(t)
    PROVE  OneInv' /\ Follows
  <1> USE DEF ecgs, loads, helpers, daemon
  <1>1. At(t, "key") /\ UNCHANGED <<loads, helpers, lost>>
    BY Zenon DEF init_ecg_info
  <1>2. Calm(t) /\ th[t].pc = "key"
    BY <1>1, CalmAt, Zenon
  <1>3. /\ th[t].mgr = manager /\ th[t].mdt \in Mdts /\ Named
        /\ (th[t].cmd = "run" /\ state = "IDLE") \/ (th[t].cmd = "select" /\ state = "SELECTING")
    BY <1>2, LoadPlaces, Zenon DEF Calm
  <1>4. Live(manager) /\ manager # 0 /\ manager \in Mgrs /\ Types /\ NoIpc /\ current \in Nodes
    BY <1>2, <1>3, Zenon DEF Calm, Named, Types
  <1>5. PICK m, n : m = th[t].mgr /\ n = mgr[m].current
    BY Zenon
  <1>6. m = manager /\ n = current
    BY <1>3, <1>5, Zenon DEF current
  <1>7. PICK v : v = IF th[t].cmd = "run" THEN "starting" ELSE "hxsmsg"
    BY Zenon
  <1>8. PICK k \in next_key_offsets(m) :
          /\ next_key_offset' = k
          /\ LET id == IF ipc[k] = 0 THEN n ELSE ipc[k]
             IN  /\ ipc' = [ipc EXCEPT ![k] = id]
                 /\ node' = [node EXCEPT ![n].key = k, ![n].id = id, ![n].shm = TRUE]
                 /\ mgr' = [mgr EXCEPT ![m].len = @ + 1]
          /\ Goto(t, v) /\ UNCHANGED <<daemon, manager, undefined>>
    <2>1. Live(m) /\ "ipc" \notin Events
      BY <1>4, <1>6, Zenon DEF OneClient
    <2> QED BY ONLY <1>5, <1>7, <2>1, init_ecg_info(t), Zenon DEF init_ecg_info
  <1>9. k \in Keys /\ ipc[k] = 0
    BY <1>4, KeyOffsets, Zenon DEF NoIpc
  <1>10. /\ ipc' = [ipc EXCEPT ![k] = n]
         /\ node' = [node EXCEPT ![n].key = k, ![n].id = n, ![n].shm = TRUE]
    <2>1. PICK id : /\ id = IF ipc[k] = 0 THEN n ELSE ipc[k]
                    /\ ipc' = [ipc EXCEPT ![k] = id]
                    /\ node' = [node EXCEPT ![n].key = k, ![n].id = id, ![n].shm = TRUE]
      BY ONLY <1>8, Zenon
    <2>2. id = n
      BY ONLY <1>9, <2>1, Zenon
    <2> QED BY ONLY <2>1, <2>2, Zenon
  <1>11. NodeTypes' /\ ipc' = [j \in Keys |-> ipc'[j]] /\ node'[n].mdt = node[n].mdt /\ Open(n)'
    <2>1. NodeTypes /\ ipc = [j \in Keys |-> ipc[j]] /\ node[n].mdt \in Mdts /\ n \in Nodes
      BY <1>3, <1>4, <1>6, Zenon DEF Types, Named
    <2> QED BY <1>4, <1>9, <1>10, <2>1, OpenedNode, Zenon
  <1>12. /\ MgrTypes' /\ mgr'[m].st = mgr[m].st /\ mgr'[m].list = mgr[m].list
         /\ mgr'[m].len = 1 /\ mgr'[m].current = n
    <2>1. MgrTypes /\ m \in Mgrs /\ mgr[m].len = 0
      BY <1>3, <1>4, <1>6, Zenon DEF Types, Named
    <2>2. mgr' = [mgr EXCEPT ![m].len = @ + 1]
      BY ONLY <1>8, Zenon
    <2> QED BY <1>5, <2>1, <2>2, Counted, Zenon
  <1>13. current' = n /\ Full'
    <2>1. current' = n
      BY <1>6, <1>8, <1>12, Zenon DEF current
    <2>2. mgr'[manager'].list = <<n>> /\ mgr'[manager'].len = 1
      BY <1>3, <1>6, <1>8, <1>12, Zenon DEF Named
    <2> QED BY <1>4, <1>8, <1>11, <2>1, <2>2, Zenon DEF Full, Open
  <1>14. th'[t].pc = v /\ Same(th[t], th'[t])
    BY <1>1, <1>2, <1>8, GotoAt, Zenon DEF Calm
  <1>15. Phase(t)'
    <2>1. exers' = {} /\ state' = state /\ th'[t].mgr = manager'
      BY <1>1, <1>3, <1>8, <1>14, Zenon DEF Named, Same
    <2>2. CASE th[t].cmd = "run"
      BY <1>3, <1>7, <1>13, <1>14, <2>1, <2>2, Zenon DEF Phase, Starts, Same
    <2>3. CASE th[t].cmd = "select"
      BY <1>3, <1>7, <1>13, <1>14, <2>1, <2>3, Zenon DEF Phase, Loads, Same
    <2> QED BY <1>3, <2>2, <2>3, Zenon
  <1>16. Fine
    BY <1>1, <1>2, <1>4, <1>6, <1>8, <1>9, <1>11, <1>12, Zenon DEF Fine, Types, Freed, Calm, Live
  <1>17. OneInv'
    <2>1. v # "accept" /\ v # "idle"
      BY <1>7, Zenon
    <2> QED BY <1>1, <1>8, <1>15, <1>16, <2>1, OneGoto, Zenon DEF Helpers
  <1>18. Loaded = node[n].mdt /\ Loaded' = node[n].mdt
    <2>1. Live(manager)' /\ mgr'[manager'].list = <<n>> /\ mgr[manager].list = <<n>>
      BY <1>3, <1>4, <1>6, <1>8, <1>12, Zenon DEF Live, Named
    <2> QED BY <1>4, <1>11, <2>1, LoadedIs, Zenon
  <1> QED BY <1>8, <1>17, <1>18, Zenon DEF Follows

(* The MDT is selected.                                                    *)
LEMMA OneSelected ==
    ASSUME OneInv, NEW t \in Threads, selected(t)
    PROVE  OneInv' /\ Follows
  <1> USE DEF ecgs, loads, helpers, daemon
  <1>1. At(t, "selected") /\ UNCHANGED <<loads, helpers, lost>>
    BY Zenon DEF selected
  <1>2. Calm(t) /\ th[t].pc = "selected"
    BY <1>1, CalmAt, Zenon
  <1>3. /\ th[t].mgr = manager /\ th[t].mdt \in Mdts
        /\ state = "SELECTING" /\ Full /\ exers = {}
    BY <1>2, LoadPlaces, Zenon DEF Calm
  <1>4. Live(manager) /\ manager # 0 /\ manager \in Mgrs /\ Types
    BY <1>2, <1>3, Zenon DEF Calm, Full, Types
  <1>5. /\ mgr' = [mgr EXCEPT ![manager].selected = th[t].mdt]
        /\ state' = "SELECTED" /\ Reply(t, "selected")
        /\ UNCHANGED <<test, htxd_shutdown_flag, manager, node, next_key_offset, ipc, undefined>>
    BY <1>3, <1>4, Zenon DEF selected
  <1>6. /\ MgrTypes' /\ mgr'[manager].st = mgr[manager].st /\ mgr'[manager].list = mgr[manager].list
        /\ mgr'[manager].len = mgr[manager].len /\ mgr'[manager].current = mgr[manager].current
    BY <1>4, <1>5, Renamed, Zenon DEF Types
  <1>7. current' = current /\ Chosen'
    BY <1>1, <1>3, <1>5, <1>6, Zenon DEF Chosen, Full, Open, current
  <1>8. Fine
    BY <1>1, <1>2, <1>4, <1>5, <1>6, Zenon DEF Types, Fine, Freed, Calm, NodeTypes, IsNode, Live
  <1>9. OneInv'
    BY <1>1, <1>5, <1>7, <1>8, OneReply, Zenon DEF Helpers, Rest
  <1>10. Loaded = node[current].mdt /\ Loaded' = node[current].mdt /\ node[current].mdt \in Mdts
    <2>1. Live(manager)' /\ mgr'[manager'].list = <<current>> /\ mgr[manager].list = <<current>>
      BY <1>3, <1>4, <1>5, <1>6, Zenon DEF Live, Full
    <2> QED BY <1>3, <1>4, <1>5, <2>1, LoadedIs, Zenon DEF Full, Open
  <1>11. Life!Advance
    BY <1>3, <1>5, <1>10, LifecycleAssumption, Zenon DEF Life!Advance
  <1> QED BY <1>9, <1>11, Zenon DEF Follows, Life!Next

(* Where a helper is loaded there is a manager, and the thread goes on.    *)
LEMMA AtHelper ==
    ASSUME NEW t \in Threads, Calm(t), NEW h \in Helpers, th[t].pc = h
    PROVE  manager # 0 /\ th[t].mgr = manager /\ Live(manager)
  <1>1. CASE h = "hxsmsg"
    <2>1. th[t].mgr = manager /\ (Fresh \/ Chosen \/ Full)
      BY <1>1, LoadPlaces, Zenon DEF Calm
    <2> QED BY <2>1, Zenon DEF Fresh, Unlisted, Chosen, Full, Calm
  <1>2. CASE h # "hxsmsg"
    BY <1>2, StartPlaces, Zenon DEF Calm, Helpers
  <1> QED BY <1>1, <1>2, Zenon

(* Where the thread goes once the helper is loaded.                        *)
LEMMA AfterHelper ==
    ASSUME NEW t \in Threads, Calm(t), NEW h \in Helpers, th[t].pc = h,
           UNCHANGED <<state, test, manager, mgr, node, ipc, exers>>,
           th'[t].cmd = th[t].cmd, th'[t].mdt = th[t].mdt, th'[t].mgr = th[t].mgr,
           th'[t].pc \in {h, AfterLoad(t, h)}
    PROVE  Phase(t)' /\ th'[t].pc # Home(t)
  <1>1. CASE h = "hxsmsg"
    <2>1. /\ th[t].mgr = manager /\ th[t].mdt \in Mdts
          /\ \/ th[t].cmd = "run" /\ ((state = "IDLE" /\ Fresh) \/ Chosen)
             \/ th[t].cmd = "select" /\ state = "SELECTING" /\ Full /\ exers = {}
      BY <1>1, LoadPlaces, Zenon DEF Calm
    <2>2. (Fresh => Fresh') /\ (Chosen => Chosen') /\ (Full => Full')
      BY Kept, SameHold, Zenon
    <2>3. AfterLoad(t, h) = IF th[t].cmd = "run" THEN "name" ELSE "selected"
      BY <1>1 DEF AfterLoad
    <2>4. /\ th[t].cmd = "run" => th'[t].pc \in {"hxsmsg", "name"}
          /\ th[t].cmd = "select" => th'[t].pc \in {"hxsmsg", "selected"}
      BY <1>1, <2>3, Zenon
    <2>5. th'[t].pc # Home(t)
      BY <2>1, <2>4, Zenon DEF Home
    <2> QED BY <2>1, <2>2, <2>4, <2>5, Zenon DEF Phase, Loads
  <1>2. CASE h # "hxsmsg"
    <2>1. /\ th[t].mgr = manager /\ th[t].mdt \in Mdts /\ th[t].cmd = "run" /\ Full
          /\ state = "STARTING" /\ exers = {current}
      BY <1>2, StartPlaces, Zenon DEF Calm, Helpers
    <2>2. Full' /\ current' = current
      BY <2>1, SameHold, Zenon
    <2>3. /\ h = "hxstats" => AfterLoad(t, h) = "equaliser"
          /\ h = "equaliser" => AfterLoad(t, h) = "monitors"
      BY DEF AfterLoad
    <2>4. th'[t].pc \in {"hxstats", "equaliser", "monitors"}
      BY <1>2, <2>3, Zenon DEF Helpers
    <2>5. th'[t].pc # Home(t)
      BY <2>4, Zenon DEF Home
    <2> QED BY <2>1, <2>2, <2>4, <2>5, Zenon DEF Phase, Starts
  <1> QED BY <1>1, <1>2, Zenon

(* What a step that forks a helper or stores its pid has to show.          *)
LEMMA HelperStep ==
    ASSUME OneInv, NEW t \in Threads, Calm(t), NEW h \in Helpers, th[t].pc = h, PidInv',
           \A u \in Threads \ {t} : th'[u] = th[u],
           th'[t].pc # Home(t), Phase(t)', Children', th'[t].pid # 0 => pid'[th'[t].pc] = 0,
           UNCHANGED <<undefined, htxd_shutdown_flag, ecgs, loads>>
    PROVE  OneInv'
  <1> USE DEF ecgs, loads
  <1>1. \A u \in Threads \ {t} : ~Works(u)'
    BY Zenon DEF Calm, Sole, Works
  <1>2. OneWorks'
    <2>1. (\A v, u \in Threads : Works(v) /\ Works(u) => v = u)'
      BY <1>1, Zenon
    <2>2. ASSUME NEW s \in Sessions, Works(s)'
          PROVE  ~htxd_shutdown_flag'
      <3>1. s = t /\ s # Main
        BY <1>1, <2>2, LifecycleAssumption, Zenon DEF Threads
      <3> QED BY <3>1, Zenon DEF Calm
    <2> QED BY <2>1, <2>2, Zenon DEF OneWorks
  <1>3. \A u \in Threads \ {t} : th'[u].pid = 0
    BY Zenon DEF OneInv, Calm, Sole, gone
  <1>4. Works(t)'
    BY Zenon DEF Works, Home
  <1>5. manager # 0 /\ Live(manager)
    BY AtHelper, Zenon
  <1>6. Types' /\ Freed' /\ Signalled' /\ (manager' # 0 => mgr'[manager'].st = "live")
    <2>1. Types'
      BY Zenon DEF Calm, Types, MgrTypes, NodeTypes, IsMgr, IsNode
    <2> QED BY <1>5, <2>1, Zenon DEF Calm, Freed, Signalled, Live
  <1>7. (\A u \in Threads : IF Works(u) THEN Phase(u) ELSE th[u].pid = 0)'
    BY <1>1, <1>3, <1>4, Zenon
  <1>8. (\A u \in Threads : th[u].pid # 0 => pid[th[u].pc] = 0)'
    BY <1>3, Zenon
  <1> QED BY <1>2, <1>4, <1>6, <1>7, <1>8, Zenon DEF OneInv

(* Loading a helper: it runs already, is forked, or its pid is stored.     *)
LEMMA OneHelper ==
    ASSUME OneInv, NEW t \in Threads, NEW h \in Helpers,
           \/ Unreadable(t, h) \/ LoadedAlready(t, h) \/ Fork(t, h) \/ StorePid(t, h)
    PROVE  OneInv' /\ Follows
  <1> USE DEF ecgs, loads, helpers, daemon
  <1>0. At(t, h) /\ h # "accept" /\ h # "idle" /\ h # "unloadWait"
    BY Zenon DEF Unreadable, LoadedAlready, Fork, StorePid, Helpers
  <1>1. Calm(t) /\ th[t].pc = h
    BY <1>0, CalmAt, Zenon
  <1>2. manager # 0 /\ th[t].mgr = manager /\ Live(manager)
    BY <1>1, AtHelper, Zenon
  <1>3. PidInv'
    BY HelperPids, Zenon DEF OneInv
  <1>4. ~Unreadable(t, h)
    BY <1>2, Zenon DEF Unreadable, Readable
  <1>5. CASE LoadedAlready(t, h)
    <2>1. /\ th[t].pid = 0 /\ Goto(t, AfterLoad(t, h))
          /\ UNCHANGED <<daemon, ecgs, loads, helpers, lost, undefined>>
      BY <1>5, Zenon DEF LoadedAlready
    <2>2. Becomes(t, th'[t]) /\ th'[t].pc = AfterLoad(t, h) /\ Same(th[t], th'[t])
      BY <1>1, <2>1, GotoAt, Zenon DEF Calm
    <2>3. PICK r : r = th'[t]
      BY Zenon
    <2>4. Phase(t)' /\ r.pc # Home(t)
      BY <1>1, <2>1, <2>2, <2>3, AfterHelper, Zenon DEF Same
    <2>5. Fine /\ Follows
      BY <1>1, <2>1, StaysFine, Stutters, Zenon DEF Calm
    <2>6. Sound(t, r)
      BY <2>4, <2>5, Zenon DEF Sound, Fine
    <2>7. Becomes(t, r) /\ r.pid = 0
      BY <2>1, <2>2, <2>3, Zenon DEF Same
    <2>8. OneInv'
      BY <1>1, <2>1, <2>6, <2>7, OneStep, Zenon DEF Calm
    <2> QED BY <2>5, <2>8, Zenon
  <1>6. CASE Fork(t, h)
    <2>1. pid[h] = 0 /\ UNCHANGED <<daemon, ecgs, loads, pid, undefined>>
      BY <1>6, Zenon DEF Fork
    <2>2. PICK p \in Procs : /\ proc' = [proc EXCEPT ![p] = [kind |-> h, st |-> "alive"]]
                             /\ th' = [th EXCEPT ![t].pid = p]
      BY <1>6, Zenon DEF Fork
    <2>3. IsThread(th[t]) /\ th = [u \in Threads |-> th[u]]
      BY <1>1, Zenon DEF Calm, Records
    <2>4. PICK r : r = [th[t] EXCEPT !.pid = p]
      BY Zenon
    <2>5. /\ r.pc = th[t].pc /\ r.pid = p /\ r.cmd = th[t].cmd /\ r.mdt = th[t].mdt
          /\ r.mgr = th[t].mgr
      BY ONLY <2>3, <2>4 DEF IsThread
    <2>6. th' = [th EXCEPT ![t] = r]
      BY <2>2, <2>4, Zenon
    <2>7. th'[t] = r /\ \A u \in Threads \ {t} : th'[u] = th[u]
      BY ONLY <2>3, <2>6, t \in Threads
    <2>8. Phase(t)' /\ th'[t].pc # Home(t)
      BY <1>1, <2>1, <2>5, <2>7, AfterHelper, Zenon
    <2>9. Children'
      <3>1. proc'[p] = [kind |-> h, st |-> "alive"] /\ \A q \in Procs \ {p} : proc'[q] = proc[q]
        BY <1>1, <2>2 DEF Calm, Records
      <3>2. proc'[p].kind = h
        BY ONLY <3>1
      <3>3. \A u \in Threads : th[u].pid = 0
        BY <1>1, <1>6, Zenon DEF OneInv, Calm, Sole, gone, Fork
      <3> SUFFICES ASSUME NEW q \in Procs, proc'[q].st = "alive"
                   PROVE  /\ proc'[q].kind \in Helpers
                          /\ \/ pid[proc'[q].kind] = q
                             \/ \E u \in Threads : th'[u].pid = q /\ th'[u].pc = proc'[q].kind
        BY <2>1, Zenon DEF Children
      <3>4. CASE q = p
        BY <1>1, <2>5, <2>7, <3>2, <3>4, Zenon
      <3>5. CASE q # p
        <4>1. q # 0
          BY LifecycleAssumption DEF Procs
        <4> QED BY <3>1, <3>3, <3>5, <4>1, Zenon DEF OneInv, Children
      <3> QED BY <3>4, <3>5, Zenon
    <2>10. OneInv'
      BY <1>1, <1>3, <2>1, <2>5, <2>7, <2>8, <2>9, HelperStep, Zenon
    <2>11. Follows
      BY <2>1, Stutters, Zenon
    <2> QED BY <2>10, <2>11, Zenon
  <1>7. CASE StorePid(t, h)
    <2>1. /\ th[t].pid # 0 /\ pid' = [pid EXCEPT ![h] = th[t].pid]
          /\ th' = [th EXCEPT ![t].pid = 0, ![t].pc = AfterLoad(t, h)]
          /\ UNCHANGED <<daemon, ecgs, loads, proc, undefined>>
      BY <1>2, <1>7, Zenon DEF StorePid
    <2>2. IsThread(th[t]) /\ th = [u \in Threads |-> th[u]]
      BY <1>1, Zenon DEF Calm, Records
    <2>3. PICK w : w = AfterLoad(t, h)
      BY Zenon
    <2>4. PICK e : e = [th[t] EXCEPT !.pid = 0]
      BY Zenon
    <2>5. PICK r : r = [e EXCEPT !.pc = w]
      BY Zenon
    <2>6. IsThread(e) /\ e.pid = 0 /\ e.cmd = th[t].cmd /\ e.mdt = th[t].mdt /\ e.mgr = th[t].mgr
      BY ONLY <2>2, <2>4 DEF IsThread
    <2>7. r.pc = w /\ Same(e, r)
      BY <2>5, <2>6, SetPlace, Zenon
    <2>8. th' = [u \in Threads |-> IF u = t THEN r ELSE th[u]]
      <3>1. th' = [th EXCEPT ![t].pid = 0, ![t].pc = w]
        BY <2>1, <2>3, Zenon
      <3> QED BY ONLY <2>2, <2>4, <2>5, <3>1, t \in Threads
    <2>9. th'[t] = r /\ \A u \in Threads \ {t} : th'[u] = th[u]
      BY ONLY <2>8, t \in Threads
    <2>10. Phase(t)' /\ th'[t].pc # Home(t)
      BY <1>1, <2>1, <2>3, <2>6, <2>7, <2>9, AfterHelper, Zenon DEF Same
    <2>11. th'[t].pid = 0
      BY <2>6, <2>7, <2>9, Zenon DEF Same
    <2>12. pid'[h] = th[t].pid /\ \A g \in Helpers \ {h} : pid'[g] = pid[g]
      BY <1>1, <2>1 DEF Calm, Records
    <2>13. pid[h] = 0
      BY <1>1, <2>1, Zenon DEF OneInv, Calm, gone
    <2>14. Children'
      <3> SUFFICES ASSUME NEW q \in Procs, proc[q].st = "alive"
                   PROVE  proc[q].kind \in Helpers /\ pid'[proc[q].kind] = q
        BY <2>1, Zenon DEF Children
      <3>1. q # 0
        BY LifecycleAssumption DEF Procs
      <3>2. /\ proc[q].kind \in Helpers
            /\ \/ pid[proc[q].kind] = q
               \/ \E u \in Threads : th[u].pid = q /\ th[u].pc = proc[q].kind
        BY Zenon DEF OneInv, Children
      <3>3. \A u \in Threads \ {t} : th[u].pid = 0
        BY <1>1, Zenon DEF OneInv, Calm, Sole, gone
      <3>4. CASE pid[proc[q].kind] = q
        BY <2>12, <2>13, <3>1, <3>2, <3>4, Zenon
      <3>5. CASE th[t].pid = q /\ th[t].pc = proc[q].kind
        BY <1>1, <2>12, <3>2, <3>5, Zenon
      <3> QED BY <3>1, <3>2, <3>3, <3>4, <3>5, Zenon
    <2>15. OneInv'
      BY <1>1, <1>3, <2>1, <2>9, <2>10, <2>11, <2>14, HelperStep, Zenon
    <2>16. Follows
      BY <2>1, Stutters, Zenon
    <2> QED BY <2>15, <2>16, Zenon
  <1> QED BY <1>4, <1>5, <1>6, <1>7, Zenon

(* The steps from an initialised MDT to a running one.                     *)
LEMMA OneStarts ==
    ASSUME OneInv, NEW t \in Threads,
           \/ starting(t) \/ init_syscfg(t) \/ activate_all_ecg_devices(t)
           \/ started(t) \/ start_monitors(t)
    PROVE  OneInv' /\ Follows
  <1> USE DEF ecgs, loads, helpers, daemon
  <1>0. PICK w \in {"starting", "syscfg", "activate", "started", "monitors"} : At(t, w)
    BY Zenon DEF starting, init_syscfg, activate_all_ecg_devices, started, start_monitors
  <1>1. /\ Calm(t) /\ th[t].pc = w /\ w \notin Helpers /\ w # "accept" /\ w # "idle"
    <2>1. w # "accept" /\ w # "idle" /\ w # "unloadWait" /\ w \notin Helpers
      BY <1>0, Zenon DEF Helpers
    <2> QED BY <1>0, <2>1, CalmAt, Zenon
  <1>2. /\ th[t].mgr = manager /\ th[t].mdt \in Mdts /\ th[t].cmd = "run" /\ Full /\ manager # 0
        /\ w = "starting" => state \in {"IDLE", "SELECTED"} /\ exers = {}
        /\ w \in {"syscfg", "activate"} => state = "STARTING" /\ exers = {}
        /\ w \in {"started", "monitors"} => state = "STARTING" /\ exers = {current}
    BY <1>1, StartPlaces, Zenon DEF Calm
  <1>3. Live(manager) /\ node[current].shm /\ node[mgr[th[t].mgr].current].shm
    BY <1>1, <1>2, Zenon DEF Calm, Full, Open, current
  <1>4. ASSUME NEW v, Goto(t, v), v # "accept", v # "idle",
               UNCHANGED <<test, htxd_shutdown_flag, ecgs, killed, helpers, undefined, lost>>,
               \/ v \in {"syscfg", "activate"} /\ state' = "STARTING" /\ exers' = {}
               \/ v \in {"started", "hxstats", "running"} /\ state' = "STARTING" /\ exers' = {current}
        PROVE  OneInv'
    <2>1. Full' /\ current' = current
      BY <1>2, <1>4, SameHold, Zenon
    <2>2. th'[t].pc = v /\ Same(th[t], th'[t])
      BY <1>1, <1>4, GotoAt, Zenon DEF Calm
    <2>3. Phase(t)'
      BY <1>2, <1>4, <2>1, <2>2, Zenon DEF Phase, Starts, Same
    <2>4. Types'
      BY <1>1, <1>4, Zenon DEF Calm, Types, MgrTypes, NodeTypes, IsMgr, IsNode
    <2>5. Fine
      BY <1>1, <1>2, <1>3, <1>4, <2>4, Zenon DEF Fine, Freed, Live, Calm
    <2> QED BY <1>0, <1>1, <1>4, <2>3, <2>5, OneGoto, Zenon
  <1>5. CASE starting(t)
    <2>1. /\ state' = "STARTING" /\ Goto(t, "syscfg") /\ w = "starting"
          /\ UNCHANGED <<test, htxd_shutdown_flag, undefined, ecgs, loads, helpers, lost>>
      BY <1>0, <1>1, <1>2, <1>3, <1>5, Zenon DEF starting, At
    <2>2. OneInv'
      BY <1>2, <1>4, <2>1, Zenon
    <2>3. Loaded = node[current].mdt /\ Loaded' = Loaded /\ node[current].mdt \in Mdts
      BY <1>2, <1>3, <2>1, LoadedIs, SameHold, Zenon DEF Full, Open
    <2>4. Life!Advance
      BY <1>2, <2>1, <2>3, LifecycleAssumption, Zenon DEF Life!Advance
    <2> QED BY <2>2, <2>4, Zenon DEF Follows, Life!Next
  <1>6. CASE init_syscfg(t)
    <2>1. /\ w = "syscfg" /\ UNCHANGED <<daemon, ecgs, exers, killed, monitors, helpers, undefined, lost>>
          /\ Goto(t, "activate") \/ (Reply(t, "failed") /\ UNCHANGED syscfg)
      BY <1>0, <1>1, <1>6, Zenon DEF init_syscfg, At
    <2>2. Follows
      BY <2>1, Stutters, Zenon
    <2>3. CASE Goto(t, "activate")
      BY <1>2, <1>4, <2>1, <2>2, <2>3, Zenon
    <2>4. CASE Reply(t, "failed") /\ UNCHANGED syscfg
      <3>1. Failed'
        BY <1>2, <2>1, Kept, Zenon DEF Failed
      <3>2. Fine
        BY <1>1, <2>1, <2>4, StaysFine, Zenon DEF Calm
      <3> QED BY <1>0, <1>1, <2>1, <2>2, <2>4, <3>1, <3>2, OneReply, Zenon DEF Rest
    <2> QED BY <2>1, <2>3, <2>4, Zenon
  <1>7. CASE activate_all_ecg_devices(t)
    <2>1. PICK n : n = mgr[th[t].mgr].current
      BY Zenon
    <2>2. n = current
      BY <1>2, <2>1, Zenon DEF current
    <2>3. /\ w = "activate" /\ UNCHANGED <<daemon, ecgs, killed, syscfg, monitors, helpers, undefined, lost>>
          /\ exers' = exers \cup {n} /\ Goto(t, "started")
      BY <1>0, <1>1, <1>2, <1>3, <1>7, <2>1, Zenon DEF activate_all_ecg_devices, At
    <2>4. exers' = {current}
      <3>1. exers = {}
        BY <1>2, <2>3, Zenon
      <3> QED BY ONLY <2>2, <2>3, <3>1
    <2>5. Follows
      BY <2>3, Stutters, Zenon
    <2> QED BY <1>2, <1>4, <2>3, <2>4, <2>5, Zenon
  <1>8. CASE started(t)
    <2>1. /\ w = "started" /\ UNCHANGED <<daemon, ecgs, loads, helpers, undefined, lost>>
          /\ Goto(t, "hxstats")
      BY <1>0, <1>1, <1>2, <1>3, <1>8, Zenon DEF started, At
    <2>2. Follows
      BY <2>1, Stutters, Zenon
    <2> QED BY <1>2, <1>4, <2>1, <2>2, Zenon
  <1>9. CASE start_monitors(t)
    <2>1. /\ w = "monitors" /\ UNCHANGED <<daemon, ecgs, exers, killed, syscfg, helpers, undefined, lost>>
          /\ Goto(t, "running")
      BY <1>0, <1>1, <1>9, Zenon DEF start_monitors, At
    <2>2. Follows
      BY <2>1, Stutters, Zenon
    <2> QED BY <1>2, <1>4, <2>1, <2>2, Zenon
  <1> QED BY <1>5, <1>6, <1>7, <1>8, <1>9, Zenon

(* The MDT runs.                                                           *)
LEMMA OneRunning ==
    ASSUME OneInv, NEW t \in Threads, running(t)
    PROVE  OneInv' /\ Follows
  <1> USE DEF ecgs, loads, helpers, daemon
  <1>1. At(t, "running") /\ UNCHANGED <<loads, helpers, lost>>
    BY Zenon DEF running
  <1>2. Calm(t) /\ th[t].pc = "running"
    BY <1>1, CalmAt, Zenon
  <1>3. /\ th[t].mgr = manager /\ th[t].mdt \in Mdts /\ manager # 0
        /\ state = "STARTING" /\ Full /\ exers = {current}
    BY <1>2, StartPlaces, Zenon DEF Calm
  <1>4. Live(manager) /\ manager \in Mgrs /\ Types
    BY <1>2, <1>3, Zenon DEF Calm, Types
  <1>5. /\ mgr' = [mgr EXCEPT ![manager].running = th[t].mdt]
        /\ state' = "RUNNING" /\ Reply(t, "activated")
        /\ UNCHANGED <<htxd_shutdown_flag, manager, node, next_key_offset, ipc, undefined>>
    BY <1>3, <1>4, Zenon DEF running
  <1>6. /\ MgrTypes' /\ mgr'[manager].st = mgr[manager].st /\ mgr'[manager].list = mgr[manager].list
        /\ mgr'[manager].len = mgr[manager].len /\ mgr'[manager].current = mgr[manager].current
    BY <1>4, <1>5, Renamed, Zenon DEF Types
  <1>7. current' = current /\ Runs'
    BY <1>1, <1>3, <1>5, <1>6, Zenon DEF Runs, Full, Open, current
  <1>8. Fine
    BY <1>1, <1>2, <1>3, <1>4, <1>5, <1>6, Zenon DEF Types, Fine, Freed, Calm, NodeTypes, IsNode, Live
  <1>9. OneInv'
    BY <1>1, <1>5, <1>7, <1>8, OneReply, Zenon DEF Helpers, Rest
  <1>10. Loaded = node[current].mdt /\ Loaded' = node[current].mdt /\ node[current].mdt \in Mdts
    <2>1. Live(manager)' /\ mgr'[manager'].list = <<current>> /\ mgr[manager].list = <<current>>
      BY <1>3, <1>4, <1>5, <1>6, Zenon DEF Live, Full
    <2> QED BY <1>3, <1>4, <1>5, <2>1, LoadedIs, Zenon DEF Full, Open
  <1>11. Life!Advance
    BY <1>3, <1>5, <1>10, LifecycleAssumption, Zenon DEF Life!Advance
  <1> QED BY <1>9, <1>11, Zenon DEF Follows, Life!Next

(* A list of one has no other node.                                        *)
LEMMA OnlyNode ==
    ASSUME NEW m, NEW c, mgr[m].list = <<c>>, NEW x
    PROVE  NodeOf(m, x) \in {0, c}
  <1> DEFINE S == {i \in 1..Len(mgr[m].list) : node[mgr[m].list[i]].mdt = x}
  <1>1. \A i \in S : i \in 1..Len(mgr[m].list)
    BY Zenon
  <1>2. Len(mgr[m].list) = 1 /\ mgr[m].list[1] = c
    OBVIOUS
  <1>3. NodeOf(m, x) = IF S = {} THEN 0 ELSE mgr[m].list[CHOOSE i \in S : \A j \in S : j <= i]
    BY Zenon DEF NodeOf
  <1> HIDE DEF S
  <1>4. CASE S = {}
    BY <1>3, <1>4, Zenon
  <1>5. CASE S # {}
    <2>1. \E i \in S : \A j \in S : j <= i
      BY ONLY <1>1, <1>2, <1>5
    <2>2. PICK b : b = CHOOSE i \in S : \A j \in S : j <= i
      BY Zenon
    <2>3. b \in S
      BY <2>1, <2>2, Zenon
    <2>4. b = 1
      BY ONLY <1>1, <1>2, <2>3
    <2>5. mgr[m].list[b] = c
      BY ONLY <1>2, <2>4, Zenon
    <2> QED BY <1>3, <1>5, <2>2, <2>5, Zenon
  <1> QED BY <1>4, <1>5, Zenon

(* shutdown finds the loaded MDT, or refuses.                              *)
LEMMA OneShutdown ==
    ASSUME OneInv, NEW t \in Threads, shutdown_mdt(t)
    PROVE  OneInv' /\ Follows
  <1> USE DEF ecgs, loads, helpers, daemon
  <1>1. At(t, "shutdown") /\ UNCHANGED <<daemon, ecgs, loads, helpers, lost>>
    BY Zenon DEF shutdown_mdt
  <1>2. Calm(t) /\ th[t].pc = "shutdown"
    BY <1>1, CalmAt, Zenon
  <1>3. t # Main /\ (Chosen \/ Runs) /\ (Chosen' \/ Runs')
    BY <1>1, <1>2, BeginPlaces, Kept, Zenon DEF Calm
  <1>4. /\ mgr[manager].list = <<current>> /\ manager # 0 /\ current \in Nodes /\ Live(manager)
        /\ current' = current
    BY <1>1, <1>2, <1>3, SameHold, Zenon DEF Chosen, Runs, Full, Open, Calm
  <1>5. Fine /\ Follows
    BY <1>1, <1>2, StaysFine, Stutters, Zenon DEF Calm
  <1>6. ASSUME NEW a, Reply(t, a), UNCHANGED undefined
        PROVE  OneInv'
    BY <1>1, <1>3, <1>5, <1>6, OneReply, Zenon DEF Helpers, Rest
  <1>7. ASSUME SetsNode(t, "detach", current), UNCHANGED undefined
        PROVE  OneInv'
    <2>1. PICK r : Becomes(t, r) /\ r.pc = "detach" /\ r.node = current /\ r.pid = th[t].pid
      <3>1. Records
        BY <1>2, Zenon DEF Calm
      <3> QED BY ONLY <1>7, <3>1, t \in Threads, NodeIs
    <2>2. th'[t] = r /\ th[t].pid = 0
      BY <1>1, <1>2, <2>1, OnlyOne, NoPid, Zenon DEF Calm, OneInv, Helpers
    <2>3. Phase(t)'
      BY <1>3, <1>4, <2>1, <2>2, Zenon DEF Phase, Unloads
    <2>4. Sound(t, r)
      BY <1>5, <2>1, <2>3, Zenon DEF Sound, Fine, Home
    <2> QED BY <1>1, <1>2, <1>7, <2>1, <2>2, <2>4, OneStep, Zenon DEF Calm
  <1>8. PICK n : n = NodeOf(manager, NameToStop(t))
    BY Zenon
  <1>9. n \in {0, current} /\ current # 0
    <2>1. n \in {0, current}
      BY <1>4, <1>8, OnlyNode, Zenon
    <2>2. current # 0
      BY <1>4, LifecycleAssumption DEF Nodes
    <2> QED BY <2>1, <2>2
  <1>10. <<current>> # <<>>
    OBVIOUS
  <1>11. \/ \E a : Reply(t, a) /\ UNCHANGED undefined
         \/ SetsNode(t, "detach", n) /\ n # 0 /\ UNCHANGED undefined
    <2>1. /\ Live(manager) /\ mgr[manager].list # <<>>
      BY <1>4, <1>10, Zenon
    <2>2. \/ \E a : Reply(t, a) /\ UNCHANGED undefined
          \/ ~(Live(manager) /\ (th[t].mdt # None \/ state = "SELECTED" \/ mgr[manager].list # <<>>))
          \/ (IF n = 0 THEN Reply(t, "inactive") ELSE SetsNode(t, "detach", n)) /\ UNCHANGED undefined
      BY ONLY <1>8, shutdown_mdt(t), Zenon DEF shutdown_mdt, SetsNode
    <2> QED BY ONLY <2>1, <2>2, Zenon
  <1> QED BY <1>5, <1>6, <1>7, <1>9, <1>11, Zenon

(* The MDT is unlisted.                                                    *)
LEMMA OneDetach ==
    ASSUME OneInv, NEW t \in Threads, detach(t)
    PROVE  OneInv' /\ Follows
  <1> USE DEF ecgs, loads, helpers, daemon
  <1>1. At(t, "detach") /\ UNCHANGED <<loads, helpers, lost>>
    BY Zenon DEF detach
  <1>2. Calm(t) /\ th[t].pc = "detach"
    BY <1>1, CalmAt, Zenon
  <1>3. t # Main /\ th[t].node = current /\ (Chosen \/ Runs)
    BY <1>2, UnloadPlaces, Zenon DEF Calm
  <1>4. /\ manager # 0 /\ Live(manager) /\ manager \in Mgrs /\ Types /\ mgr[manager].len = 1
        /\ mgr[manager].list = <<current>> /\ Open(current) /\ exers \subseteq {current}
    BY <1>2, <1>3, Zenon DEF Chosen, Runs, Full, Calm, Types
  <1>5. Removable(manager, th[t].node)
    BY <1>4 DEF Removable
  <1>6. /\ state' = "SHUTTING_DOWN" /\ remove_ecg_info_node(manager, th[t].node) /\ Goto(t, "unload")
        /\ UNCHANGED <<test, htxd_shutdown_flag, manager, node, next_key_offset, ipc, undefined>>
    BY <1>5, Zenon DEF detach
  <1>7. /\ MgrTypes' /\ mgr'[manager].st = mgr[manager].st /\ mgr'[manager].list = <<>>
        /\ mgr'[manager].len = 0 /\ mgr'[manager].current = current
    BY <1>4, <1>6, Removed, Zenon DEF Types, current
  <1>8. current' = current /\ Unlisted' /\ Open(current)'
    <2>1. current' = current
      BY <1>6, <1>7, Zenon DEF current
    <2> QED BY <1>4, <1>6, <1>7, <2>1, Zenon DEF Unlisted, Open
  <1>9. th'[t].pc = "unload" /\ Same(th[t], th'[t])
    BY <1>1, <1>2, <1>6, GotoAt, Zenon DEF Calm
  <1>10. Phase(t)'
    BY <1>1, <1>3, <1>4, <1>6, <1>8, <1>9, Zenon DEF Phase, Unloads, Same
  <1>11. Fine
    BY <1>1, <1>2, <1>4, <1>6, <1>7, Zenon DEF Types, Fine, Freed, Calm, NodeTypes, IsNode, Live
  <1>12. OneInv'
    BY <1>1, <1>6, <1>10, <1>11, OneGoto, Zenon DEF Helpers
  <1>13. Loaded = node[current].mdt /\ node[current].mdt # None /\ Loaded' = None
    BY <1>4, <1>6, <1>7, LoadedIs, LoadedNone, LifecycleAssumption, Zenon DEF Open
  <1>14. Life!Unload
    BY <1>3, <1>6, <1>13, Zenon DEF Life!Unload, Chosen, Runs
  <1> QED BY <1>12, <1>14, Zenon DEF Follows, Life!Next

(* The exercisers are signalled, and waited for.                           *)
LEMMA OneUnload ==
    ASSUME OneInv, NEW t \in Threads, unload_exercisers(t)
    PROVE  OneInv' /\ Follows
  <1> USE DEF ecgs, loads, helpers, daemon
  <1>1. At(t, "unload") /\ UNCHANGED <<daemon, ecgs, helpers, lost>>
    BY Zenon DEF unload_exercisers
  <1>2. Calm(t) /\ th[t].pc = "unload"
    BY <1>1, CalmAt, Zenon
  <1>3. /\ th[t].node = current /\ Unlisted /\ Open(current) /\ exers \subseteq {current}
        /\ IF t = Main THEN state \in Held ELSE state = "SHUTTING_DOWN"
    BY <1>2, UnloadPlaces, Zenon DEF Calm
  <1>4. /\ killed' = killed \cup ({th[t].node} \cap exers) /\ Goto(t, "unloadWait")
        /\ UNCHANGED <<exers, syscfg, monitors, undefined>>
    BY <1>3, Zenon DEF unload_exercisers, Open
  <1>5. killed' \subseteq exers'
    BY <1>2, <1>4, Zenon DEF Calm
  <1>6. Becomes(t, th'[t]) /\ th'[t].pc = "unloadWait" /\ Same(th[t], th'[t])
    BY <1>1, <1>2, <1>4, GotoAt, Zenon DEF Calm
  <1>7. PICK r : r = th'[t]
    BY Zenon
  <1>8. th[t].pid = 0
    BY <1>2, NoPid, Zenon DEF OneInv, Helpers
  <1>9. Becomes(t, r) /\ r.pc = "unloadWait" /\ r.pid = 0 /\ r.pc # Home(t)
    BY <1>6, <1>7, <1>8, Zenon DEF Same, Home
  <1>10. Unlisted' /\ current' = current /\ Open(current)'
    <2>1. Unlisted' /\ current' = current
      BY <1>1, <1>3, SameHold, Zenon
    <2> QED BY <1>1, <1>3, <2>1, Zenon DEF Open
  <1>11. Phase(t)'
    BY <1>1, <1>3, <1>4, <1>6, <1>10, Zenon DEF Phase, Unloads, Same
  <1>12. Types' /\ Freed' /\ (manager' # 0 => mgr'[manager'].st = "live")
    <2>1. Types'
      BY <1>1, <1>2, Zenon DEF Calm, Types, MgrTypes, NodeTypes, IsMgr, IsNode
    <2> QED BY <1>1, <1>2, <1>4, <2>1, Zenon DEF Calm, Freed, Live
  <1>13. Sound(t, r)
    BY <1>5, <1>9, <1>11, <1>12, Zenon DEF Sound
  <1>14. OneInv'
    BY <1>1, <1>2, <1>4, <1>8, <1>9, <1>13, OneStep, Zenon DEF Calm
  <1>15. Follows
    BY <1>1, Stutters, Zenon
  <1> QED BY <1>14, <1>15, Zenon

(* The exercisers have ended: a client's command idles the daemon.         *)
LEMMA OneUnloaded ==
    ASSUME OneInv, NEW t \in Threads, unloaded(t)
    PROVE  OneInv' /\ Follows
  <1> USE DEF ecgs, loads, helpers, daemon
  <1>1. At(t, "unloadWait") /\ th[t].node \notin exers /\ UNCHANGED <<daemon, ecgs, loads, helpers, lost>>
    BY Zenon DEF unloaded
  <1>2. /\ Phase(t) /\ Freed /\ killed \subseteq exers /\ (manager # 0 => Live(manager))
        /\ Types /\ Records /\ th[t].pc = "unloadWait"
    BY <1>1, Alone, Zenon
  <1>3. /\ th[t].node = current /\ Unlisted /\ Open(current) /\ exers \subseteq {current}
        /\ IF t = Main THEN state \in Held ELSE state = "SHUTTING_DOWN"
    BY <1>2, UnloadPlaces, Zenon
  <1>4. exers = {} /\ killed = {}
    BY <1>1, <1>2, <1>3, Zenon
  <1>5. PICK v : v = IF t # Main /\ mgr[manager].len = 0 THEN "idle1" ELSE "cleanup"
    BY Zenon
  <1>6. v = IF t = Main THEN "cleanup" ELSE "idle1"
    BY <1>3, <1>5, Zenon DEF Unlisted
  <1>7. Goto(t, v) /\ UNCHANGED undefined
    <2>1. manager # 0
      BY <1>3, Zenon DEF Unlisted
    <2> QED BY ONLY <1>5, <2>1, unloaded(t), Zenon DEF unloaded
  <1>8. th'[t].pc = v /\ Same(th[t], th'[t])
    BY <1>1, <1>2, <1>7, GotoAt, Zenon
  <1>9. Unlisted' /\ current' = current /\ Open(current)' /\ Open(th[t].node)' /\ th'[t].node = current
    <2>1. Unlisted' /\ current' = current
      BY <1>1, <1>3, SameHold, Zenon
    <2>2. th'[t].node = current
      BY <1>3, <1>8, Zenon DEF Same
    <2> QED BY <1>1, <1>3, <2>1, <2>2, Zenon DEF Open
  <1>10. Phase(t)'
    <2>1. CASE t = Main
      BY <1>1, <1>3, <1>4, <1>6, <1>8, <1>9, <2>1, Zenon DEF Phase, Unloads
    <2>2. CASE t # Main
      BY <1>1, <1>3, <1>4, <1>6, <1>8, <1>9, <2>2, Zenon DEF Phase, Idles
    <2> QED BY <2>1, <2>2, Zenon
  <1>11. Fine /\ Follows
    BY <1>1, <1>2, <1>4, StaysFine, Stutters, Zenon
  <1>12. v # "accept" /\ v # "idle"
    BY <1>6, Zenon
  <1> QED BY <1>1, <1>7, <1>10, <1>11, <1>12, OneGoto, Zenon DEF Helpers

(* The IPC of the unlisted MDT is removed.                                 *)
LEMMA OneCleanup ==
    ASSUME OneInv, NEW t \in Threads, cleanup_ecg_ipc(t)
    PROVE  OneInv' /\ Follows
  <1> USE DEF ecgs, loads, helpers, daemon
  <1>1. /\ At(t, "cleanup")
        /\ UNCHANGED <<daemon, manager, mgr, next_key_offset, loads, helpers, lost, undefined>>
    BY Zenon DEF cleanup_ecg_ipc
  <1>2. Calm(t) /\ th[t].pc = "cleanup"
    BY <1>1, CalmAt, Zenon
  <1>3. IF t = Main THEN /\ th[t].node = current /\ Unlisted /\ Open(current)
                         /\ exers = {} /\ state \in Held
        ELSE manager = 0 /\ test = "HALTED" /\ state = "IDLE" /\ Open(th[t].node)
    BY <1>2, UnloadPlaces, Zenon DEF Calm
  <1>4. PICK n : n = th[t].node
    BY Zenon
  <1>5. Open(n) /\ n \in Nodes
    BY <1>3, <1>4, Zenon DEF Open
  <1>6. /\ ipc' = [k \in Keys |-> IF ipc[k] = node[n].id THEN 0 ELSE ipc[k]]
        /\ node' = [node EXCEPT ![n].shm = FALSE]
    BY <1>4, Zenon DEF cleanup_ecg_ipc
  <1>7. NodeTypes' /\ ipc' = [k \in Keys |-> ipc'[k]] /\ NoIpc'
    BY <1>2, <1>5, <1>6, ClosedNode, Zenon DEF Calm, Types
  <1>8. Fine
    BY <1>1, <1>2, <1>7, Zenon DEF Calm, Types, MgrTypes, IsMgr, Fine, Freed, Live
  <1>9. Loaded = None /\ Loaded' = None
    BY <1>1, <1>3, LoadedNone, Zenon DEF Unlisted
  <1>10. Follows
    BY <1>1, <1>9, Zenon DEF Follows
  <1>11. CASE t = Main
    <2>1. Goto(t, "all")
      BY <1>11, Zenon DEF cleanup_ecg_ipc
    <2>2. th'[t].pc = "all"
      BY <1>1, <1>2, <2>1, GotoAt, Zenon DEF Calm
    <2>3. Fresh'
      BY <1>1, <1>3, <1>7, <1>11, Zenon DEF Fresh, Unlisted
    <2>4. Phase(t)'
      BY <1>1, <1>3, <1>11, <2>2, <2>3, Zenon DEF Phase, Unloads
    <2> QED BY <1>1, <1>8, <1>10, <2>1, <2>4, OneGoto, Zenon DEF Helpers
  <1>12. CASE t # Main
    <2>1. Reply(t, "shutdown")
      BY <1>12, Zenon DEF cleanup_ecg_ipc
    <2>2. Idle'
      BY <1>1, <1>3, <1>7, <1>12, Zenon DEF Idle, Nothing
    <2> QED BY <1>1, <1>8, <1>10, <2>1, <2>2, OneReply, Zenon DEF Helpers, Rest
  <1> QED BY <1>11, <1>12, Zenon

(* htxd_idle_daemon: monitors and helpers are told to end.                 *)
LEMMA OneIdleDaemon ==
    ASSUME OneInv, NEW t \in Threads, idle_daemon(t)
    PROVE  OneInv' /\ Follows
  <1> USE DEF ecgs, daemon
  <1>1. At(t, "idle1") /\ UNCHANGED <<daemon, ecgs>>
    BY Zenon DEF idle_daemon
  <1>2. Calm(t) /\ th[t].pc = "idle1"
    BY <1>1, CalmAt, Zenon
  <1>3. /\ Unlisted /\ exers = {}
        /\ IF t = Main THEN state \in Held ELSE state = "SHUTTING_DOWN" /\ Open(th[t].node)
    BY <1>2, IdlePlaces, Zenon DEF Calm
  <1>4. Live(manager)
    BY <1>2, <1>3, Zenon DEF Unlisted, Calm
  <1>5. /\ monitors' = FALSE /\ Goto(t, "waitStats") /\ lost \subseteq lost'
        /\ UNCHANGED <<exers, killed, syscfg, pid, proc, undefined>>
    BY <1>4, Zenon DEF idle_daemon
  <1>6. th'[t].pc = "waitStats" /\ Same(th[t], th'[t])
    BY <1>1, <1>2, <1>5, GotoAt, Zenon DEF Calm
  <1>7. Unlisted'
    BY <1>1, <1>3, SameHold, Zenon
  <1>8. Phase(t)'
    <2>1. Open(th[t].node) => Open(th[t].node)'
      BY <1>1, <1>6, Zenon DEF Open, Same
    <2>2. (IF t = Main THEN state \in Held ELSE state = "SHUTTING_DOWN" /\ Open(th[t].node))'
      BY <1>1, <1>3, <2>1, Zenon
    <2> QED BY <1>3, <1>5, <1>6, <1>7, <2>2, Zenon DEF Phase, Idles
  <1>9. Fine
    BY <1>1, <1>2, <1>4, <1>5, Zenon DEF Types, MgrTypes, NodeTypes, IsMgr, IsNode, Fine, Freed, Calm, Live
  <1>10. Follows
    BY <1>1, Stutters, Zenon
  <1> QED BY <1>1, <1>5, <1>8, <1>9, <1>10, OneGoto, Zenon DEF Helpers

(* Each helper is waited for until its pid is forgotten.                   *)
LEMMA OneWait ==
    ASSUME OneInv, NEW t \in Threads, idle_waits(t)
    PROVE  OneInv' /\ Follows
  <1> USE DEF ecgs, daemon, loads, helpers
  <1>1. PICK w, h, v :
          /\ WaitFor(t, w, h, v)
          /\ \/ w = "waitStats" /\ h = "hxstats" /\ v = "waitMsg"
             \/ w = "waitMsg" /\ h = "hxsmsg" /\ v = "waitEq"
             \/ w = "waitEq" /\ h = "equaliser" /\ v = "idle2"
    BY Zenon DEF idle_waits
  <1>2. /\ At(t, w) /\ pid[h] = 0 /\ Goto(t, v)
        /\ UNCHANGED <<daemon, ecgs, loads, helpers, mq, lost, undefined>>
    BY <1>1, Zenon DEF WaitFor
  <1>3. w # "accept" /\ w # "idle" /\ w # "unloadWait" /\ w \notin Helpers /\ v # "accept" /\ v # "idle"
    BY <1>1, Zenon DEF Helpers
  <1>4. Calm(t) /\ th[t].pc = w
    BY <1>2, <1>3, CalmAt, Zenon
  <1>5. th[t].pc \in {"waitStats", "waitMsg", "waitEq"}
    BY <1>1, <1>4, Zenon
  <1>6. /\ Unlisted /\ exers = {}
        /\ IF t = Main THEN state \in Held ELSE state = "SHUTTING_DOWN" /\ Open(th[t].node)
        /\ ~monitors
        /\ th[t].pc \in {"waitMsg", "waitEq"} => pid["hxstats"] = 0
        /\ th[t].pc = "waitEq" => pid["hxsmsg"] = 0
    BY <1>4, <1>5, IdlePlaces, Zenon DEF Calm
  <1>7. th'[t].pc = v /\ Same(th[t], th'[t])
    BY <1>2, <1>4, GotoAt, Zenon DEF Calm
  <1>8. (IF t = Main THEN state \in Held ELSE state = "SHUTTING_DOWN" /\ Open(th[t].node))'
    <2>1. Open(th[t].node) => Open(th[t].node)'
      BY <1>2, <1>7, Zenon DEF Open, Same
    <2> QED BY <1>2, <1>6, <2>1, Zenon
  <1>9. Unlisted'
    BY <1>2, <1>6, SameHold, Zenon
  <1>10. Phase(t)'
    <2>1. v \in {"waitMsg", "waitEq", "idle2"}
      BY <1>1, Zenon
    <2>2. /\ (v \in {"waitMsg", "waitEq", "idle2"} => pid["hxstats"] = 0)'
          /\ (v \in {"waitEq", "idle2"} => pid["hxsmsg"] = 0)'
          /\ (v = "idle2" => pid["equaliser"] = 0)'
      BY <1>1, <1>2, <1>4, <1>6, Zenon
    <2>3. Idles(t)'
      BY <1>2, <1>6, <1>7, <1>8, <1>9, <2>1, <2>2, Zenon DEF Idles
    <2> QED BY <2>3, Zenon DEF Phase
  <1>11. Fine /\ Follows
    BY <1>2, <1>4, StaysFine, Stutters, Zenon DEF Calm
  <1> QED BY <1>2, <1>3, <1>10, <1>11, OneGoto, Zenon

(* The manager is freed and the daemon says that it is idle.               *)
LEMMA OneFree ==
    ASSUME OneInv, NEW t \in Threads, cleanup_system_shm(t)
    PROVE  OneInv' /\ Follows
  <1> USE DEF helpers
  <1>1. At(t, "idle2") /\ UNCHANGED <<helpers, lost>>
    BY Zenon DEF cleanup_system_shm
  <1>2. Calm(t) /\ th[t].pc = "idle2"
    BY <1>1, CalmAt, Zenon
  <1>3. /\ Unlisted /\ exers = {} /\ ~monitors
        /\ IF t = Main THEN state \in Held ELSE state = "SHUTTING_DOWN" /\ Open(th[t].node)
        /\ pid["hxstats"] = 0 /\ pid["hxsmsg"] = 0 /\ pid["equaliser"] = 0
    BY <1>2, IdlePlaces, Zenon DEF Calm
  <1>4. Live(manager) /\ manager \in Mgrs
    BY <1>2, <1>3, Zenon DEF Unlisted, Calm, Types
  <1>5. /\ syscfg' = FALSE /\ mgr' = [mgr EXCEPT ![manager].st = "freed"]
        /\ manager' = 0 /\ state' = "IDLE" /\ Goto(t, "idle3")
        /\ UNCHANGED <<test, htxd_shutdown_flag, node, next_key_offset, ipc, exers, killed,
                       monitors, undefined>>
    BY <1>4, Zenon DEF cleanup_system_shm
  <1>6. th'[t].pc = "idle3" /\ Same(th[t], th'[t])
    BY <1>1, <1>2, <1>5, GotoAt, Zenon DEF Calm
  <1>7. Phase(t)'
    <2>1. Open(th[t].node) => Open(th[t].node)'
      BY <1>5, <1>6, Zenon DEF Open, Same
    <2> QED BY <1>3, <1>5, <1>6, <2>1, Zenon DEF Phase, Idles
  <1>8. MgrTypes'
    BY <1>2, <1>4, <1>5, FreedManager, Zenon DEF Calm, Types
  <1>9. Fine
    <2>1. Types'
      BY <1>2, <1>5, <1>8, Zenon DEF Calm, Types, NodeTypes, IsNode
    <2>2. Freed'
      BY <1>1, <1>3, <1>5, Zenon DEF Freed, Helpers
    <2> QED BY <1>2, <1>5, <2>1, <2>2, Zenon DEF Fine, Calm
  <1>10. Loaded = None /\ Loaded' = None
    BY <1>3, <1>5, LoadedNone, Zenon DEF Unlisted
  <1>11. Life!Idle
    BY <1>3, <1>5, <1>10, Zenon DEF Life!Idle, Held
  <1>12. Follows
    BY <1>11, Zenon DEF Follows, Life!Next
  <1> QED BY <1>1, <1>5, <1>7, <1>9, <1>12, OneGoto, Zenon DEF Helpers

(* The test is halted; the daemon ends, or the IPC is left to remove.      *)
LEMMA OneIdle ==
    ASSUME OneInv, NEW t \in Threads, idle(t)
    PROVE  OneInv' /\ Follows
  <1> USE DEF ecgs, loads, helpers
  <1>1. PICK v : v = IF t = Main THEN "exited" ELSE "cleanup"
    BY Zenon
  <1>2. /\ At(t, "idle3") /\ test' = "HALTED" /\ Goto(t, v)
        /\ UNCHANGED <<state, htxd_shutdown_flag, ecgs, loads, helpers, lost, undefined>>
    BY <1>1, Zenon DEF idle
  <1>3. Calm(t) /\ th[t].pc = "idle3"
    BY <1>2, CalmAt, Zenon
  <1>4. manager = 0 /\ state = "IDLE" /\ (t # Main => Open(th[t].node))
    BY <1>3, IdlePlaces, Zenon DEF Calm
  <1>5. th'[t].pc = v /\ Same(th[t], th'[t])
    BY <1>2, <1>3, GotoAt, Zenon DEF Calm
  <1>6. Phase(t)'
    <2>1. Open(th[t].node) => Open(th[t].node)'
      BY <1>2, <1>5, Zenon DEF Open, Same
    <2> QED BY <1>1, <1>2, <1>4, <1>5, <2>1, Zenon DEF Phase, Unloads, Idles
  <1>7. Fine /\ Follows
    BY <1>2, <1>3, StaysFine, Stutters, Zenon DEF Calm
  <1>8. v # "accept" /\ v # "idle"
    BY <1>1, Zenon
  <1> QED BY <1>2, <1>6, <1>7, <1>8, OneGoto, Zenon DEF Helpers

(* While nobody works the daemon is between two commands.                  *)
Resting ==
    /\ Rest /\ Freed /\ killed = {} /\ Types /\ Records
    /\ manager # 0 => Live(manager)
    /\ \A t \in Threads : th[t].pid = 0 /\ ~Works(t)

(* With every thread at rest so is the daemon.                             *)
LEMMA AtRest ==
    ASSUME OneInv, ~gone, \A t \in Threads : ~Works(t)
    PROVE  Resting
  <1>1. th[Main].pc # "exited"
    BY Zenon DEF gone
  <1>2. \A t \in Threads : th[t].pc # "unloadWait"
    BY Zenon DEF Works, Home
  <1> QED BY <1>1, <1>2, Zenon DEF OneInv, PidInv, Resting, Signalled, Live

(* The masks of option_list.                                               *)
LEMMA Masks ==
    /\ command_state("createmdt") = {"IDLE"} /\ command_state("select") = {"IDLE"}
    /\ command_state("run") = {"IDLE", "SELECTED"}
    /\ command_state("shutdown") = {"SELECTED", "RUNNING"}
  BY DEF command_state

(* A command of the only client begins while nobody works.                 *)
LEMMA OneCommand ==
    ASSUME OneClient, OneInv, NEW s \in Sessions, NEW c \in Cmds, NEW m \in Mdts \cup {None},
           process_command(s, c, m)
    PROVE  OneInv' /\ Follows
  <1> USE DEF ecgs, loads, helpers, daemon
  <1>1. /\ th[Main].pc = "accept" /\ th[s].pc = "idle" /\ ~gone /\ s \in Threads
        /\ state \in command_state(c)
        /\ (m = None) => (c \in {"shutdown", "createmdt"})
        /\ SetsCommand(s, c, m)
        /\ UNCHANGED <<daemon, ecgs, loads, helpers, mq, lost, undefined>>
    BY Zenon DEF process_command, At, Issued, Threads, SetsCommand
  <1>2. ~htxd_shutdown_flag /\ s # Main
    BY LifecycleAssumption, Zenon DEF process_command, OneClient
  <1>3. \A t \in Threads : ~Works(t)
    BY <1>1, Zenon DEF OneClient, Threads, Works, Home
  <1>4. Resting
    BY <1>1, <1>3, AtRest, Zenon
  <1>5. PICK r : Becomes(s, r) /\ r.pc = c /\ r.cmd = c /\ r.mdt = m /\ r.pid = 0
    <2>1. Records
      BY <1>4, Zenon DEF Resting
    <2> QED BY ONLY <1>1, <2>1, CommandIs
  <1>6. th'[s] = r
    BY <1>1, <1>4, <1>5, OnlyOne, Zenon DEF Resting
  <1>7. c \in {"createmdt", "select", "run", "shutdown"}
    BY LifecycleAssumption, Zenon
  <1>8. Begins(s)'
    <2>1. CASE c = "createmdt"
      <3>1. Idle'
        BY <1>1, <1>4, <2>1, Masks, Kept, Zenon DEF Resting, Rest, Chosen, Failed, Runs
      <3> QED BY <1>5, <1>6, <2>1, <3>1, Zenon DEF Begins
    <2>2. CASE c = "select"
      <3>1. Idle'
        BY <1>1, <1>4, <2>2, Masks, Kept, Zenon DEF Resting, Rest, Chosen, Failed, Runs
      <3>2. m \in Mdts
        BY <1>1, <2>2, Zenon
      <3> QED BY <1>5, <1>6, <2>2, <3>1, <3>2, Zenon DEF Begins
    <2>3. CASE c = "run"
      <3>1. Idle' \/ Chosen'
        BY <1>1, <1>4, <2>3, Masks, Kept, Zenon DEF Resting, Rest, Failed, Runs
      <3>2. m \in Mdts
        BY <1>1, <2>3, Zenon
      <3> QED BY <1>5, <1>6, <2>3, <3>1, <3>2, Zenon DEF Begins
    <2>4. CASE c = "shutdown"
      <3>1. Chosen' \/ Runs'
        BY <1>1, <1>4, <2>4, Masks, Kept, Zenon DEF Resting, Rest, Failed, Idle
      <3> QED BY <1>2, <1>5, <1>6, <2>4, <3>1, Zenon DEF Begins
    <2> QED BY <1>7, <2>1, <2>2, <2>3, <2>4, Zenon
  <1>9. Fine /\ Follows
    BY <1>1, <1>4, StaysFine, Stutters, Zenon DEF Resting
  <1>10. r.pc # Home(s)
    BY <1>2, <1>5, <1>7, Zenon DEF Home
  <1>11. Sound(s, r)
    BY <1>8, <1>9, <1>10, Zenon DEF Sound, Fine, Phase
  <1> QED BY <1>1, <1>2, <1>4, <1>5, <1>9, <1>11, OneStep, Zenon DEF Resting, Sole

(* The main thread accepts commands, or first runs the MDT of autostart.   *)
LEMMA OneAutostart ==
    ASSUME OneInv, autostart
    PROVE  OneInv' /\ Follows
  <1> USE DEF ecgs, loads, helpers, daemon
  <1>1. /\ At(Main, "boot") /\ Main \in Threads
        /\ UNCHANGED <<daemon, ecgs, loads, helpers, mq, lost, undefined>>
    BY Zenon DEF autostart, Threads
  <1>2. Calm(Main) /\ th[Main].pc = "boot" /\ th[Main].pid = 0
    BY <1>1, CalmAt, AtPlace, Zenon DEF OneInv, Helpers
  <1>3. Idle /\ Idle'
    BY <1>1, <1>2, BeginPlaces, Kept, Zenon DEF Calm
  <1>4. Fine /\ Follows
    BY <1>1, <1>2, StaysFine, Stutters, Zenon DEF Calm
  <1>5. ASSUME NEW r, Becomes(Main, r), r.pid = 0, r.pc = Home(Main) \/ Phase(Main)'
        PROVE  OneInv'
    <2>1. Sound(Main, r)
      BY <1>3, <1>4, <1>5, Zenon DEF Sound, Fine, Rest
    <2> QED BY <1>1, <1>2, <1>5, <2>1, OneStep, Zenon DEF Calm
  <1>6. CASE Goto(Main, "accept")
    <2>1. Becomes(Main, th'[Main]) /\ th'[Main].pc = "accept" /\ Same(th[Main], th'[Main])
      BY <1>1, <1>2, <1>6, GotoAt, Zenon DEF Calm
    <2>2. PICK r : r = th'[Main]
      BY Zenon
    <2>3. Becomes(Main, r) /\ r.pid = 0 /\ r.pc = Home(Main)
      BY <1>2, <2>1, <2>2, Zenon DEF Same, Home
    <2> QED BY <1>4, <1>5, <2>3, Zenon
  <1>7. ASSUME NEW m \in Mdts,
               th' = [th EXCEPT ![Main].pc = "run", ![Main].cmd = "run", ![Main].mdt = m]
        PROVE  OneInv'
    <2>1. PICK r : Becomes(Main, r) /\ r.pc = "run" /\ r.cmd = "run" /\ r.mdt = m /\ r.pid = th[Main].pid
      BY <1>1, <1>2, <1>7, AutostartIs, Zenon DEF Calm
    <2>2. th'[Main] = r
      BY <1>1, <1>2, <2>1, OnlyOne, Zenon DEF Calm
    <2>3. Phase(Main)'
      BY <1>3, <1>7, <2>1, <2>2, Zenon DEF Phase, Begins
    <2> QED BY <1>2, <1>5, <2>1, <2>3, Zenon
  <1> QED BY <1>4, <1>6, <1>7, Zenon DEF autostart

(* The accept loop ends between two commands.                              *)
LEMMA OneLeave ==
    ASSUME OneInv, leave_loop
    PROVE  OneInv' /\ Follows
  <1> USE DEF ecgs, loads, helpers, daemon
  <1>1. /\ ~gone /\ th[Main].pc = "accept" /\ htxd_shutdown_flag /\ Main \in Threads
        /\ UNCHANGED <<daemon, ecgs, loads, helpers, mq, lost>>
    BY Zenon DEF leave_loop, Threads, At
  <1>2. \A t \in Threads : ~Works(t)
    BY <1>1, Zenon DEF OneInv, OneWorks, Works, Home, Threads
  <1>3. Resting
    BY <1>1, <1>2, AtRest, Zenon
  <1>4. Fine /\ Follows
    BY <1>1, <1>3, StaysFine, Stutters, Zenon DEF Resting
  <1>5. (state # "IDLE") =>
          /\ manager # 0 /\ state \in Held
          /\ Full /\ exers \subseteq {current}
    BY <1>3, Zenon DEF Resting, Rest, Idle, Chosen, Failed, Runs, Full, Held
  <1>6. PICK v : /\ Goto(Main, v) /\ UNCHANGED undefined
                 /\ v = "exited" \/ (v = "all" /\ state # "IDLE")
    BY <1>5, Zenon DEF leave_loop
  <1>7. Becomes(Main, th'[Main]) /\ th'[Main].pc = v /\ Same(th[Main], th'[Main])
    BY <1>1, <1>3, <1>6, GotoAt, Zenon DEF Resting
  <1>8. Phase(Main)'
    <2>1. CASE v = "exited"
      BY <1>7, <2>1, Zenon DEF Phase, Idles
    <2>2. CASE v = "all" /\ state # "IDLE"
      <3>1. Full' /\ current' = current
        BY <1>1, <1>5, <2>2, SameHold, Zenon
      <3> QED BY <1>1, <1>5, <1>7, <2>2, <3>1, Zenon DEF Phase, Unloads
    <2> QED BY <1>6, <2>1, <2>2, Zenon
  <1>9. PICK r : r = th'[Main]
    BY Zenon
  <1>10. Becomes(Main, r) /\ r.pid = 0 /\ r.pc # Home(Main) /\ th[Main].pid = 0
    BY <1>1, <1>3, <1>6, <1>7, <1>9, Zenon DEF Same, Home, Resting
  <1>11. Sound(Main, r)
    BY <1>4, <1>8, <1>10, Zenon DEF Sound, Fine
  <1> QED BY <1>1, <1>3, <1>4, <1>6, <1>10, <1>11, OneStep, Zenon DEF Resting, Sole

(* htxd_shutdown_all_mdt unloads the MDT there is, then idles the daemon.  *)
LEMMA OneShutdownAll ==
    ASSUME OneInv, shutdown_all_mdt
    PROVE  OneInv' /\ Follows
  <1> USE DEF ecgs, loads, helpers, daemon
  <1>1. /\ At(Main, "all") /\ Main \in Threads
        /\ UNCHANGED <<daemon, manager, node, next_key_offset, ipc, loads, helpers, mq, lost>>
    BY Zenon DEF shutdown_all_mdt, Threads
  <1>2. Calm(Main) /\ th[Main].pc = "all" /\ th[Main].pid = 0
    BY <1>1, CalmAt, AtPlace, Zenon DEF OneInv, Helpers
  <1>3. state \in Held /\ ((Full /\ exers \subseteq {current}) \/ Fresh)
    <2>1. Phase(Main) /\ Main \in Threads
      BY <1>1, <1>2, Zenon DEF Calm
    <2> QED BY <1>2, <2>1, UnloadPlaces, Zenon
  <1>4. Live(manager) /\ manager \in Mgrs /\ manager # 0 /\ Types
    BY <1>2, <1>3, Zenon DEF Calm, Full, Fresh, Unlisted, Types
  <1>5. CASE Fresh
    <2>1. Goto(Main, "idle1") /\ UNCHANGED <<mgr, undefined>>
      BY <1>4, <1>5, Zenon DEF Fresh, Unlisted, shutdown_all_mdt
    <2>2. th'[Main].pc = "idle1"
      BY <1>1, <1>2, <2>1, GotoAt, Zenon DEF Calm
    <2>3. Unlisted'
      BY <1>1, <1>5, <2>1, SameHold, Zenon DEF Fresh
    <2>4. Phase(Main)'
      BY <1>1, <1>3, <1>5, <2>2, <2>3, Zenon DEF Phase, Idles, Fresh
    <2>5. Fine /\ Follows
      BY <1>1, <1>2, <2>1, StaysFine, Stutters, Zenon DEF Calm
    <2> QED BY <1>1, <2>1, <2>4, <2>5, OneGoto, Zenon DEF Helpers
  <1>6. CASE Full /\ exers \subseteq {current}
    <2>1. mgr[manager].list = <<current>> /\ mgr[manager].len = 1 /\ Open(current)
      BY <1>6, Zenon DEF Full
    <2>2. Head(mgr[manager].list) = current /\ mgr[manager].list # <<>>
      BY ONLY <2>1
    <2>3. Removable(manager, current)
      BY <1>4, <2>1 DEF Removable
    <2>4. /\ remove_ecg_info_node(manager, current) /\ SetsNode(Main, "unload", current)
          /\ UNCHANGED undefined
      BY ONLY <1>4, <2>2, <2>3, shutdown_all_mdt, Zenon DEF shutdown_all_mdt, SetsNode
    <2>5. /\ MgrTypes' /\ mgr'[manager].st = mgr[manager].st /\ mgr'[manager].list = <<>>
          /\ mgr'[manager].len = 0 /\ mgr'[manager].current = current
      BY <1>4, <2>1, <2>4, Removed, Zenon DEF Types, current
    <2>6. current' = current /\ Unlisted' /\ Open(current)'
      <3>1. current' = current
        BY <1>1, <2>5, Zenon DEF current
      <3> QED BY <1>1, <1>4, <2>1, <2>5, <3>1, Zenon DEF Unlisted, Open
    <2>7. PICK r : Becomes(Main, r) /\ r.pc = "unload" /\ r.node = current /\ r.pid = th[Main].pid
      <3>1. Records /\ Main \in Threads
        BY <1>1, <1>2, Zenon DEF Calm
      <3> QED BY ONLY <2>4, <3>1, NodeIs
    <2>8. th'[Main] = r
      BY <1>1, <1>2, <2>7, OnlyOne, Zenon DEF Calm
    <2>9. Phase(Main)'
      BY <1>1, <1>3, <1>6, <2>6, <2>7, <2>8, Zenon DEF Phase, Unloads
    <2>10. Fine
      BY <1>1, <1>2, <1>4, <2>5, Zenon DEF Types, Fine, Freed, Calm, NodeTypes, IsNode, Live
    <2>11. Sound(Main, r)
      BY <2>7, <2>9, <2>10, Zenon DEF Sound, Fine, Home
    <2>12. OneInv'
      BY <1>1, <1>2, <2>4, <2>7, <2>11, OneStep, Zenon DEF Calm
    <2>13. Loaded = node[current].mdt /\ node[current].mdt # None /\ Loaded' = None
      BY <1>1, <1>4, <2>1, <2>5, LoadedIs, LoadedNone, LifecycleAssumption, Zenon DEF Open
    <2>14. Life!Unload
      BY <1>1, <1>3, <2>13, Zenon DEF Life!Unload, Held
    <2> QED BY <2>12, <2>14, Zenon DEF Follows, Life!Next
  <1> QED BY <1>3, <1>5, <1>6, Zenon

(* A step around the threads, which may forget a pid but changes nothing   *)
(* else that is held.                                                      *)
Around ==
    /\ UNCHANGED <<state, test, manager, mgr, node, next_key_offset, ipc, exers, killed, syscfg,
                   monitors, th, undefined>>
    /\ \A h \in Helpers : pid'[h] = pid[h] \/ pid'[h] = 0

(* Such a step leaves every thread where it is in its command.             *)
LEMMA PhaseStays ==
    ASSUME NEW t \in Threads, Phase(t), Around
    PROVE  Phase(t)'
  <1>1. /\ UNCHANGED <<state, test, manager, mgr, node, ipc, exers, monitors, th>>
        /\ \A h \in Helpers : pid[h] = 0 => pid'[h] = 0
    BY Zenon DEF Around
  <1>2. /\ current' = current /\ (Unlisted' <=> Unlisted) /\ (Full' <=> Full)
        /\ \A n : Open(n)' <=> Open(n)
    BY <1>1, SameHold, Zenon
  <1>3. /\ (Idle => Idle') /\ (Chosen => Chosen') /\ (Failed => Failed') /\ (Runs => Runs')
        /\ (Nothing => Nothing') /\ (Fresh => Fresh') /\ (Named => Named')
    BY <1>1, Kept, Zenon
  <1>4. Open(th[t].node) => Open(th[t].node)'
    BY <1>1, Zenon DEF Open
  <1>5. Open(current) => Open(current)'
    BY <1>1, <1>2, Zenon DEF Open
  <1>6. Begins(t) => Begins(t)'
    BY <1>1, <1>3, Zenon DEF Begins
  <1>7. Loads(t) => Loads(t)'
    BY <1>1, <1>2, <1>3, Zenon DEF Loads
  <1>8. Starts(t) => Starts(t)'
    BY <1>1, <1>2, Zenon DEF Starts
  <1>9. Unloads(t) => Unloads(t)'
    BY <1>1, <1>2, <1>3, <1>4, <1>5, Zenon DEF Unloads
  <1>10. Idles(t) => Idles(t)'
    BY <1>1, <1>2, <1>4, Zenon DEF Idles, Helpers
  <1> QED BY <1>6, <1>7, <1>8, <1>9, <1>10, Zenon DEF Phase

(* Such a step keeps OneInv and is none of MdtLife.                        *)
LEMMA OneAround ==
    ASSUME OneInv, Around, PidInv', OneWorks', Children'
    PROVE  OneInv' /\ Follows
  <1>1. /\ UNCHANGED <<state, test, manager, mgr, node, next_key_offset, ipc, exers, killed, syscfg,
                       monitors, th, undefined>>
        /\ \A h \in Helpers : pid[h] = 0 => pid'[h] = 0
    BY Zenon DEF Around
  <1>2. Types' /\ ~undefined' /\ (manager' # 0 => mgr'[manager'].st = "live")
    BY <1>1, Zenon DEF OneInv, Types, MgrTypes, NodeTypes, IsMgr, IsNode
  <1>3. ASSUME th[Main].pc # "exited"
        PROVE  /\ Freed' /\ Signalled'
               /\ (\A t \in Threads : IF Works(t) THEN Phase(t) ELSE th[t].pid = 0)'
               /\ (\A t \in Threads : th[t].pid # 0 => pid[th[t].pc] = 0)'
               /\ ((\A t \in Threads : ~Works(t)) => Rest)'
    <2>1. Freed' /\ Signalled'
      BY <1>1, <1>3, Zenon DEF OneInv, Freed, Signalled
    <2>2. \A t \in Threads : Works(t)' <=> Works(t)
      BY <1>1, Zenon DEF Works
    <2>3. (\A t \in Threads : IF Works(t) THEN Phase(t) ELSE th[t].pid = 0)'
      BY <1>1, <1>3, <2>2, PhaseStays, Zenon DEF OneInv
    <2>4. (\A t \in Threads : th[t].pid # 0 => pid[th[t].pc] = 0)'
      BY <1>1, <1>3, Zenon DEF OneInv, PidInv, Pending
    <2>5. Rest => Rest'
      BY <1>1, Kept, Zenon DEF Rest
    <2> QED BY <1>3, <2>1, <2>2, <2>3, <2>4, <2>5, Zenon DEF OneInv
  <1>4. Follows
    BY <1>1, Stutters, Zenon
  <1> QED BY <1>1, <1>2, <1>3, <1>4, Zenon DEF OneInv

(* SIGTERM comes between two commands.                                     *)
LEMMA OneSigterm ==
    ASSUME OneClient, OneInv, sig_end
    PROVE  OneInv' /\ Follows
  <1> USE DEF ecgs, loads, helpers
  <1>1. Around /\ UNCHANGED <<th, pid, proc>>
    BY Zenon DEF sig_end, Around
  <1>2. PidInv'
    BY MainPids, Zenon DEF OneInv
  <1>3. \A s \in Sessions : th[s].pc = "idle" /\ s # Main
    BY LifecycleAssumption, Zenon DEF sig_end, OneClient
  <1>4. OneWorks'
    BY <1>1, <1>3, Zenon DEF OneInv, OneWorks, Works, Home
  <1>5. Children'
    BY <1>1, Zenon DEF OneInv, Children
  <1> QED BY <1>1, <1>2, <1>4, <1>5, OneAround, Zenon

(* What the processes around htxd do.                                      *)
LEMMA OneProcess ==
    ASSUME OneInv, Process
    PROVE  OneInv' /\ Follows
  <1> USE DEF ecgs, loads, helpers, daemon
  <1>1. PidInv'
    BY ProcessPids, Zenon DEF OneInv
  <1>2. UNCHANGED <<th, htxd_shutdown_flag>>
    BY Zenon DEF Process, htx_message, child_death, read_message, final_message, exercisers_end
  <1>3. OneWorks'
    BY <1>2, Zenon DEF OneInv, OneWorks, Works
  <1>4. ASSUME UNCHANGED <<state, test, manager, mgr, node, next_key_offset, ipc, exers, killed, syscfg,
                           monitors, pid, proc, th, undefined>>
        PROVE  OneInv' /\ Follows
    <2>1. Around
      BY <1>4, Zenon DEF Around
    <2>2. Children'
      BY <1>4, Zenon DEF OneInv, Children
    <2> QED BY <1>1, <1>3, <2>1, <2>2, OneAround, Zenon
  <1>5. CASE htx_message \/ \E p \in Procs : read_message(p)
    BY <1>4, <1>5, Zenon DEF htx_message, read_message
  <1>6. ASSUME NEW p \in Procs, child_death(p) \/ final_message(p)
        PROVE  OneInv' /\ Follows
    <2>1. /\ Ends(p)
          /\ UNCHANGED <<state, test, manager, mgr, node, next_key_offset, ipc, exers, killed, syscfg,
                         monitors, th, undefined>>
      BY <1>6, Zenon DEF child_death, final_message
    <2>2. Records
      BY Zenon DEF OneInv, PidInv
    <2>3. \A h \in Helpers : pid'[h] = pid[h] \/ (pid[h] = p /\ pid'[h] = 0)
      BY <2>1, Zenon DEF Ends
    <2>4. proc'[p].st = "reaped" /\ \A q \in Procs \ {p} : proc'[q] = proc[q]
      BY <2>1, <2>2 DEF Ends, Records
    <2>5. Children'
      <3> SUFFICES ASSUME NEW q \in Procs, proc'[q].st = "alive"
                   PROVE  /\ proc'[q].kind \in Helpers
                          /\ \/ pid'[proc'[q].kind] = q
                             \/ \E t \in Threads : th[t].pid = q /\ th[t].pc = proc'[q].kind
        BY <1>2, Zenon DEF Children
      <3>1. q # p /\ proc'[q] = proc[q]
        BY <2>4, Zenon
      <3>2. PICK k : k = proc[q].kind /\ k = proc'[q].kind
        BY <3>1, Zenon
      <3>3. proc[q].st = "alive"
        BY <3>1, Zenon
      <3>4. k \in Helpers /\ (pid[k] = q \/ \E t \in Threads : th[t].pid = q /\ th[t].pc = k)
        <4>1. /\ proc[q].kind \in Helpers
              /\ \/ pid[proc[q].kind] = q
                 \/ \E t \in Threads : th[t].pid = q /\ th[t].pc = proc[q].kind
          BY <3>3, Zenon DEF OneInv, Children
        <4> QED BY ONLY <3>2, <4>1, Zenon
      <3>5. pid[k] = q => pid'[k] = q
        BY <2>3, <3>1, <3>4, Zenon
      <3> QED BY ONLY <3>2, <3>4, <3>5, Zenon
    <2>6. Around
      BY <2>1, <2>3, Zenon DEF Around
    <2> QED BY <1>1, <1>3, <2>5, <2>6, OneAround, Zenon
  <1>7. ASSUME NEW n \in Nodes, exercisers_end(n)
        PROVE  OneInv' /\ Follows
    <2>1. /\ n \in killed /\ exers' = exers \ {n} /\ killed' = killed \ {n}
          /\ UNCHANGED <<state, test, manager, mgr, node, next_key_offset, ipc, syscfg, monitors,
                         pid, proc, th, undefined>>
      BY <1>7, Zenon DEF exercisers_end
    <2>2. Types' /\ ~undefined' /\ (manager' # 0 => mgr'[manager'].st = "live") /\ Children'
      BY <2>1, Zenon DEF OneInv, Types, MgrTypes, NodeTypes, IsMgr, IsNode, Children
    <2>3. ASSUME th[Main].pc # "exited"
          PROVE  /\ Freed' /\ Signalled'
                 /\ (\A t \in Threads : IF Works(t) THEN Phase(t) ELSE th[t].pid = 0)'
                 /\ (\A t \in Threads : th[t].pid # 0 => pid[th[t].pc] = 0)'
                 /\ ((\A t \in Threads : ~Works(t)) => Rest)'
      <3>1. PICK w \in Threads : th[w].pc = "unloadWait"
        BY <2>1, <2>3, Zenon DEF OneInv, Signalled
      <3>2. Works(w) /\ \A u \in Threads \ {w} : ~Works(u)
        BY <3>1, Zenon DEF OneInv, OneWorks, Works, Home
      <3>3. /\ th[w].node = current /\ Unlisted /\ Open(current) /\ exers \subseteq {current}
            /\ IF w = Main THEN state \in Held ELSE state = "SHUTTING_DOWN"
        <4>1. Phase(w)
          BY <2>3, <3>2, Zenon DEF OneInv
        <4> QED BY <3>1, <4>1, UnloadPlaces, Zenon
      <3>4. \A t \in Threads : Works(t)' <=> Works(t)
        BY <2>1, Zenon DEF Works
      <3>5. Phase(w)'
        <4>1. current' = current /\ Unlisted' /\ exers' \subseteq {current}
          BY <2>1, <3>3, SameHold, Zenon
        <4>2. Open(current)'
          BY <2>1, <3>3, <4>1, Zenon DEF Open
        <4> QED BY <2>1, <3>1, <3>3, <4>1, <4>2, Zenon DEF Phase, Unloads
      <3>6. manager # 0
        BY <3>3, Zenon DEF Unlisted
      <3>7. Freed' /\ Signalled'
        BY <2>1, <2>3, <3>1, <3>6, Zenon DEF OneInv, Freed, Signalled
      <3> QED BY <2>1, <2>3, <3>2, <3>4, <3>5, <3>7, Zenon DEF OneInv
    <2>4. Follows
      BY <2>1, Stutters, Zenon
    <2> QED BY <1>1, <1>3, <2>1, <2>2, <2>3, <2>4, Zenon DEF OneInv
  <1> QED BY <1>5, <1>6, <1>7, Zenon DEF Process

(* With one client every step keeps OneInv, and is one of MdtLife or none. *)
LEMMA OneNext ==
    ASSUME OneClient, OneInv, [Next]_vars
    PROVE  OneInv' /\ Follows
  <1>1. CASE UNCHANGED vars
    <2> USE DEF vars, daemon, ecgs, loads, helpers
    <2>1. Around /\ UNCHANGED <<th, pid, proc, htxd_shutdown_flag>>
      BY <1>1, Zenon DEF Around
    <2>2. PidInv'
      BY <1>1, PidStep, Zenon DEF OneInv
    <2>3. OneWorks' /\ Children'
      BY <2>1, Zenon DEF OneInv, OneWorks, Works, Children
    <2> QED BY <2>1, <2>2, <2>3, OneAround, Zenon
  <1>2. ASSUME NEW t \in Threads, Start(t)
        PROVE  OneInv' /\ Follows
    BY <1>2, OneBegins, OneManager, OneName, OneAllocate, OneIpc, OneSelected, OneHelper, OneStarts,
       OneRunning, Zenon DEF Start
  <1>3. ASSUME NEW t \in Threads, Stop(t)
        PROVE  OneInv' /\ Follows
    BY <1>3, OneShutdown, OneDetach, OneUnload, OneUnloaded, OneCleanup, OneIdleDaemon, OneWait,
       OneFree, OneIdle, Zenon DEF Stop
  <1>4. CASE MainStep
    BY <1>4, OneAutostart, OneLeave, OneShutdownAll, Zenon DEF MainStep
  <1> QED BY <1>1, <1>2, <1>3, <1>4, OneCommand, OneSigterm, OneProcess, Zenon DEF Next, Step

(* htxd starts idle, its main thread about to look for an MDT to run.      *)
LEMMA OneInit == Init => OneInv /\ Life!Init
  <1> SUFFICES ASSUME Init
               PROVE  OneInv /\ Life!Init
    OBVIOUS
  <1>1. PidInv
    BY PidInit, Zenon
  <1>2. \A t \in Threads : th[t].pc = (IF t = Main THEN "boot" ELSE "idle") /\ th[t].pid = 0
    BY DEF Init, IdleThread
  <1>3. Main \in Threads /\ Sessions \subseteq Threads /\ Main \notin Sessions
    BY LifecycleAssumption, Zenon DEF Threads
  <1>4. Types
    <2>1. MgrTypes
      BY DEF Init, MgrTypes, IsMgr, NoMgr
    <2>2. NodeTypes
      <3>1. IsNode(NoNode)
        BY Zenon DEF IsNode, NoNode
      <3>2. \A n \in Nodes : node[n] = NoNode
        BY Zenon DEF Init
      <3>3. node = [n \in Nodes |-> node[n]]
        BY DEF Init
      <3> QED BY <3>1, <3>2, <3>3, Zenon DEF NodeTypes, IsNode
    <2>3. next_key_offset \in Keys /\ ipc = [k \in Keys |-> ipc[k]] /\ manager = 0
      BY LifecycleAssumption DEF Init, Keys
    <2> QED BY <2>1, <2>2, <2>3, Zenon DEF Types
  <1>5. OneWorks
    BY <1>2, <1>3, Zenon DEF OneWorks, Works, Home
  <1>6. Children
    BY DEF Init, Children, NoProc
  <1>7. Freed /\ Signalled /\ Idle /\ ~undefined /\ manager = 0 /\ Loaded = None
    BY DEF Init, Freed, Signalled, Idle, Nothing, NoIpc, Loaded, Live
  <1>8. \A t \in Threads : IF Works(t) THEN Phase(t) ELSE th[t].pid = 0
    BY <1>2, <1>7, Zenon DEF Works, Home, Phase, Begins
  <1>9. OneInv
    BY <1>1, <1>2, <1>3, <1>4, <1>5, <1>6, <1>7, <1>8, Zenon DEF OneInv, Rest
  <1>10. Life!Init
    BY <1>7, Zenon DEF Life!Init, Init
  <1> QED BY <1>9, <1>10

(* Between two commands the daemon is at rest.                             *)
LEMMA RestsBetween ==
    ASSUME OneInv, Quiescent
    PROVE  Resting /\ Main \in Threads
  <1>1. \A t \in Threads : ~Works(t)
    BY Zenon DEF Quiescent, Works, Home, Threads
  <1>2. ~gone
    BY Zenon DEF Quiescent, gone
  <1> QED BY <1>1, <1>2, AtRest, Zenon DEF Threads

(* What OneInv says between two commands.                                  *)
LEMMA OneMeans ==
    ASSUME OneInv
    PROVE  NothingUndefined /\ IdleIsClean /\ ActivatedHasIpc
  <1>1. NothingUndefined
    BY Zenon DEF OneInv, NothingUndefined
  <1>2. IdleIsClean
    <2> SUFFICES ASSUME Quiescent, state = "IDLE"
                 PROVE  /\ manager = 0 /\ test = "HALTED" /\ exers = {}
                        /\ ~syscfg /\ ~monitors
                        /\ \A h \in Helpers : pid[h] = 0
                        /\ \A p \in Procs : proc[p].st # "alive"
                        /\ \A k \in Keys : ipc[k] = 0
      BY Zenon DEF IdleIsClean
    <2>1. Resting
      BY RestsBetween, Zenon
    <2>2. Idle /\ Freed
      BY <2>1, Zenon DEF Resting, Rest, Chosen, Failed, Runs
    <2>3. manager = 0 /\ test = "HALTED" /\ \A k \in Keys : ipc[k] = 0
      BY <2>2, Zenon DEF Idle, Nothing, NoIpc
    <2>4. exers = {} /\ ~syscfg /\ ~monitors /\ \A h \in Helpers : pid[h] = 0
      BY <2>2, <2>3, Zenon DEF Freed
    <2>5. ASSUME NEW p \in Procs, proc[p].st = "alive"
          PROVE  FALSE
      <3>1. p # 0
        BY LifecycleAssumption DEF Procs
      <3> QED BY <2>1, <2>4, <2>5, <3>1, Zenon DEF OneInv, Children, Resting
    <2> QED BY <2>3, <2>4, <2>5, Zenon
  <1>3. ActivatedHasIpc
    <2> SUFFICES ASSUME Quiescent, state = "RUNNING", NEW n \in Listed(manager)
                 PROVE  n \in exers /\ node[n].shm /\ ipc[node[n].key] = node[n].id
      BY Zenon DEF ActivatedHasIpc
    <2>1. Resting
      BY RestsBetween, Zenon
    <2>2. Runs
      BY <2>1, Zenon DEF Resting, Rest, Chosen, Failed, Idle
    <2>3. mgr[manager].list = <<current>> /\ exers = {current} /\ Open(current)
      BY <2>2, Zenon DEF Runs, Full
    <2>4. n = current
      BY <2>3 DEF Listed
    <2> QED BY <2>3, <2>4, Zenon DEF Open
  <1> QED BY <1>1, <1>2, <1>3, Zenon

(* With one client at a time htxd never uses a NULL or freed ECG manager,  *)
(* node or shared memory: in no command, in autostart, and in no shutdown, *)
(* whatever helper dies and whenever SIGTERM comes between two commands.   *)
THEOREM OneClientDefined == OneClient => (Spec => []NothingUndefined)
  <1> SUFFICES ASSUME OneClient
               PROVE  Spec => []NothingUndefined
    OBVIOUS
  <1>1. Init => OneInv
    BY OneInit, Zenon
  <1>2. OneInv /\ [Next]_vars => OneInv'
    BY OneNext, Zenon
  <1>3. OneInv => NothingUndefined
    BY OneMeans, Zenon
  <1> QED BY <1>1, <1>2, <1>3, PTL DEF Spec

(* With one client at a time a daemon that says IDLE between two commands  *)
(* holds no manager, exerciser, helper, pid, IPC, monitor or syscfg.       *)
THEOREM OneClientIdleClean == OneClient => (Spec => []IdleIsClean)
  <1> SUFFICES ASSUME OneClient
               PROVE  Spec => []IdleIsClean
    OBVIOUS
  <1>1. Init => OneInv
    BY OneInit, Zenon
  <1>2. OneInv /\ [Next]_vars => OneInv'
    BY OneNext, Zenon
  <1>3. OneInv => IdleIsClean
    BY OneMeans, Zenon
  <1> QED BY <1>1, <1>2, <1>3, PTL DEF Spec

(* With one client at a time the MDT that a RUNNING daemon lists has       *)
(* exercisers, and the semaphores and shared memory they started with.     *)
THEOREM OneClientActivated == OneClient => (Spec => []ActivatedHasIpc)
  <1> SUFFICES ASSUME OneClient
               PROVE  Spec => []ActivatedHasIpc
    OBVIOUS
  <1>1. Init => OneInv
    BY OneInit, Zenon
  <1>2. OneInv /\ [Next]_vars => OneInv'
    BY OneNext, Zenon
  <1>3. OneInv => ActivatedHasIpc
    BY OneMeans, Zenon
  <1> QED BY <1>1, <1>2, <1>3, PTL DEF Spec

(* With one client at a time the commands implement MdtLife: one MDT at a  *)
(* time, loaded before it is selected or started, started before it runs,  *)
(* and unloaded before the daemon is idle again.                           *)
THEOREM OneClientRefines == OneClient => (Spec => ImplementsMdtLife)
  <1> SUFFICES ASSUME OneClient
               PROVE  Spec => ImplementsMdtLife
    OBVIOUS
  <1>1. Init => OneInv /\ Life!Init
    BY OneInit, Zenon
  <1>2. OneInv /\ [Next]_vars => OneInv'
    BY OneNext, Zenon
  <1>3. OneInv /\ [Next]_vars => [Life!Next]_<<state, Loaded>>
    BY OneNext, Zenon DEF Follows
  <1> QED BY <1>1, <1>2, <1>3, PTL DEF Spec, ImplementsMdtLife, Life!Spec
=============================================================================
