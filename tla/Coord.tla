------------------------------- MODULE Coord -------------------------------
(***************************************************************************)
(* hxecom, the exerciser of network adapters (src/bin/hxecom): how its     *)
(* processes find each other.  Every device has an hxecom process, whose   *)
(* socket is called a server; all servers of a host share a coordinator,   *)
(* hxecom2 (coord.c), started by the first of them.  A server registers    *)
(* with its coordinator by a stream message.  The coordinator tells it of  *)
(* the remote servers it knows, announces it to the other hosts by         *)
(* datagrams, which may be lost, and repeats the announcements a few       *)
(* times.  A coordinator that hears of a remote server tells its own       *)
(* servers, answers with them over a stream, and passes the news on.  A    *)
(* server that is told of another starts a writer to it.                   *)
(*                                                                         *)
(* The coordinator's parent process receives; children that it forks do    *)
(* the work, one at a time under COORD_SEM.  In a one-system test          *)
(* (OneSysFlag) the servers of a host are told of each other instead, and  *)
(* nothing is accepted from elsewhere.                                     *)
(*                                                                         *)
(* Left out: LocalExerTerm and RemoteExerTerm, whose messages nobody       *)
(* sends; dead_flag, which nothing sets (IncDeadCnt is not called); and    *)
(* the limit MAXADDR of RemoteAddr, since only addresses of Other_ips get  *)
(* there (MAXOTHERS = 8, MAXADDR = 10).                                    *)
(***************************************************************************)
EXTENDS Integers, Sequences, FiniteSets, Functions

CONSTANTS
    Hosts,
    Servers,
    HostOf,           \* the host of a server
    ExerNo,           \* its number among the exercisers of the host
    None,
    MAXREMOTE,        \* capacity of RemoteIDs (50)
    NumberBroadcast,  \* rounds of the routine broadcast (2)
    MaxWaiting,       \* children of the routine broadcast that wait at once
    Tests             \* what is tested: OneSysFlag of the rules, the servers
                      \* that are started, and how many faults may happen

ASSUME ConstantsAssumption ==
    /\ HostOf \in [Servers -> Hosts] /\ Servers \cap Hosts = {} /\ None \notin Servers
    /\ ExerNo \in [Servers -> Nat \ {0}]
    /\ \A s, r \in Servers : s # r => <<HostOf[s], ExerNo[s]>> # <<HostOf[r], ExerNo[r]>>
    /\ MAXREMOTE \in Nat /\ MaxWaiting \in Nat /\ NumberBroadcast \in Nat
    /\ Tests \subseteq [OneSysFlag : BOOLEAN, servers : SUBSET Servers, faults : Nat]

VARIABLES
    OneSysFlag,
    \* the servers
    srv,              \* where main of hxecom.c is
    told,             \* how often a server has been told of another
    \* shm_HXECOM and shm_COORD of a host
    ServerIDinit,
    LocalIDs, RemoteIDs, RemoteAddr,
    BroadcastAlarm,   \* FALSE for 0, TRUE for BroadcastInterval
    BroadcastIntervalsRemaining,
    \* the coordinator's processes
    parent,           \* where the parent is
    tvptr,            \* whether its select has a timeout
    waiting,          \* the number of children that wait for COORD_SEM
    holder,           \* the child that holds it, with the sends it has left
    storing,          \* children past COORD_SEM, before their two stores
    \* the network
    stream,           \* connections to a coordinator that it has not read
    dgram,            \* datagrams under way to a coordinator
    faults,           \* the faults that may still happen
    failed            \* what went wrong so far

servers == <<srv, told, ServerIDinit>>
lists == <<LocalIDs, RemoteIDs, RemoteAddr>>
timer == <<BroadcastAlarm, BroadcastIntervalsRemaining>>
procs == <<parent, tvptr>>
children == <<waiting, holder, storing>>
net == <<stream, dgram>>
history == <<faults, failed>>
vars == <<OneSysFlag, servers, lists, timer, procs, children, net, history>>

Msg(type, s) == [type |-> type, server |-> s]
Rounds == Msg("BROADCAST_LOCALS", None)
Tasks == {Msg(t, s) : t \in {"LOCALSERVER", "REMOTESERVER"}, s \in Servers}
         \cup {Rounds}
Free == [task |-> None, todo |-> {}]
Up(h) == parent[h] \in {"loop", "select", "wait"}
Other_ips(h) == IF OneSysFlag THEN {} ELSE Hosts \ {h}
Known(h, s) == s \in RemoteIDs[h]

Init ==
    /\ \E test \in Tests :
         /\ OneSysFlag = test.OneSysFlag
         /\ srv = [s \in Servers |-> IF s \in test.servers THEN "down" ELSE "absent"]
         /\ faults = test.faults
    /\ told = [s \in Servers |-> [r \in Servers |-> 0]]
    /\ ServerIDinit = [s \in Servers |-> FALSE]
    /\ LocalIDs = [h \in Hosts |-> <<>>]
    /\ RemoteIDs = [h \in Hosts |-> {}]
    /\ RemoteAddr = [h \in Hosts |-> {}]
    /\ BroadcastAlarm = [h \in Hosts |-> FALSE]
    /\ BroadcastIntervalsRemaining = [h \in Hosts |-> 0]
    /\ parent = [h \in Hosts |-> "down"]
    /\ tvptr = [h \in Hosts |-> FALSE]
    /\ waiting = [h \in Hosts |-> [t \in Tasks |-> 0]]
    /\ holder = [h \in Hosts |-> Free]
    /\ storing = [h \in Hosts |-> [alarm |-> 0, remaining |-> 0]]
    /\ stream = [h \in Hosts |-> <<>>]
    /\ dgram = [h \in Hosts |-> [s \in Servers |-> 0]]
    /\ failed = {}

-----------------------------------------------------------------------------
(* main of hxecom.c                                                        *)

(* SetUpCoord starts the coordinator of the host, unless that was done     *)
(* before, and waits until it receives; an ended one is not started again. *)
SetUpCoord(s) == LET h == HostOf[s] IN
    /\ srv[s] = "down"
    /\ srv' = [srv EXCEPT ![s] = "started"]
    /\ parent' = [parent EXCEPT ![h] = IF @ = "down" THEN "loop" ELSE @]
    /\ UNCHANGED <<OneSysFlag, told, ServerIDinit, lists, timer, tvptr, children,
                   net, history>>

(* The server is announced to the coordinator, before it listens; if the   *)
(* coordinator has ended, the connection fails and the process ends.       *)
Register(s) == LET h == HostOf[s] IN
    /\ srv[s] = "started"
    /\ srv' = [srv EXCEPT ![s] = IF Up(h) THEN "registered" ELSE "ended"]
    /\ stream' = IF Up(h)
                 THEN [stream EXCEPT ![h] = Append(@, Msg("LOCALSERVER", s))]
                 ELSE stream
    /\ UNCHANGED <<OneSysFlag, told, ServerIDinit, lists, timer, procs,
                   children, dgram, history>>

Listen(s) ==
    /\ srv[s] = "registered"
    /\ srv' = [srv EXCEPT ![s] = "listening"]
    /\ UNCHANGED <<OneSysFlag, told, ServerIDinit, lists, timer, procs,
                   children, net, history>>

(* The process is terminated, or its Shutdown passes CM_SHUTDOWN on to the *)
(* coordinator and ends it.                                                *)
End(s) == LET h == HostOf[s] IN
    /\ srv[s] \in {"registered", "listening"} /\ faults > 0
    /\ srv' = [srv EXCEPT ![s] = "ended"]
    /\ \/ UNCHANGED stream
       \/ /\ srv[s] = "listening" /\ Up(h)
          /\ stream' = [stream EXCEPT ![h] = Append(@, Msg("SHUTDOWN", None))]
    /\ faults' = faults - 1 /\ failed' = failed \cup {<<h, "END">>}
    /\ UNCHANGED <<OneSysFlag, told, ServerIDinit, lists, timer, procs, children, dgram>>

-----------------------------------------------------------------------------
(* The parent process of the coordinator                                   *)

(* The timeout of the next select is taken from BroadcastAlarm.            *)
Select(h) ==
    /\ parent[h] = "loop"
    /\ parent' = [parent EXCEPT ![h] = "select"]
    /\ tvptr' = [tvptr EXCEPT ![h] = BroadcastAlarm[h]]
    /\ UNCHANGED <<OneSysFlag, servers, lists, timer, children, net, history>>

Fork(h, task) == waiting' = [waiting EXCEPT ![h][task] = @ + 1]

(* select has timed out with nothing to receive: a child repeats the       *)
(* announcements, if any are due.                                          *)
Timeout(h) ==
    /\ parent[h] = "select" /\ tvptr[h] /\ stream[h] = <<>>
    /\ LET due == BroadcastAlarm[h] /\ BroadcastIntervalsRemaining[h] > 0 IN
         /\ due => waiting[h][Rounds] < MaxWaiting
         /\ IF due THEN Fork(h, Rounds) ELSE UNCHANGED waiting
    /\ parent' = [parent EXCEPT ![h] = "loop"]
    /\ tvptr' = [tvptr EXCEPT ![h] = FALSE]
    /\ UNCHANGED <<OneSysFlag, servers, lists, timer, holder, storing, net, history>>

(* A quick look without COORD_SEM tells whether a child is needed.         *)
ShouldFork(h, m) ==
    \/ m.type = "LOCALSERVER"
    \/ m.type = "REMOTESERVER" /\ HostOf[m.server] # h /\ ~Known(h, m.server)

(* What is not left to a child the parent does by itself: RemServer, which *)
(* returns at once for a server of this host and waits for COORD_SEM for a *)
(* known one, and the end; but Shutdown of hxecom.c passes the type on in  *)
(* the host's byte order, so a little-endian host finds it unknown.        *)
After(h, m) ==
    IF m.type = "SHUTDOWN" THEN {"ended", "loop"}
    ELSE IF ShouldFork(h, m) \/ HostOf[m.server] = h THEN {"loop"}
    ELSE {"wait"}

Receive(h, m) ==
    /\ parent[h] = "select"
    /\ tvptr' = [tvptr EXCEPT ![h] = FALSE]
    /\ IF ShouldFork(h, m) THEN Fork(h, m) ELSE UNCHANGED waiting
    /\ \E p \in After(h, m) : parent' = [parent EXCEPT ![h] = p]
    /\ UNCHANGED <<OneSysFlag, servers, lists, timer, holder, storing, history>>

ReceiveDgram(h, s) ==
    /\ dgram[h][s] > 0
    /\ dgram' = [dgram EXCEPT ![h][s] = @ - 1]
    /\ Receive(h, Msg("REMOTESERVER", s))
    /\ UNCHANGED stream

ReceiveStream(h) ==
    /\ stream[h] # <<>>
    /\ stream' = [stream EXCEPT ![h] = Tail(@)]
    /\ Receive(h, Head(stream[h]))
    /\ UNCHANGED dgram

(* RemServer in the parent: the server is still known.                     *)
OldInfo(h) ==
    /\ parent[h] = "wait" /\ holder[h] = Free
    /\ parent' = [parent EXCEPT ![h] = "loop"]
    /\ UNCHANGED <<OneSysFlag, servers, lists, timer, tvptr, children, net, history>>

-----------------------------------------------------------------------------
(* The children                                                            *)

(* BroadcastMsg: a datagram to every other host.                           *)
BroadcastMsg(h, announced) ==
    dgram' = [g \in Hosts |-> [s \in Servers |->
                dgram[g][s] + IF g # h /\ s \in announced THEN 1 ELSE 0]]

(* The child of task gets COORD_SEM.                                       *)
Enter(h, task) ==
    /\ waiting[h][task] > 0 /\ holder[h] = Free
    /\ waiting' = [waiting EXCEPT ![h][task] = @ - 1]

(* A send of a child.  The loops of a handler follow each other; within    *)
(* one the order of the list is left open.                                 *)
Send(loop, to, type, s) == [loop |-> loop, to |-> to, msg |-> Msg(type, s)]

(* The servers that have been initialised; in a test of several systems    *)
(* LocalServer leaves out the one in the place of LocalIDs that equals the *)
(* ExerNo of the new server.                                               *)
Initialised(h) == {r \in Range(LocalIDs[h]) : ServerIDinit[r]}
Others(h, s) ==
    IF ~OneSysFlag /\ ExerNo[s] \in DOMAIN LocalIDs[h]
    THEN Initialised(h) \ {LocalIDs[h][ExerNo[s]]} ELSE Initialised(h)

\* Mutation of LocalServer: the new server is not told of the remote ones.
LocalServerNoRemotes(h, s) ==
    /\ Enter(h, Msg("LOCALSERVER", s))
    /\ LocalIDs' = [LocalIDs EXCEPT ![h] = Append(@, s)]
    /\ holder' = [holder EXCEPT ![h] =
                    [task |-> Msg("LOCALSERVER", s),
                     todo |-> {Send(2, r, "LOCALSERVER", s) : r \in Others(h, s)}
                              \cup {Send(3, s, "LOCALSERVER", r) : r \in Others(h, s)}]]
    /\ UNCHANGED <<OneSysFlag, servers, RemoteIDs, RemoteAddr, timer, procs, storing,
                   net, history>>

(* LocalServer: the new server is listed, told of all remote servers, and  *)
(* the initialised servers of the host and it are told of each other.      *)
LocalServer(h, s) ==
    /\ Enter(h, Msg("LOCALSERVER", s))
    /\ LocalIDs' = [LocalIDs EXCEPT ![h] = Append(@, s)]
    /\ holder' = [holder EXCEPT ![h] =
                    [task |-> Msg("LOCALSERVER", s),
                     todo |-> {Send(1, s, "REMOTESERVER", r) : r \in RemoteIDs[h]}
                              \cup {Send(2, r, "LOCALSERVER", s) : r \in Others(h, s)}
                              \cup {Send(3, s, "LOCALSERVER", r) : r \in Others(h, s)}]]
    /\ UNCHANGED <<OneSysFlag, servers, RemoteIDs, RemoteAddr, timer, procs, storing,
                   net, history>>

(* The server is initialised and announced, and COORD_SEM released.        *)
Announce(h) == LET s == holder[h].task.server IN
    /\ holder[h] # Free /\ holder[h].todo = {} /\ holder[h].task.type = "LOCALSERVER"
    /\ ServerIDinit' = [ServerIDinit EXCEPT ![s] = TRUE]
    /\ BroadcastMsg(h, {s})
    /\ holder' = [holder EXCEPT ![h] = Free]
    /\ storing' = [storing EXCEPT ![h].alarm = @ + 1]
    /\ UNCHANGED <<OneSysFlag, srv, told, lists, timer, procs, waiting, stream,
                   history>>

(* The last two statements of LocalServer initiate the routine broadcast.  *)
StoreAlarm(h) ==
    /\ storing[h].alarm > 0
    /\ BroadcastAlarm' = [BroadcastAlarm EXCEPT ![h] = TRUE]
    /\ storing' = [storing EXCEPT ![h] = [alarm |-> @.alarm - 1, remaining |-> @.remaining + 1]]
    /\ UNCHANGED <<OneSysFlag, servers, lists, BroadcastIntervalsRemaining, procs,
                   waiting, holder, net, history>>

StoreRemaining(h) ==
    /\ storing[h].remaining > 0
    /\ BroadcastIntervalsRemaining' =
         [BroadcastIntervalsRemaining EXCEPT ![h] = NumberBroadcast]
    /\ storing' = [storing EXCEPT ![h].remaining = @ - 1]
    /\ UNCHANGED <<OneSysFlag, servers, lists, BroadcastAlarm, procs, waiting, holder,
                   net, history>>

\* Mutation of Refused: old information is only looked for without COORD_SEM.
RefusedUnlocked(h, r) ==
    HostOf[r] \notin Other_ips(h) \/ Cardinality(RemoteIDs[h]) = MAXREMOTE

(* RemServer returns for a server that is known by now, that is of no host *)
(* of the test, or that does not fit.                                      *)
Refused(h, r) ==
    \/ Known(h, r)
    \/ HostOf[r] \notin Other_ips(h)
    \/ Cardinality(RemoteIDs[h]) = MAXREMOTE

IgnoreRemote(h, r) ==
    /\ Enter(h, Msg("REMOTESERVER", r))
    /\ Refused(h, r)
    /\ failed' = IF Known(h, r) \/ OneSysFlag THEN failed ELSE failed \cup {<<h, "full">>}
    /\ UNCHANGED <<OneSysFlag, servers, lists, timer, procs, holder, storing, net, faults>>

\* Mutation of RemServer: the coordinator of the new server gets no answer.
RemServerNoAnswer(h, r) == LET from == HostOf[r] IN
    /\ Enter(h, Msg("REMOTESERVER", r))
    /\ ~Refused(h, r)
    /\ RemoteIDs' = [RemoteIDs EXCEPT ![h] = @ \cup {r}]
    /\ RemoteAddr' = [RemoteAddr EXCEPT ![h] = @ \cup {from}]
    /\ holder' = [holder EXCEPT ![h] =
                    [task |-> Msg("REMOTESERVER", r),
                     todo |-> {Send(1, s, "REMOTESERVER", r) : s \in Initialised(h)}]]
    /\ UNCHANGED <<OneSysFlag, servers, LocalIDs, timer, procs, storing, net, history>>

(* RemServer: the initialised servers of the host are told of the new one, *)
(* its coordinator is told of them, and if it is the first from its host,  *)
(* the coordinators of all known hosts, its own included, are told of it.  *)
RemServer(h, r) == LET from == HostOf[r] IN
    /\ Enter(h, Msg("REMOTESERVER", r))
    /\ ~Refused(h, r)
    /\ RemoteIDs' = [RemoteIDs EXCEPT ![h] = @ \cup {r}]
    /\ RemoteAddr' = [RemoteAddr EXCEPT ![h] = @ \cup {from}]
    /\ holder' = [holder EXCEPT ![h] =
                    [task |-> Msg("REMOTESERVER", r),
                     todo |-> {Send(1, s, "REMOTESERVER", r) : s \in Initialised(h)}
                              \cup {Send(2, from, "REMOTESERVER", s) : s \in Initialised(h)}
                              \cup {Send(3, g, "REMOTESERVER", r) :
                                      g \in IF from \in RemoteAddr[h] THEN {}
                                            ELSE RemoteAddr[h] \cup {from}}]]
    /\ UNCHANGED <<OneSysFlag, servers, LocalIDs, timer, procs, storing, net, history>>

Release(h) ==
    /\ holder[h] # Free /\ holder[h].todo = {} /\ holder[h].task.type = "REMOTESERVER"
    /\ holder' = [holder EXCEPT ![h] = Free]
    /\ UNCHANGED <<OneSysFlag, servers, lists, timer, procs, waiting, storing, net, history>>

(* BroadcastLocals                                                         *)
BroadcastLocals(h) == LET left == BroadcastIntervalsRemaining[h] - 1 IN
    /\ Enter(h, Rounds)
    /\ BroadcastMsg(h, Range(LocalIDs[h]))
    /\ BroadcastIntervalsRemaining' = [BroadcastIntervalsRemaining EXCEPT ![h] = left]
    /\ BroadcastAlarm' = [BroadcastAlarm EXCEPT ![h] = @ /\ left # 0]
    /\ UNCHANGED <<OneSysFlag, servers, lists, procs, holder, storing, stream, history>>

Accepts(to) == IF to \in Servers THEN srv[to] = "listening" ELSE Up(to)
IsNext(h, x) == x \in holder[h].todo /\ \A y \in holder[h].todo : x.loop <= y.loop

(* SendStreamMsg succeeds.  A server acts on the message of its kind of    *)
(* test, and starts writers to the server it names (RemoteServer).         *)
Deliver(h, x) ==
    /\ IsNext(h, x) /\ Accepts(x.to)
    /\ IF x.to \in Servers
       THEN /\ told' = IF OneSysFlag <=> x.msg.type = "LOCALSERVER"
                       THEN [told EXCEPT ![x.to][x.msg.server] = @ + 1] ELSE told
            /\ UNCHANGED stream
       ELSE /\ stream' = [stream EXCEPT ![x.to] = Append(@, x.msg)]
            /\ UNCHANGED told
    /\ holder' = [holder EXCEPT ![h].todo = @ \ {x}]
    /\ UNCHANGED <<OneSysFlag, srv, ServerIDinit, lists, timer, procs, waiting, storing,
                   dgram, history>>

\* Mutation of SendFails: the child exits without releasing COORD_SEM.
SendFailsHolding(h, x) ==
    /\ IsNext(h, x)
    /\ Accepts(x.to) => faults > 0
    /\ faults' = IF Accepts(x.to) THEN faults - 1 ELSE faults
    /\ failed' = failed \cup {<<h, holder[h].task.type>>}
    /\ UNCHANGED <<OneSysFlag, servers, lists, timer, procs, children, net>>

(* It fails, and the child gives up what is left, releases COORD_SEM and   *)
(* exits.                                                                  *)
SendFails(h, x) ==
    /\ IsNext(h, x)
    /\ Accepts(x.to) => faults > 0
    /\ faults' = IF Accepts(x.to) THEN faults - 1 ELSE faults
    /\ failed' = failed \cup {<<h, holder[h].task.type>>}
    /\ holder' = [holder EXCEPT ![h] = Free]
    /\ UNCHANGED <<OneSysFlag, servers, lists, timer, procs, waiting, storing, net>>

SendStreamMsg(h) == \E x \in holder[h].todo : Deliver(h, x) \/ SendFails(h, x)

-----------------------------------------------------------------------------
(* The network                                                             *)

(* A datagram is lost, or finds no coordinator at its host.                *)
Lose(h, s) ==
    /\ dgram[h][s] > 0
    /\ Up(h) => faults > 0
    /\ IF Up(h) THEN faults' = faults - 1 /\ failed' = failed \cup {<<h, "LOST">>}
       ELSE UNCHANGED history
    /\ dgram' = [dgram EXCEPT ![h][s] = @ - 1]
    /\ UNCHANGED <<OneSysFlag, servers, lists, timer, procs, children, stream>>

-----------------------------------------------------------------------------
ServerStep(s) == Register(s) \/ Listen(s)
Parent(h) ==
    \/ Select(h) \/ Timeout(h) \/ OldInfo(h) \/ ReceiveStream(h)
    \/ \E s \in Servers : ReceiveDgram(h, s)
Children(h) ==
    \/ \E s \in Servers : LocalServer(h, s) \/ RemServer(h, s) \/ IgnoreRemote(h, s)
    \/ SendStreamMsg(h) \/ Announce(h) \/ Release(h)
    \/ BroadcastLocals(h) \/ StoreAlarm(h) \/ StoreRemaining(h)

Next ==
    \/ \E s \in Servers : SetUpCoord(s) \/ ServerStep(s) \/ End(s)
    \/ \E h \in Hosts : Parent(h) \/ Children(h)
    \/ \E h \in Hosts, s \in Servers : Lose(h, s)

Spec == Init /\ [][Next]_vars

(* A server goes on once it has been started, the parent and the children  *)
(* of a coordinator go on, and a datagram to a host without a coordinator  *)
(* disappears.  Nothing forces a server to be started or to end, or a      *)
(* fault to happen, and nothing says which child gets COORD_SEM first.     *)
FairSpec ==
    /\ Spec
    /\ \A s \in Servers : WF_vars(ServerStep(s))
    /\ \A h \in Hosts : WF_vars(Parent(h)) /\ WF_vars(Children(h))
    /\ WF_vars(\E h \in Hosts, s \in Servers : ~Up(h) /\ Lose(h, s))

-----------------------------------------------------------------------------
(* A server is told of another at most once, however often that one is     *)
(* announced, answered and passed on: it starts one set of writers to it.  *)
ToldOnce == \A s, r \in Servers : told[s][r] <= 1

(* Whom the coordinator must have told s of.                               *)
Due(s) == LET h == HostOf[s] IN
    IF OneSysFlag THEN Initialised(h) \ {s}
    ELSE RemoteIDs[h]

(* Whenever COORD_SEM is free, every initialised server has been told of   *)
(* every server its coordinator has listed for it, whichever of the two    *)
(* was listed first; unless telling the servers of the host failed half    *)
(* way.                                                                    *)
KnowsAll == \A s \in Servers : LET h == HostOf[s] IN
    ServerIDinit[s] /\ holder[h] = Free /\ <<h, "REMOTESERVER">> \notin failed
      => \A r \in Due(s) : told[s][r] = 1

(* Servers find each other: if no datagram is lost on the way to a running *)
(* coordinator, no connection fails, no server ends and no list is full,   *)
(* two initialised servers that are to test together are told of each      *)
(* other in the end, even if one was announced before the coordinator of   *)
(* the other was there to hear it.                                         *)
Partners(s, r) == s # r /\ (HostOf[s] = HostOf[r] <=> OneSysFlag)
Discovery == <>[](failed # {} \/ \A s, r \in Servers :
    Partners(s, r) /\ ServerIDinit[s] /\ ServerIDinit[r] => told[s][r] = 1)

(* The exchange dies down: coordinators do not answer each other for ever, *)
(* every child ends, and nothing is left in a queue that is read.          *)
Quiet == \A h \in Hosts :
    /\ holder[h] = Free /\ \A t \in Tasks : waiting[h][t] = 0
    /\ Up(h) => stream[h] = <<>>
    /\ \A s \in Servers : dgram[h][s] = 0
GoesQuiet == <>[]Quiet
=============================================================================
