---------------------------- MODULE CoordProofs -----------------------------
(***************************************************************************)
(* For any hosts, servers, limits and tests: a server of hxecom is told at *)
(* most once of another, and knows all that its coordinator has listed     *)
(* whenever COORD_SEM is free.                                             *)
(*                                                                         *)
(* The inductive invariant has three parts: the types (Typed), the         *)
(* registration of servers (Registration), and what they have been told    *)
(* (Knowledge).                                                            *)
(***************************************************************************)
EXTENDS Coord, TLAPS

(***************************************************************************)
(* The types of Coord                                                      *)
(***************************************************************************)
Local(s) == Msg("LOCALSERVER", s)
Messages == Tasks \cup {Msg("SHUTDOWN", None)}
News == Tasks \ {Rounds}
Sends == [loop : 1..3, to : Servers \cup Hosts, msg : News]
Holders == [task : News, todo : SUBSET Sends]

Typed ==
    /\ OneSysFlag \in BOOLEAN
    /\ srv \in [Servers -> {"absent", "down", "started", "registered", "listening", "ended"}]
    /\ told \in [Servers -> [Servers -> Nat]]
    /\ ServerIDinit \in [Servers -> BOOLEAN]
    /\ LocalIDs \in [Hosts -> Seq(Servers)]
    /\ RemoteIDs \in [Hosts -> SUBSET Servers]
    /\ RemoteAddr \in [Hosts -> SUBSET Hosts]
    /\ waiting \in [Hosts -> [Tasks -> Nat]]
    /\ holder \in [Hosts -> {Free} \cup Holders]
    /\ stream \in [Hosts -> Seq(Messages)]

-----------------------------------------------------------------------------
(* Appending an element to a list (LocalIDs) adds it to the list's         *)
(* elements.                                                               *)
LEMMA RangeAppend ==
    ASSUME NEW S, NEW q \in Seq(S), NEW e \in S
    PROVE  Range(Append(q, e)) = Range(q) \cup {e}
<1> DEFINE a == Append(q, e)
<1>1. DOMAIN q = 1..Len(q) /\ DOMAIN a = 1..(Len(q) + 1) /\ Len(q) \in Nat
  OBVIOUS
<1>2. /\ a[Len(q) + 1] = e
      /\ \A i \in 1..Len(q) : a[i] = q[i]
  OBVIOUS
<1>3. Range(a) = {a[i] : i \in 1..(Len(q) + 1)} /\ Range(q) = {q[i] : i \in 1..Len(q)}
  BY <1>1, Zenon DEF Range
<1>4. ASSUME NEW v PROVE v \in Range(a) <=> v \in Range(q) \cup {e}
  <2>1. \A i \in 1..(Len(q) + 1) : i \in 1..Len(q) \/ i = Len(q) + 1
    BY <1>1
  <2>2. \A i \in 1..Len(q) : i \in 1..(Len(q) + 1)
    BY <1>1
  <2>3. Len(q) + 1 \in 1..(Len(q) + 1)
    BY <1>1
  <2> QED BY <1>2, <1>3, <2>1, <2>2, <2>3, Zenon
<1> QED BY <1>4, Zenon

(* The messages of a coordinator are told apart by their type and their    *)
(* server.                                                                 *)
LEMMA TasksDistinct ==
    /\ \A s \in Servers : Local(s) \in News /\ Msg("REMOTESERVER", s) \in News
    /\ \A t \in News : t \in Tasks /\ t.server \in Servers
    /\ \A t \in Tasks : t.type = "LOCALSERVER" =>
         t.server \in Servers /\ t = Local(t.server)
    /\ \A t \in Tasks : t.type = "REMOTESERVER" =>
         t.server \in Servers /\ t = Msg("REMOTESERVER", t.server)
    /\ \A t \in News : t.type \in {"LOCALSERVER", "REMOTESERVER"}
    /\ Rounds \in Tasks /\ Rounds.type = "BROADCAST_LOCALS"
    /\ \A s, r : Local(s) = Local(r) => s = r
    /\ \A s : Local(s).type = "LOCALSERVER" /\ Local(s).server = s
    /\ \A s : /\ Msg("REMOTESERVER", s).type = "REMOTESERVER"
            /\ Msg("REMOTESERVER", s).server = s
<1>1. \A s \in Servers : Local(s) \in Tasks /\ Msg("REMOTESERVER", s) \in Tasks
  BY DEF Tasks, Local
<1>2. Rounds \in Tasks
  BY DEF Tasks
<1>3. ASSUME NEW t \in Tasks
      PROVE  \/ \E s \in Servers : t = Local(s) \/ t = Msg("REMOTESERVER", s)
             \/ t = Rounds
  BY DEF Tasks, Local
<1>4. /\ \A s : Local(s).type = "LOCALSERVER" /\ Local(s).server = s
      /\ \A s : /\ Msg("REMOTESERVER", s).type = "REMOTESERVER"
              /\ Msg("REMOTESERVER", s).server = s
      /\ Rounds.type = "BROADCAST_LOCALS"
  BY Zenon DEF Local, Msg, Rounds
<1> QED BY <1>1, <1>2, <1>3, <1>4 DEF News

(* The types hold initially.                                               *)
LEMMA TypedInit == Init => Typed
<1> SUFFICES ASSUME Init PROVE Typed
  BY Zenon
<1>1. PICK test \in Tests :
        /\ OneSysFlag = test.OneSysFlag
        /\ srv = [s \in Servers |-> IF s \in test.servers THEN "down" ELSE "absent"]
  BY Zenon DEF Init
<1>2. OneSysFlag \in BOOLEAN
  BY <1>1, ConstantsAssumption, Zenon
<1> QED BY <1>1, <1>2 DEF Init, Typed

(* Every step keeps the types.                                             *)
LEMMA TypedStep == Typed /\ [Next]_vars => Typed'
<1> SUFFICES ASSUME Typed, [Next]_vars PROVE Typed'
  BY Zenon
<1> USE DEF lists, servers, timer, procs, children, net, history
<1>1. ASSUME NEW s \in Servers, SetUpCoord(s) PROVE Typed'
  BY <1>1, Zenon DEF Typed, SetUpCoord
<1>2. ASSUME NEW s \in Servers, Register(s) PROVE Typed'
  <2>1. HostOf[s] \in Hosts /\ Local(s) \in Messages
    BY ConstantsAssumption, TasksDistinct, Zenon DEF Messages
  <2>2. stream' \in [Hosts -> Seq(Messages)]
    BY <1>2, <2>1 DEF Typed, Register, Local
  <2> QED BY <1>2, <2>2, Zenon DEF Typed, Register
<1>3. ASSUME NEW s \in Servers, Listen(s) PROVE Typed'
  BY <1>3, Zenon DEF Typed, Listen
<1>4. ASSUME NEW s \in Servers, End(s) PROVE Typed'
  <2>1. HostOf[s] \in Hosts /\ Msg("SHUTDOWN", None) \in Messages
    BY ConstantsAssumption, Zenon DEF Messages
  <2>2. stream' \in [Hosts -> Seq(Messages)]
    <3>1. CASE UNCHANGED stream
      BY <3>1, Zenon DEF Typed
    <3>2. CASE stream' = [stream EXCEPT ![HostOf[s]] = Append(@, Msg("SHUTDOWN", None))]
      BY <3>2, <2>1 DEF Typed
    <3> QED BY <1>4, <3>1, <3>2, Zenon DEF End
  <2> QED BY <1>4, <2>2, Zenon DEF Typed, End
<1>5. ASSUME NEW h \in Hosts, Select(h) PROVE Typed'
  BY <1>5, Zenon DEF Typed, Select
<1>60. ASSUME NEW h \in Hosts, NEW task \in Tasks, Fork(h, task)
       PROVE  waiting' \in [Hosts -> [Tasks -> Nat]]
  BY <1>60 DEF Typed, Fork
<1>6. ASSUME NEW h \in Hosts, NEW m \in Messages, Receive(h, m)
      PROVE  waiting' \in [Hosts -> [Tasks -> Nat]]
  <2>1. ShouldFork(h, m) => m \in Tasks
    BY DEF Messages, ShouldFork, Msg
  <2>2. CASE ShouldFork(h, m)
    BY <1>6, <1>60, <2>1, <2>2, Zenon DEF Receive
  <2>3. CASE ~ShouldFork(h, m)
    BY <1>6, <2>3, Zenon DEF Receive, Typed
  <2> QED BY <2>2, <2>3, Zenon
<1>7. ASSUME NEW h \in Hosts, Timeout(h) PROVE Typed'
  <2>1. waiting' \in [Hosts -> [Tasks -> Nat]]
    <3>1. Fork(h, Rounds) \/ UNCHANGED waiting
      BY <1>7, Zenon DEF Timeout
    <3> QED BY <1>60, <3>1, TasksDistinct, Zenon DEF Typed
  <2> QED BY <1>7, <2>1, Zenon DEF Typed, Timeout
<1>8. ASSUME NEW h \in Hosts, ReceiveStream(h) PROVE Typed'
  <2>1. stream[h] \in Seq(Messages) /\ stream[h] # <<>>
    BY <1>8, Zenon DEF Typed, ReceiveStream
  <2>2. Head(stream[h]) \in Messages /\ Tail(stream[h]) \in Seq(Messages)
    BY <2>1
  <2>3. waiting' \in [Hosts -> [Tasks -> Nat]]
    BY <1>6, <1>8, <2>2, Zenon DEF ReceiveStream
  <2>4. stream' \in [Hosts -> Seq(Messages)]
    BY <1>8, <2>2, Zenon DEF Typed, ReceiveStream
  <2> QED BY <1>8, <2>3, <2>4, Zenon DEF Typed, ReceiveStream, Receive
<1>9. ASSUME NEW h \in Hosts, NEW s \in Servers, ReceiveDgram(h, s) PROVE Typed'
  <2>1. waiting' \in [Hosts -> [Tasks -> Nat]]
    BY <1>6, <1>9, TasksDistinct, Zenon DEF ReceiveDgram, Messages
  <2> QED BY <1>9, <2>1, Zenon DEF Typed, ReceiveDgram, Receive
<1>10. ASSUME NEW h \in Hosts, OldInfo(h) PROVE Typed'
  BY <1>10, Zenon DEF Typed, OldInfo
<1>11. ASSUME NEW h \in Hosts, NEW task \in Tasks, Enter(h, task)
       PROVE  waiting' \in [Hosts -> [Tasks -> Nat]]
  BY <1>11 DEF Typed, Enter
<1>12. ASSUME NEW h \in Hosts PROVE Initialised(h) \subseteq Servers
  BY DEF Typed, Initialised, Range
<1>13. ASSUME NEW h \in Hosts, NEW s \in Servers, LocalServer(h, s) PROVE Typed'
  <2>1. waiting' \in [Hosts -> [Tasks -> Nat]]
    BY <1>11, <1>13, TasksDistinct, Zenon DEF LocalServer, Local
  <2>2. LocalIDs' \in [Hosts -> Seq(Servers)]
    BY <1>13 DEF Typed, LocalServer
  <2>3. Others(h, s) \subseteq Servers
    BY <1>12, Zenon DEF Others
  <2>4. holder'[h] \in Holders
    <3> DEFINE todo == {Send(1, s, "REMOTESERVER", r) : r \in RemoteIDs[h]}
                       \cup {Send(2, r, "LOCALSERVER", s) : r \in Others(h, s)}
                       \cup {Send(3, s, "LOCALSERVER", r) : r \in Others(h, s)}
    <3>1. \A x \in todo : x \in Sends
      BY <2>3, TasksDistinct DEF Typed, Send, Sends, Local
    <3>2. holder'[h] = [task |-> Local(s), todo |-> todo]
      BY <1>13, Zenon DEF LocalServer, Typed, Local
    <3> HIDE DEF todo
    <3> QED BY <3>1, <3>2, TasksDistinct DEF Holders
  <2>5. holder' \in [Hosts -> {Free} \cup Holders]
    BY <1>13, <2>4, Zenon DEF LocalServer, Typed
  <2> QED BY <1>13, <2>1, <2>2, <2>5, Zenon DEF Typed, LocalServer
<1>14. ASSUME NEW h \in Hosts, NEW s \in Servers, RemServer(h, s) PROVE Typed'
  <2>1. waiting' \in [Hosts -> [Tasks -> Nat]]
    BY <1>11, <1>14, TasksDistinct, Zenon DEF RemServer
  <2>2. /\ RemoteIDs' \in [Hosts -> SUBSET Servers]
        /\ RemoteAddr' \in [Hosts -> SUBSET Hosts]
    BY <1>14, ConstantsAssumption DEF Typed, RemServer
  <2>4. holder'[h] \in Holders
    <3> DEFINE from == HostOf[s]
               todo == {Send(1, r, "REMOTESERVER", s) : r \in Initialised(h)}
                       \cup {Send(2, from, "REMOTESERVER", r) : r \in Initialised(h)}
                       \cup {Send(3, g, "REMOTESERVER", s) :
                                g \in IF from \in RemoteAddr[h] THEN {}
                                      ELSE RemoteAddr[h] \cup {from}}
    <3>1. \A x \in todo : x \in Sends
      BY <1>12, TasksDistinct, ConstantsAssumption DEF Typed, Send, Sends
    <3>2. holder'[h] = [task |-> Msg("REMOTESERVER", s), todo |-> todo]
      BY <1>14, Zenon DEF RemServer, Typed
    <3> HIDE DEF todo
    <3> QED BY <3>1, <3>2, TasksDistinct DEF Holders
  <2>5. holder' \in [Hosts -> {Free} \cup Holders]
    BY <1>14, <2>4, Zenon DEF RemServer, Typed
  <2> QED BY <1>14, <2>1, <2>2, <2>5, Zenon DEF Typed, RemServer
<1>15. ASSUME NEW h \in Hosts, NEW s \in Servers, IgnoreRemote(h, s) PROVE Typed'
  <2>1. waiting' \in [Hosts -> [Tasks -> Nat]]
    BY <1>11, <1>15, TasksDistinct, Zenon DEF IgnoreRemote
  <2> QED BY <1>15, <2>1, Zenon DEF Typed, IgnoreRemote
<1>16. ASSUME NEW h \in Hosts, Announce(h) PROVE Typed'
  BY <1>16, Zenon DEF Typed, Announce
<1>17. ASSUME NEW h \in Hosts, Release(h) PROVE Typed'
  BY <1>17, Zenon DEF Typed, Release
<1>18. ASSUME NEW h \in Hosts, BroadcastLocals(h) PROVE Typed'
  <2>1. waiting' \in [Hosts -> [Tasks -> Nat]]
    BY <1>11, <1>18, TasksDistinct, Zenon DEF BroadcastLocals
  <2> QED BY <1>18, <2>1, Zenon DEF Typed, BroadcastLocals
<1>19. ASSUME NEW h \in Hosts, StoreAlarm(h) \/ StoreRemaining(h) PROVE Typed'
  BY <1>19, Zenon DEF Typed, StoreAlarm, StoreRemaining
<1>20. ASSUME NEW h \in Hosts, NEW x \in holder[h].todo, Deliver(h, x) PROVE Typed'
  <2>1. holder[h] \in Holders /\ x \in Sends
    BY DEF Typed, Free, Holders
  <2>2. x.to \in Servers \cup Hosts /\ x.msg \in Messages /\ x.msg.server \in Servers
    BY <2>1, TasksDistinct, Zenon DEF Sends, Messages
  <2>3. [holder[h] EXCEPT !.todo = @ \ {x}] \in Holders
    BY <2>1, Zenon DEF Holders
  <2>4. holder' \in [Hosts -> {Free} \cup Holders]
    BY <1>20, <2>3, Zenon DEF Typed, Deliver
  <2>5. stream' \in [Hosts -> Seq(Messages)]
    <3>1. CASE UNCHANGED stream
      BY <3>1, Zenon DEF Typed
    <3>2. CASE x.to \notin Servers /\ stream' = [stream EXCEPT ![x.to] = Append(@, x.msg)]
      BY <2>2, <3>2 DEF Typed
    <3> QED BY <1>20, <3>1, <3>2, Zenon DEF Deliver
  <2>6. told' \in [Servers -> [Servers -> Nat]]
    <3>1. CASE UNCHANGED told
      BY <3>1, Zenon DEF Typed
    <3>2. CASE x.to \in Servers /\ told' = [told EXCEPT ![x.to][x.msg.server] = @ + 1]
      BY <2>2, <3>2 DEF Typed
    <3> QED BY <1>20, <3>1, <3>2, Zenon DEF Deliver
  <2> QED BY <1>20, <2>4, <2>5, <2>6, Zenon DEF Typed, Deliver
<1>21. ASSUME NEW h \in Hosts, NEW x \in holder[h].todo, SendFails(h, x) PROVE Typed'
  BY <1>21, Zenon DEF Typed, SendFails
<1>22. ASSUME NEW h \in Hosts, NEW s \in Servers, Lose(h, s) PROVE Typed'
  BY <1>22, Zenon DEF Typed, Lose
<1>23. CASE UNCHANGED vars
  BY <1>23, Zenon DEF Typed, vars
<1> QED BY <1>1, <1>2, <1>3, <1>4, <1>5, <1>7, <1>8, <1>9, <1>10, <1>13, <1>14, <1>15,
           <1>16, <1>17, <1>18, <1>19, <1>20, <1>21, <1>22, <1>23, Zenon
        DEF Next, ServerStep, Parent, Children, SendStreamMsg

(* The lists of a host hold servers.                                       *)
LEMMA InitialisedListed ==
    ASSUME Typed, NEW h \in Hosts
    PROVE  Range(LocalIDs[h]) \subseteq Servers /\ Initialised(h) \subseteq Servers
BY DEF Typed, Initialised, Range

(* What the child inside COORD_SEM has left to send is well-formed; a free *)
(* semaphore has nothing left.                                             *)
LEMMA HolderFacts ==
    ASSUME Typed, NEW h \in Hosts
    PROVE  /\ Free.todo = {}
           /\ \A x \in holder[h].todo :
                /\ holder[h] # Free /\ holder[h] \in Holders /\ holder[h].task \in News
                /\ x \in Sends /\ x.msg \in News /\ x.msg.server \in Servers
                /\ x.to \in Servers \cup Hosts
           /\ holder[h] # Free => holder[h] \in Holders /\ holder[h].task \in News
<1>1. Free.todo = {}
  BY Zenon DEF Free
<1>2. holder[h] # Free => holder[h] \in Holders /\ holder[h].task \in News
  BY Zenon DEF Typed, Holders
<1>3. ASSUME NEW x \in holder[h].todo
      PROVE  /\ holder[h] # Free /\ x \in Sends /\ x.msg \in News
             /\ x.msg.server \in Servers /\ x.to \in Servers \cup Hosts
  <2>1. holder[h] # Free
    BY <1>1, Zenon
  <2>2. x \in Sends
    BY <1>2, <2>1, Zenon DEF Holders
  <2>3. x.msg \in News /\ x.to \in Servers \cup Hosts
    BY <2>2, Zenon DEF Sends
  <2> QED BY <2>1, <2>2, <2>3, TasksDistinct, Zenon
<1> QED BY <1>1, <1>2, <1>3, Zenon

(***************************************************************************)
(* The registration of a server with its coordinator.  Registration follows *)
(* the one message by which a server registers: it is in the stream of the *)
(* coordinator, or a child for it waits, or the server is listed, and no   *)
(* two of these.                                                           *)
(***************************************************************************)
(* The server has not registered yet.                                      *)
New(s) == srv[s] \in {"absent", "down", "started"}
Listed(s) == s \in Range(LocalIDs[HostOf[s]])
(* The child inside COORD_SEM of h handles a server of its own.            *)
Admits(h) == holder[h] # Free /\ holder[h].task.type = "LOCALSERVER"

Queued(s) == \A h \in Hosts : \A i \in 1..Len(stream[h]) :
    stream[h][i] = Local(s) =>
      /\ h = HostOf[s] /\ ~New(s) /\ ~Listed(s) /\ waiting[h][Local(s)] = 0
      /\ \A j \in 1..Len(stream[h]) : stream[h][j] = Local(s) => j = i

Forked(s) == \A h \in Hosts :
    waiting[h][Local(s)] # 0 =>
      /\ h = HostOf[s] /\ ~New(s) /\ ~Listed(s) /\ waiting[h][Local(s)] = 1

AdmitsNew(h) == LET t == holder[h].task.server IN
    t \in Servers /\ HostOf[t] = h /\ Listed(t) /\ ~ServerIDinit[t]

Registration ==
    /\ \A s \in Servers : Queued(s) /\ Forked(s)
    /\ \A s \in Servers : Listed(s) => ~New(s)
    /\ \A s \in Servers : ServerIDinit[s] => Listed(s)
    /\ \A h \in Hosts : \A s \in Range(LocalIDs[h]) : HostOf[s] = h
    /\ \A h \in Hosts : Admits(h) => AdmitsNew(h)
    /\ \A h \in Hosts : \A x \in holder[h].todo :
         x.to \notin Servers => x.msg.type = "REMOTESERVER"

-----------------------------------------------------------------------------
(* Initially nobody has registered.                                        *)
LEMMA RegistrationInit == Init => Registration
<1> SUFFICES ASSUME Init PROVE Registration
  BY Zenon
<1>1. \A h \in Hosts : Len(stream[h]) = 0 /\ Range(LocalIDs[h]) = {} /\ holder[h] = Free
  BY DEF Init, Range
<1>2. \A s \in Servers : ServerIDinit[s] = FALSE /\ HostOf[s] \in Hosts
  BY ConstantsAssumption, Zenon DEF Init
<1>3. \A h \in Hosts, s \in Servers : waiting[h][Local(s)] = 0
  BY TasksDistinct, Zenon DEF Init
<1>4. \A s \in Servers : Queued(s) /\ Forked(s)
  BY <1>1, <1>3 DEF Queued, Forked
<1>5. \A s \in Servers : ~Listed(s)
  BY <1>1, <1>2, Zenon DEF Listed
<1>6. Free.todo = {}
  BY Zenon DEF Free
<1>7. \A h \in Hosts : ~Admits(h) /\ holder[h].todo = {}
  BY <1>1, <1>6, Zenon DEF Admits
<1> QED BY <1>1, <1>2, <1>4, <1>5, <1>7, Zenon DEF Registration

(* The registration of s is where it was.                                  *)
LEMMA Untouched ==
    ASSUME NEW s \in Servers, Queued(s), Forked(s),
           \A h \in Hosts : \A i \in 1..Len(stream'[h]) :
             stream'[h][i] = Local(s) => i \in 1..Len(stream[h]) /\ stream[h][i] = Local(s),
           \A h \in Hosts : waiting'[h][Local(s)] = waiting[h][Local(s)],
           New(s)' => New(s), Listed(s)' => Listed(s)
    PROVE  Queued(s)' /\ Forked(s)'
<1>1. Forked(s)'
  BY Zenon DEF Forked
<1>2. Queued(s)'
  BY DEF Queued
<1> QED BY <1>1, <1>2, Zenon

(* Nothing but the place of servers has changed.                           *)
LEMMA RegistrationKept ==
    ASSUME Registration,
           UNCHANGED <<stream, LocalIDs, ServerIDinit, holder>>,
           \A h \in Hosts, s \in Servers : waiting'[h][Local(s)] = waiting[h][Local(s)],
           \A s \in Servers : New(s)' => New(s)
    PROVE  Registration'
<1>1. \A s \in Servers : Listed(s)' = Listed(s)
  BY Zenon DEF Listed
<1>2. ASSUME NEW s \in Servers PROVE Queued(s)' /\ Forked(s)'
  BY <1>1, Untouched, Zenon DEF Registration
<1>3. \A h \in Hosts : Admits(h)' = Admits(h) /\ AdmitsNew(h)' = AdmitsNew(h)
  BY Zenon DEF Admits, AdmitsNew, Listed
<1> QED BY <1>1, <1>2, <1>3, Zenon DEF Registration

(* A message to a coordinator is appended that registers nobody.           *)
LEMMA OtherMessage ==
    ASSUME Typed, Registration, NEW g \in Hosts, NEW m \in Messages,
           m.type # "LOCALSERVER", stream' = [stream EXCEPT ![g] = Append(@, m)],
           NEW s \in Servers
    PROVE  \A h \in Hosts : \A i \in 1..Len(stream'[h]) :
             stream'[h][i] = Local(s) => i \in 1..Len(stream[h]) /\ stream[h][i] = Local(s)
<1> SUFFICES ASSUME NEW h \in Hosts, NEW i \in 1..Len(stream'[h]), stream'[h][i] = Local(s)
             PROVE  i \in 1..Len(stream[h]) /\ stream[h][i] = Local(s)
  BY Zenon
<1>1. CASE h # g
  BY <1>1, Zenon DEF Typed
<1>2. CASE h = g
  <2>1. stream[g] \in Seq(Messages) /\ stream'[g] = Append(stream[g], m)
    BY Zenon DEF Typed
  <2>2. /\ Len(stream'[g]) = Len(stream[g]) + 1 /\ Len(stream[g]) \in Nat
        /\ stream'[g][Len(stream[g]) + 1] = m
        /\ \A j \in 1..Len(stream[g]) : stream'[g][j] = stream[g][j]
    BY <2>1
  <2>3. m # Local(s)
    BY TasksDistinct, Zenon
  <2> QED BY <1>2, <2>2, <2>3
<1> QED BY <1>1, <1>2, Zenon

(* main of hxecom.c sends the one registration of a server, which had none *)
(* under way before.                                                       *)
LEMMA RegisterStep ==
    ASSUME Typed, Registration, NEW s \in Servers, Register(s)
    PROVE  Registration'
<1> DEFINE h == HostOf[s]
           n == Len(stream[h])
<1>1. h \in Hosts /\ New(s) /\ ~Listed(s) /\ ~ServerIDinit[s]
  BY ConstantsAssumption, Zenon DEF Register, Registration, New
<1>2. UNCHANGED <<LocalIDs, ServerIDinit, holder, waiting>>
  BY Zenon DEF Register, lists, children
<1>3. \A r \in Servers : (New(r)' => New(r)) /\ (r # s => (New(r)' = New(r))) /\ ~New(s)'
  BY Zenon DEF Register, New, Typed
<1>4. CASE ~Up(h)
  BY <1>2, <1>3, <1>4, RegistrationKept, Zenon DEF Register
<1>5. CASE Up(h)
  <2>1. stream[h] \in Seq(Messages) /\ stream' = [stream EXCEPT ![h] = Append(@, Local(s))]
    BY <1>1, <1>5, Zenon DEF Register, Typed, Local
  <2>2. /\ Len(stream'[h]) = n + 1 /\ n \in Nat /\ stream'[h][n + 1] = Local(s)
        /\ \A j \in 1..n : stream'[h][j] = stream[h][j]
        /\ \A g \in Hosts : g # h => stream'[g] = stream[g]
    <3> HIDE DEF h
    <3>1. stream'[h] = Append(stream[h], Local(s)) /\ Local(s) \in Messages
      BY <1>1, <2>1, TasksDistinct, Zenon DEF Typed, Messages
    <3> QED BY <1>1, <2>1, <3>1 DEF Typed
  <2>3. \A r \in Servers : Listed(r)' = Listed(r)
    BY <1>2, Zenon DEF Listed
  <2>4. ASSUME NEW r \in Servers, r # s PROVE Queued(r)' /\ Forked(r)'
    <3>1. Local(r) # Local(s)
      BY <2>4, TasksDistinct, Zenon
    <3>2. ASSUME NEW g \in Hosts, NEW i \in 1..Len(stream'[g]), stream'[g][i] = Local(r)
          PROVE  i \in 1..Len(stream[g]) /\ stream[g][i] = Local(r)
      <4> HIDE DEF h
      <4> QED BY <2>2, <3>1, <3>2
    <3> QED BY <1>2, <1>3, <2>3, <3>2, Untouched, Zenon DEF Registration
  <2>5. Queued(s)' /\ Forked(s)'
    <3>1. \A g \in Hosts : waiting[g][Local(s)] = 0
      BY <1>1, Zenon DEF Registration, Forked
    <3>2. \A g \in Hosts : \A i \in 1..Len(stream[g]) : stream[g][i] # Local(s)
      BY <1>1, Zenon DEF Registration, Queued
    <3>3. Forked(s)'
      BY <1>2, <3>1, Zenon DEF Forked
    <3>4. ASSUME NEW g \in Hosts, NEW i \in 1..Len(stream'[g]), stream'[g][i] = Local(s)
          PROVE  g = h /\ i = n + 1
      <4> HIDE DEF h
      <4> QED BY <2>2, <3>2, <3>4
    <3>5. Queued(s)'
      BY <1>1, <1>2, <1>3, <2>3, <3>1, <3>4, Zenon DEF Queued
    <3> QED BY <3>3, <3>5, Zenon
  <2>6. \A g \in Hosts : Admits(g)' = Admits(g) /\ AdmitsNew(g)' = AdmitsNew(g)
    BY <1>2, Zenon DEF Admits, AdmitsNew, Listed
  <2> QED BY <1>1, <1>2, <1>3, <2>3, <2>4, <2>5, <2>6, Zenon DEF Registration
<1> QED BY <1>4, <1>5, Zenon

(* The parent takes a registration from its stream and forks the one child *)
(* for it, or takes another message and disturbs no registration.          *)
LEMMA ReceiveStreamStep ==
    ASSUME Typed, Registration, NEW h \in Hosts, ReceiveStream(h)
    PROVE  Registration'
<1> DEFINE n == Len(stream[h])
           m == Head(stream[h])
<1>1. UNCHANGED <<srv, LocalIDs, ServerIDinit, holder>>
  BY Zenon DEF ReceiveStream, Receive, lists, servers
<1>2. \A s \in Servers : New(s)' = New(s) /\ Listed(s)' = Listed(s)
  BY <1>1, Zenon DEF New, Listed
<1>3. /\ n \in Nat /\ n > 0 /\ m = stream[h][1] /\ m \in Messages
      /\ Len(stream'[h]) = n - 1
      /\ \A i \in 1..(n - 1) : stream'[h][i] = stream[h][i + 1]
      /\ \A g \in Hosts : g # h => stream'[g] = stream[g]
  <2>1. stream[h] \in Seq(Messages) /\ stream[h] # <<>> /\ stream'[h] = Tail(stream[h])
    BY Zenon DEF ReceiveStream, Typed
  <2>2. \A g \in Hosts : g # h => stream'[g] = stream[g]
    BY Zenon DEF ReceiveStream, Typed
  <2> QED BY <2>1, <2>2
<1>4. /\ ShouldFork(h, m) => m \in Tasks /\ waiting' = [waiting EXCEPT ![h][m] = @ + 1]
      /\ ~ShouldFork(h, m) => waiting' = waiting
  BY <1>3 DEF ReceiveStream, Receive, Fork, ShouldFork, Messages, Msg
<1>5. ASSUME NEW s \in Servers, m # Local(s) PROVE Queued(s)' /\ Forked(s)'
  <2>1. \A g \in Hosts : waiting'[g][Local(s)] = waiting[g][Local(s)]
    <3> HIDE DEF m
    <3>1. CASE m \in Tasks /\ waiting' = [waiting EXCEPT ![h][m] = @ + 1]
      BY <1>5, <3>1, TasksDistinct DEF Typed
    <3> QED BY <1>4, <3>1, Zenon
  <2>2. Forked(s)'
    BY <1>2, <2>1, Zenon DEF Forked, Registration
  <2>3. Queued(s)'
    <3> SUFFICES ASSUME NEW g \in Hosts, NEW i \in 1..Len(stream'[g]), stream'[g][i] = Local(s)
                 PROVE  /\ g = HostOf[s] /\ ~New(s) /\ ~Listed(s) /\ waiting[g][Local(s)] = 0
                        /\ \A j \in 1..Len(stream'[g]) : stream'[g][j] = Local(s) => j = i
      BY <1>2, <2>1, Zenon DEF Queued
    <3>1. Queued(s)
      BY Zenon DEF Registration
    <3>2. CASE g # h
      <4>1. stream'[g] = stream[g]
        BY <1>3, <3>2, Zenon
      <4> QED BY <3>1, <4>1, Zenon DEF Queued
    <3>3. CASE g = h
      <4>1. \A j \in 1..(n - 1) : j + 1 \in 1..n
        BY <1>3
      <4>2. i \in 1..(n - 1) /\ stream[h][i + 1] = Local(s) /\ i + 1 \in 1..n
        BY <1>3, <3>3, <4>1, Zenon
      <4>3. \A j \in 1..n : stream[h][j] = Local(s) => j = i + 1
        BY <3>1, <4>2, Zenon DEF Queued
      <4>4. ASSUME NEW j \in 1..(n - 1), stream'[h][j] = Local(s) PROVE j = i
        <5>1. stream[h][j + 1] = Local(s) /\ j + 1 \in 1..n
          BY <1>3, <4>1, <4>4, Zenon
        <5>2. j + 1 = i + 1
          BY <4>3, <5>1, Zenon
        <5> QED BY <5>2
      <4> QED BY <1>3, <3>1, <3>3, <4>2, <4>4, Zenon DEF Queued
    <3> QED BY <3>2, <3>3, Zenon
  <2> QED BY <2>2, <2>3, Zenon
<1>6. ASSUME NEW s \in Servers, m = Local(s) PROVE Queued(s)' /\ Forked(s)'
  <2>1. /\ h = HostOf[s] /\ ~New(s) /\ ~Listed(s) /\ waiting[h][Local(s)] = 0
        /\ \A j \in 1..n : stream[h][j] = Local(s) => j = 1
    <3>1. 1 \in 1..n
      BY <1>3
    <3> QED BY <1>3, <1>6, <3>1 DEF Registration, Queued
  <2>2. ShouldFork(h, m)
    BY <1>6, TasksDistinct, Zenon DEF ShouldFork
  <2>3. /\ waiting'[h][Local(s)] = 1
        /\ \A g \in Hosts : g # h => waiting'[g] = waiting[g]
    BY <1>4, <1>6, <2>1, <2>2 DEF Typed
  <2>4. Forked(s)'
    BY <1>2, <2>1, <2>3 DEF Forked, Registration
  <2>5. ASSUME NEW g \in Hosts, NEW i \in 1..Len(stream'[g]) PROVE stream'[g][i] # Local(s)
    <3>1. CASE g # h
      BY <1>3, <2>1, <3>1 DEF Registration, Queued
    <3>2. CASE g = h
      <4>1. i \in 1..(n - 1) /\ i + 1 \in 1..n /\ i + 1 # 1
        BY <1>3, <3>2
      <4> QED BY <1>3, <2>1, <3>2, <4>1
    <3> QED BY <3>1, <3>2, Zenon
  <2> QED BY <2>4, <2>5, Zenon DEF Queued
<1>7. \A g \in Hosts : Admits(g)' = Admits(g) /\ AdmitsNew(g)' = AdmitsNew(g)
  BY <1>1, Zenon DEF Admits, AdmitsNew, Listed
<1> QED BY <1>1, <1>2, <1>5, <1>6, <1>7, Zenon DEF Registration

(* What LocalServer finds: the server is of this host and not listed; and  *)
(* what it leaves.                                                         *)
LEMMA LocalServerFinds ==
    ASSUME Typed, Registration, NEW h \in Hosts, NEW s \in Servers, LocalServer(h, s)
    PROVE  /\ h = HostOf[s] /\ ~New(s) /\ ~Listed(s) /\ ~ServerIDinit[s]
           /\ waiting[h][Local(s)] = 1 /\ waiting' = [waiting EXCEPT ![h][Local(s)] = @ - 1]
           /\ Listed(s)' /\ \A r \in Servers : r # s => (Listed(r)' <=> Listed(r))
           /\ Range(LocalIDs'[h]) = Range(LocalIDs[h]) \cup {s}
           /\ \A g \in Hosts : g # h => LocalIDs'[g] = LocalIDs[g]
<1>1. Local(s) \in Tasks
  BY TasksDistinct, Zenon
<1>2. waiting[h][Local(s)] > 0 /\ waiting' = [waiting EXCEPT ![h][Local(s)] = @ - 1]
  BY Zenon DEF LocalServer, Enter, Local
<1>3. h = HostOf[s] /\ ~New(s) /\ ~Listed(s) /\ waiting[h][Local(s)] = 1
  BY <1>2 DEF Registration, Forked
<1>4. /\ LocalIDs'[h] = Append(LocalIDs[h], s) /\ LocalIDs[h] \in Seq(Servers)
      /\ \A g \in Hosts : g # h => LocalIDs'[g] = LocalIDs[g]
  BY Zenon DEF LocalServer, Typed
<1>5. Range(LocalIDs'[h]) = Range(LocalIDs[h]) \cup {s}
  BY <1>4, RangeAppend
<1>6. \A r \in Servers : HostOf[r] \in Hosts
  BY ConstantsAssumption, Zenon
<1>7. Listed(s)'
  BY <1>3, <1>5, Zenon DEF Listed
<1>8. ASSUME NEW r \in Servers, r # s PROVE Listed(r)' <=> Listed(r)
  BY <1>4, <1>5, <1>6, <1>8, Zenon DEF Listed
<1>9. ~ServerIDinit[s]
  BY <1>3, Zenon DEF Registration
<1> QED BY <1>2, <1>3, <1>4, <1>5, <1>7, <1>8, <1>9, Zenon

(* Every step keeps each registration in one place: stream, waiting child  *)
(* or list.                                                                *)
LEMMA RegistrationStep == Typed /\ Registration /\ [Next]_vars => Registration'
<1> SUFFICES ASSUME Typed, Registration, [Next]_vars PROVE Registration'
  BY Zenon
<1> USE DEF lists, servers, timer, procs, children, net, history
<1>1. ASSUME NEW s \in Servers, SetUpCoord(s) \/ Listen(s) PROVE Registration'
  <2>1. UNCHANGED <<stream, LocalIDs, ServerIDinit, holder, waiting>>
    BY <1>1, Zenon DEF SetUpCoord, Listen
  <2>2. \A r \in Servers : New(r)' => New(r)
    BY <1>1, Zenon DEF SetUpCoord, Listen, New, Typed
  <2> QED BY <2>1, <2>2, RegistrationKept, Zenon
<1>2. ASSUME NEW s \in Servers, End(s) PROVE Registration'
  <2>1. UNCHANGED <<LocalIDs, ServerIDinit, holder, waiting>>
    BY <1>2, Zenon DEF End
  <2>2. \A r \in Servers : New(r)' => New(r)
    BY <1>2, Zenon DEF End, New, Typed
  <2>3. CASE UNCHANGED stream
    BY <2>1, <2>2, <2>3, RegistrationKept, Zenon
  <2>4. CASE stream' = [stream EXCEPT ![HostOf[s]] = Append(@, Msg("SHUTDOWN", None))]
    <3>1. /\ HostOf[s] \in Hosts /\ Msg("SHUTDOWN", None) \in Messages
          /\ Msg("SHUTDOWN", None).type # "LOCALSERVER"
      BY ConstantsAssumption, Zenon DEF Messages, Msg
    <3>2. \A r \in Servers : Listed(r)' = Listed(r)
      BY <2>1, Zenon DEF Listed
    <3>3. ASSUME NEW r \in Servers PROVE Queued(r)' /\ Forked(r)'
      BY <2>1, <2>2, <2>4, <3>1, <3>2, OtherMessage, Untouched, Zenon DEF Registration
    <3>4. \A g \in Hosts : Admits(g)' = Admits(g) /\ AdmitsNew(g)' = AdmitsNew(g)
      BY <2>1, Zenon DEF Admits, AdmitsNew, Listed
    <3> QED BY <2>1, <2>2, <3>2, <3>3, <3>4, Zenon DEF Registration
  <2> QED BY <1>2, <2>3, <2>4, Zenon DEF End
<1>3. ASSUME NEW h \in Hosts, NEW task \in Tasks, task.type # "LOCALSERVER",
             Fork(h, task) \/ Enter(h, task) \/ UNCHANGED waiting
      PROVE  \A g \in Hosts, s \in Servers : waiting'[g][Local(s)] = waiting[g][Local(s)]
  <2>1. \A s \in Servers : Local(s) # task /\ Local(s) \in Tasks
    BY <1>3, TasksDistinct, Zenon
  <2>2. CASE Fork(h, task)
    BY <2>1, <2>2, Zenon DEF Fork, Typed
  <2>3. CASE Enter(h, task)
    BY <2>1, <2>3, Zenon DEF Enter, Typed
  <2> QED BY <1>3, <2>2, <2>3, Zenon
<1>4. /\ Rounds \in Tasks /\ Rounds.type # "LOCALSERVER"
      /\ \A s \in Servers : /\ Msg("REMOTESERVER", s) \in Tasks
                            /\ Msg("REMOTESERVER", s).type # "LOCALSERVER"
  BY TasksDistinct, Zenon
<1>5. ASSUME UNCHANGED <<srv, stream, LocalIDs, ServerIDinit, holder>>,
             \A g \in Hosts, s \in Servers : waiting'[g][Local(s)] = waiting[g][Local(s)]
      PROVE  Registration'
  BY <1>5, RegistrationKept, Zenon DEF New
<1>6. ASSUME NEW h \in Hosts, Timeout(h) PROVE Registration'
  BY <1>3, <1>4, <1>5, <1>6, Zenon DEF Timeout
<1>7. ASSUME NEW h \in Hosts, NEW s \in Servers, ReceiveDgram(h, s) PROVE Registration'
  BY <1>3, <1>4, <1>5, <1>7, Zenon DEF ReceiveDgram, Receive
<1>8. ASSUME NEW h \in Hosts, Select(h) \/ OldInfo(h) \/ StoreAlarm(h) \/ StoreRemaining(h)
      PROVE  Registration'
  BY <1>5, <1>8, Zenon DEF Select, OldInfo, StoreAlarm, StoreRemaining
<1>9. ASSUME NEW h \in Hosts, NEW s \in Servers, IgnoreRemote(h, s) PROVE Registration'
  BY <1>3, <1>4, <1>5, <1>9, Zenon DEF IgnoreRemote
<1>10. ASSUME NEW h \in Hosts, BroadcastLocals(h) PROVE Registration'
  BY <1>3, <1>4, <1>5, <1>10, Zenon DEF BroadcastLocals
<1>11. ASSUME NEW h \in Hosts, NEW s \in Servers, Lose(h, s) PROVE Registration'
  BY <1>5, <1>11, Zenon DEF Lose
<1>12. CASE UNCHANGED vars
  BY <1>5, <1>12, Zenon DEF vars
<1>13. ASSUME NEW h \in Hosts, NEW s \in Servers, LocalServer(h, s) PROVE Registration'
  <2>1. UNCHANGED <<srv, stream, ServerIDinit>>
    BY <1>13, Zenon DEF LocalServer
  <2>2. /\ h = HostOf[s] /\ ~New(s) /\ ~Listed(s) /\ ~ServerIDinit[s]
        /\ waiting[h][Local(s)] = 1 /\ waiting' = [waiting EXCEPT ![h][Local(s)] = @ - 1]
        /\ Listed(s)' /\ \A r \in Servers : r # s => (Listed(r)' <=> Listed(r))
        /\ Range(LocalIDs'[h]) = Range(LocalIDs[h]) \cup {s}
        /\ \A g \in Hosts : g # h => LocalIDs'[g] = LocalIDs[g]
    BY <1>13, LocalServerFinds, Zenon
  <2>3. \A r \in Servers : New(r)' = New(r)
    BY <2>1, Zenon DEF New
  <2>4. ASSUME NEW r \in Servers, r # s PROVE Queued(r)' /\ Forked(r)'
    <3>1. \A g \in Hosts : waiting'[g][Local(r)] = waiting[g][Local(r)]
      <4>1. Local(r) # Local(s) /\ Local(r) \in Tasks /\ Local(s) \in Tasks
        BY <2>4, TasksDistinct, Zenon
      <4>2. waiting \in [Hosts -> [Tasks -> Nat]]
        BY Zenon DEF Typed
      <4> HIDE DEF Local
      <4> QED BY <2>2, <4>1, <4>2
    <3> QED BY <2>1, <2>2, <2>3, <2>4, <3>1, Untouched, Zenon DEF Registration
  <2>5. Queued(s)' /\ Forked(s)'
    <3>1. \A g \in Hosts : g # h => waiting[g][Local(s)] = 0
      BY <2>2, Zenon DEF Registration, Forked
    <3>2. \A g \in Hosts : waiting'[g][Local(s)] = 0
      BY <2>2, <3>1, TasksDistinct DEF Typed
    <3>3. \A g \in Hosts : \A i \in 1..Len(stream[g]) : stream[g][i] # Local(s)
      BY <2>2 DEF Registration, Queued
    <3> QED BY <2>1, <3>2, <3>3, Zenon DEF Queued, Forked
  <2>6. ASSUME NEW g \in Hosts, Admits(g)'
        PROVE  AdmitsNew(g)'
    <3>1. CASE g = h
      <4>1. holder'[h].task = Local(s)
        BY <1>13, Zenon DEF LocalServer, Typed, Local
      <4>2. holder'[g].task.server = s
        BY <3>1, <4>1, TasksDistinct, Zenon
      <4> QED BY <2>1, <2>2, <3>1, <4>2, Zenon DEF AdmitsNew, Listed
    <3>2. CASE g # h
      <4>1. holder'[g] = holder[g]
        BY <1>13, <3>2, Zenon DEF LocalServer, Typed
      <4>2. Admits(g)
        BY <2>6, <4>1, Zenon DEF Admits
      <4>3. AdmitsNew(g)
        BY <4>2, Zenon DEF Registration
      <4>4. HostOf[holder[g].task.server] = g /\ LocalIDs'[g] = LocalIDs[g]
        BY <2>2, <3>2, <4>3, Zenon DEF AdmitsNew
      <4> QED BY <2>1, <4>1, <4>3, <4>4, Zenon DEF AdmitsNew, Listed
    <3> QED BY <3>1, <3>2, Zenon
  <2>7. ASSUME NEW g \in Hosts, NEW x \in holder'[g].todo, x.to \notin Servers
        PROVE  x.msg.type = "REMOTESERVER"
    <3>1. CASE g = h
      <4>1. \A y \in holder'[h].todo : y.to \in Servers
        <5>1. Initialised(h) \subseteq Servers
          BY InitialisedListed, Zenon
        <5>2. Others(h, s) \subseteq Servers
          BY <5>1, Zenon DEF Others
        <5>3. holder'[h].todo = {Send(1, s, "REMOTESERVER", r) : r \in RemoteIDs[h]}
                                \cup {Send(2, r, "LOCALSERVER", s) : r \in Others(h, s)}
                                \cup {Send(3, s, "LOCALSERVER", r) : r \in Others(h, s)}
          BY <1>13, Zenon DEF LocalServer, Typed
        <5>4. \A n, to, type, r : Send(n, to, type, r).to = to
          BY Zenon DEF Send
        <5> QED BY <5>2, <5>3, <5>4
      <4> QED BY <2>7, <3>1, <4>1, Zenon
    <3>2. CASE g # h
      BY <1>13, <2>7, <3>2, Zenon DEF LocalServer, Typed, Registration
    <3> QED BY <3>1, <3>2, Zenon
  <2>8. \A r \in Servers : Listed(r)' => ~New(r)'
    BY <2>2, <2>3, Zenon DEF Registration
  <2>9. \A r \in Servers : ServerIDinit'[r] => Listed(r)'
    BY <2>1, <2>2, Zenon DEF Registration
  <2>10. \A g \in Hosts : \A r \in Range(LocalIDs'[g]) : HostOf[r] = g
    BY <2>2, Zenon DEF Registration
  <2> QED BY <2>4, <2>5, <2>6, <2>7, <2>8, <2>9, <2>10, Zenon DEF Registration
<1>14. ASSUME NEW h \in Hosts, UNCHANGED <<srv, stream, LocalIDs>>,
              \A g \in Hosts, s \in Servers : waiting'[g][Local(s)] = waiting[g][Local(s)],
              ~Admits(h)',
              \A x \in holder'[h].todo : x.to \notin Servers => x.msg.type = "REMOTESERVER",
              \A g \in Hosts : g # h => holder'[g] = holder[g],
              \A s \in Servers : ServerIDinit'[s] = ServerIDinit[s] \/ (HostOf[s] = h /\ Listed(s))
       PROVE  Registration'
  <2>1. \A s \in Servers : Listed(s)' = Listed(s) /\ New(s)' = New(s)
    BY <1>14, Zenon DEF Listed, New
  <2>2. ASSUME NEW s \in Servers PROVE Queued(s)' /\ Forked(s)'
    BY <1>14, <2>1, Untouched, Zenon DEF Registration
  <2>3. ASSUME NEW g \in Hosts, Admits(g)'
        PROVE  AdmitsNew(g)'
    <3>1. g # h /\ holder'[g] = holder[g] /\ Admits(g)
      BY <1>14, <2>3, Zenon DEF Admits
    <3>2. AdmitsNew(g)
      BY <3>1, Zenon DEF Registration
    <3> QED BY <1>14, <3>1, <3>2, Zenon DEF AdmitsNew, Listed
  <2>4. ASSUME NEW g \in Hosts, NEW x \in holder'[g].todo, x.to \notin Servers
        PROVE  x.msg.type = "REMOTESERVER"
    BY <1>14, <2>4, Zenon DEF Registration
  <2> QED BY <1>14, <2>1, <2>2, <2>3, <2>4, Zenon DEF Registration
<1>15. ASSUME NEW h \in Hosts, NEW s \in Servers, RemServer(h, s) PROVE Registration'
  <2>1. holder'[h].task = Msg("REMOTESERVER", s) /\ ~Admits(h)'
    BY <1>15, <1>4, Zenon DEF RemServer, Typed, Admits
  <2>2. \A x \in holder'[h].todo : x.msg.type = "REMOTESERVER"
    BY <1>15 DEF RemServer, Typed, Send, Msg
  <2>3. \A g \in Hosts : g # h => holder'[g] = holder[g]
    BY <1>15, Zenon DEF RemServer, Typed
  <2>4. UNCHANGED <<srv, stream, LocalIDs, ServerIDinit>> /\ Enter(h, Msg("REMOTESERVER", s))
    BY <1>15, Zenon DEF RemServer
  <2>5. \A g \in Hosts, r \in Servers : waiting'[g][Local(r)] = waiting[g][Local(r)]
    BY <1>3, <1>4, <2>4, Zenon
  <2> QED BY <1>14, <2>1, <2>2, <2>3, <2>4, <2>5, Zenon
<1>16. ASSUME NEW h \in Hosts, Announce(h) PROVE Registration'
  <2> DEFINE t == holder[h].task.server
  <2>1. t \in Servers /\ HostOf[t] = h /\ Listed(t)
    BY <1>16, Zenon DEF Announce, Admits, AdmitsNew, Registration
  <2>2. /\ holder'[h] = Free /\ \A g \in Hosts : g # h => holder'[g] = holder[g]
        /\ UNCHANGED <<srv, stream, LocalIDs, waiting>>
    BY <1>16, Zenon DEF Announce, Typed
  <2>3. \A s \in Servers : s # t => ServerIDinit'[s] = ServerIDinit[s]
    BY <1>16, Zenon DEF Announce, Typed
  <2>4. ~Admits(h)' /\ holder'[h].todo = {}
    BY <2>2, HolderFacts, Zenon DEF Admits
  <2> QED BY <1>14, <2>1, <2>2, <2>3, <2>4, Zenon
<1>17. ASSUME NEW h \in Hosts, holder' = [holder EXCEPT ![h] = Free],
              UNCHANGED <<srv, stream, LocalIDs, waiting, ServerIDinit>>
       PROVE Registration'
  <2>1. holder'[h] = Free /\ \A g \in Hosts : g # h => holder'[g] = holder[g]
    BY <1>17, Zenon DEF Typed
  <2>2. ~Admits(h)' /\ holder'[h].todo = {}
    BY <2>1, HolderFacts, Zenon DEF Admits
  <2> QED BY <1>14, <1>17, <2>1, <2>2, Zenon
<1>18. ASSUME NEW h \in Hosts, Release(h) PROVE Registration'
  BY <1>17, <1>18, Zenon DEF Release
<1>19. ASSUME NEW h \in Hosts, NEW x \in holder[h].todo, SendFails(h, x) PROVE Registration'
  BY <1>17, <1>19, Zenon DEF SendFails
<1>20. ASSUME NEW h \in Hosts, NEW x \in holder[h].todo, Deliver(h, x) PROVE Registration'
  <2>1. UNCHANGED <<srv, LocalIDs, ServerIDinit, waiting>>
    BY <1>20, Zenon DEF Deliver
  <2>2. \A s \in Servers : Listed(s)' = Listed(s) /\ New(s)' = New(s)
    BY <2>1, Zenon DEF Listed, New
  <2>3. /\ holder[h] \in Holders /\ holder[h] # Free
        /\ x.msg \in Messages /\ x.to \in Servers \cup Hosts
    BY HolderFacts, TasksDistinct, Zenon DEF Messages
  <2>4. ASSUME NEW s \in Servers PROVE Queued(s)' /\ Forked(s)'
    <3>1. CASE UNCHANGED stream
      BY <2>1, <2>2, <3>1, Untouched, Zenon DEF Registration
    <3>2. CASE x.to \notin Servers /\ stream' = [stream EXCEPT ![x.to] = Append(@, x.msg)]
      <4>1. x.to \in Hosts /\ x.msg.type # "LOCALSERVER"
        BY <2>3, <3>2, Zenon DEF Registration
      <4>2. \A g \in Hosts : \A i \in 1..Len(stream'[g]) :
              stream'[g][i] = Local(s) => i \in 1..Len(stream[g]) /\ stream[g][i] = Local(s)
        BY <2>3, <3>2, <4>1, OtherMessage, Zenon
      <4> QED BY <2>1, <2>2, <4>2, Untouched, Zenon DEF Registration
    <3> QED BY <1>20, <3>1, <3>2, Zenon DEF Deliver
  <2>5. /\ holder'[h].task = holder[h].task /\ holder'[h].todo = holder[h].todo \ {x}
        /\ \A g \in Hosts : g # h => holder'[g] = holder[g]
    BY <1>20, <2>3, Zenon DEF Deliver, Typed, Holders
  <2>6. ASSUME NEW g \in Hosts, Admits(g)' PROVE AdmitsNew(g)'
    <3>1. Admits(g) /\ holder'[g].task = holder[g].task
      BY <2>3, <2>5, <2>6, Zenon DEF Admits
    <3>2. AdmitsNew(g)
      BY <3>1, Zenon DEF Registration
    <3> QED BY <2>1, <3>1, <3>2, Zenon DEF AdmitsNew, Listed
  <2>7. ASSUME NEW g \in Hosts, NEW y \in holder'[g].todo PROVE y \in holder[g].todo
    BY <2>5, <2>7, Zenon
  <2> QED BY <2>1, <2>2, <2>4, <2>6, <2>7, Zenon DEF Registration
<1> QED BY <1>1, <1>2, <1>6, <1>7, <1>8, <1>9, <1>10, <1>11, <1>12, <1>13, <1>15, <1>16,
           <1>18, <1>19, <1>20, RegisterStep, ReceiveStreamStep, Zenon
        DEF Next, ServerStep, Parent, Children, SendStreamMsg

(***************************************************************************)
(* What the servers of hxecom have been told.  Knowledge relates it to the *)
(* lists of the coordinators and to the sends that the child inside        *)
(* COORD_SEM has left.                                                     *)
(***************************************************************************)
(* The sends left of the kind on which a server acts.                      *)
Acting == IF OneSysFlag THEN "LOCALSERVER" ELSE "REMOTESERVER"
Tells(h) == {x \in holder[h].todo : x.to \in Servers /\ x.msg.type = Acting}
Pending(h, s, r) == \E x \in Tells(h) : x.to = s /\ x.msg.server = r
Knows(h, s, r) == told[s][r] = 1 \/ Pending(h, s, r)

(* A send that is left names two listed servers, the first of which does   *)
(* not know the second yet, and no other send left does the same.          *)
TaskServer(h) == holder[h].task.server
TellOne(h, x) ==
    /\ told[x.to][x.msg.server] = 0 /\ HostOf[x.to] = h /\ Listed(x.to)
    /\ OneSysFlag =>
         /\ HostOf[x.msg.server] = h /\ Listed(x.msg.server)
         /\ \/ x.loop = 2 /\ x.to # TaskServer(h) /\ x.msg.server = TaskServer(h)
            \/ x.loop = 3 /\ x.to = TaskServer(h) /\ x.msg.server # TaskServer(h)
    /\ ~OneSysFlag =>
         /\ x.msg.server \in RemoteIDs[h] /\ x.loop = 1
         /\ Admits(h) => x.to = TaskServer(h)

(* A server that is not listed is told of nobody, and nobody of it.        *)
Untold(s, r) ==
    /\ ~Listed(s) => told[s][r] = 0
    /\ OneSysFlag /\ ~Listed(r) => told[s][r] = 0
    /\ ~OneSysFlag /\ r \notin RemoteIDs[HostOf[s]] => told[s][r] = 0

(* The server that is being admitted misses nobody.                        *)
Admitted(h) ==
    IF OneSysFlag
    THEN \A r \in Initialised(h) : Knows(h, TaskServer(h), r) /\ Knows(h, r, TaskServer(h))
    ELSE \A r \in RemoteIDs[h] : Knows(h, TaskServer(h), r)

Complete(s) == LET h == HostOf[s] IN
    ServerIDinit[s] /\ <<h, "REMOTESERVER">> \notin failed
      => \A r \in Due(s) : Knows(h, s, r)

KnowledgeAt(h) ==
    /\ \A s, r \in Servers : HostOf[s] = h => told[s][r] \in {0, 1} /\ Untold(s, r)
    /\ OneSysFlag => RemoteIDs[h] = {} /\ (holder[h] # Free => Admits(h))
    /\ \A x \in Tells(h) : TellOne(h, x)
    /\ Admits(h) => Admitted(h)
    /\ \A s \in Servers : HostOf[s] = h => Complete(s)

Knowledge == \A h \in Hosts : KnowledgeAt(h)

IInv == Typed /\ Registration /\ Knowledge

-----------------------------------------------------------------------------
(* Initially nobody is told of anybody.                                    *)
LEMMA KnowledgeInit == Init => Knowledge
<1> SUFFICES ASSUME Init, NEW h \in Hosts PROVE KnowledgeAt(h)
  BY Zenon DEF Knowledge
<1>1. holder[h] = Free /\ RemoteIDs[h] = {} /\ Free.todo = {}
  BY Zenon DEF Init, Free
<1>2. \A s, r \in Servers : told[s][r] = 0 /\ ServerIDinit[s] = FALSE
  BY Zenon DEF Init
<1>3. ~Admits(h) /\ Tells(h) = {}
  BY <1>1, Zenon DEF Admits, Tells
<1> QED BY <1>1, <1>2, <1>3, Zenon DEF KnowledgeAt, Untold, Complete

(* A send on which a server acts goes to a server and names one.           *)
LEMMA TellFacts ==
    ASSUME Typed, NEW h \in Hosts, NEW x \in Tells(h)
    PROVE  /\ x \in holder[h].todo /\ holder[h] # Free /\ x \in Sends
           /\ x.to \in Servers /\ x.msg \in News /\ x.msg.server \in Servers
           /\ x.msg.type = Acting
BY HolderFacts, Zenon DEF Tells

(* While COORD_SEM is free nobody is being told or admitted.               *)
LEMMA FreeTellsNothing ==
    ASSUME NEW h \in Hosts, holder[h] = Free
    PROVE  Tells(h) = {} /\ ~Admits(h)
<1>1. Free.todo = {}
  BY Zenon DEF Free
<1> QED BY <1>1, Zenon DEF Tells, Admits

(* A step that changes nothing of host g.                                  *)
LEMMA OtherHost ==
    ASSUME Typed, Registration, NEW g \in Hosts, KnowledgeAt(g),
           OneSysFlag' = OneSysFlag, holder'[g] = holder[g],
           LocalIDs'[g] = LocalIDs[g], RemoteIDs'[g] = RemoteIDs[g],
           \A s \in Servers : HostOf[s] = g =>
             told'[s] = told[s] /\ ServerIDinit'[s] = ServerIDinit[s],
           \A s \in Servers : Listed(s) => Listed(s)',
           failed \subseteq failed'
    PROVE  KnowledgeAt(g)'
<1>1. Tells(g)' = Tells(g) /\ Admits(g)' = Admits(g) /\ TaskServer(g)' = TaskServer(g)
  BY Zenon DEF Tells, Acting, Admits, TaskServer
<1>2. \A s, r : HostOf[s] = g /\ s \in Servers => Knows(g, s, r)' = Knows(g, s, r)
  BY <1>1, Zenon DEF Knows, Pending
<1>3. Initialised(g)' = Initialised(g)
  <2>1. \A s \in Range(LocalIDs[g]) : s \in Servers /\ HostOf[s] = g
    BY InitialisedListed, Zenon DEF Registration
  <2>2. Range(LocalIDs'[g]) = Range(LocalIDs[g])
    BY Zenon
  <2> QED BY <2>1, <2>2, Zenon DEF Initialised
<1>4. \A s, r \in Servers : HostOf[s] = g => told'[s][r] \in {0, 1} /\ Untold(s, r)'
  BY DEF KnowledgeAt, Untold
<1>5. ASSUME NEW x \in Tells(g)' PROVE TellOne(g, x)'
  <2>1. x \in Tells(g) /\ TellOne(g, x) /\ x.to \in Servers /\ x.msg.server \in Servers
    BY <1>1, <1>5, TellFacts, Zenon DEF KnowledgeAt
  <2> QED BY <1>1, <2>1, Zenon DEF TellOne
<1>6. Admits(g)' => Admitted(g)'
  <2> SUFFICES ASSUME Admits(g) PROVE Admitted(g)'
    BY <1>1, Zenon
  <2>1. TaskServer(g) \in Servers /\ HostOf[TaskServer(g)] = g /\ Admitted(g)
    BY Zenon DEF Registration, AdmitsNew, TaskServer, KnowledgeAt
  <2>2. \A r \in Initialised(g) : r \in Servers /\ HostOf[r] = g
    BY InitialisedListed, Zenon DEF Registration, Initialised
  <2> QED BY <1>1, <1>2, <1>3, <2>1, <2>2, Zenon DEF Admitted
<1>7. ASSUME NEW s \in Servers, HostOf[s] = g PROVE Complete(s)'
  <2>1. Due(s)' = Due(s)
    BY <1>3, <1>7, Zenon DEF Due
  <2>2. Complete(s)
    BY <1>7, Zenon DEF KnowledgeAt
  <2> QED BY <1>2, <1>7, <2>1, <2>2 DEF Complete
<1> QED BY <1>1, <1>4, <1>5, <1>6, <1>7, Zenon DEF KnowledgeAt

(* While nothing is left to tell, everybody knows all that is due.         *)
LEMMA NothingLeft ==
    ASSUME NEW h \in Hosts, KnowledgeAt(h), Tells(h) = {}, NEW s \in Servers,
           HostOf[s] = h, ServerIDinit[s], <<h, "REMOTESERVER">> \notin failed
    PROVE  \A r \in Due(s) : told[s][r] = 1
BY Zenon DEF KnowledgeAt, Complete, Knows, Pending

(* LocalServer takes up sends that are new to both sides and miss nobody.  *)
LEMMA LocalServerTells ==
    ASSUME Typed, Registration, NEW h \in Hosts, KnowledgeAt(h),
           NEW s \in Servers, LocalServer(h, s)
    PROVE  KnowledgeAt(h)'
<1>1. /\ h = HostOf[s] /\ ~Listed(s) /\ ~ServerIDinit[s] /\ Listed(s)'
      /\ \A r \in Servers : r # s => (Listed(r)' <=> Listed(r))
      /\ Range(LocalIDs'[h]) = Range(LocalIDs[h]) \cup {s}
  BY LocalServerFinds, Zenon
<1>2. UNCHANGED <<OneSysFlag, told, ServerIDinit, RemoteIDs, failed>> /\ holder[h] = Free
  BY Zenon DEF LocalServer, Enter, servers, history
<1>3. holder'[h].task = Local(s) /\ TaskServer(h)' = s
  <2>1. holder'[h].task = Local(s)
    BY Zenon DEF LocalServer, Typed, Local
  <2> QED BY <2>1, TasksDistinct, Zenon DEF TaskServer
<1>4. Tells(h) = {} /\ ~Admits(h)
  BY <1>2, FreeTellsNothing, Zenon
<1>5. Initialised(h)' = Initialised(h) /\ \A r \in Initialised(h) : r # s
  BY <1>1, <1>2, Zenon DEF Initialised, Listed
<1>6. \A r \in Initialised(h) : r \in Servers /\ HostOf[r] = h /\ Listed(r) /\ Listed(r)'
  <2>1. \A r \in Initialised(h) : r \in Servers /\ r \in Range(LocalIDs[h])
    BY InitialisedListed, Zenon DEF Initialised
  <2>2. \A r \in Initialised(h) : HostOf[r] = h
    BY <2>1, Zenon DEF Registration
  <2> QED BY <1>1, <1>5, <2>1, <2>2, Zenon DEF Listed
<1>7. holder'[h].todo = {Send(1, s, "REMOTESERVER", r) : r \in RemoteIDs[h]}
                        \cup {Send(2, r, "LOCALSERVER", s) : r \in Others(h, s)}
                        \cup {Send(3, s, "LOCALSERVER", r) : r \in Others(h, s)}
  BY Zenon DEF LocalServer, Typed
<1>8. \A n, to, type, r : LET x == Send(n, to, type, r) IN
        x.loop = n /\ x.to = to /\ x.msg.type = type /\ x.msg.server = r
  BY Zenon DEF Send, Msg
<1>9. /\ \A r \in Servers : told[s][r] = 0
      /\ OneSysFlag => \A r \in Servers : HostOf[r] = h => told[r][s] = 0
  BY <1>1, Zenon DEF KnowledgeAt, Untold
<1>10. \A q, r \in Servers : HostOf[q] = h => told'[q][r] \in {0, 1} /\ Untold(q, r)'
  <2> SUFFICES ASSUME NEW q \in Servers, NEW r \in Servers, HostOf[q] = h
               PROVE  told'[q][r] \in {0, 1} /\ Untold(q, r)'
    BY Zenon
  <2>1. told[q][r] \in {0, 1} /\ Untold(q, r)
    BY Zenon DEF KnowledgeAt
  <2>2. (Listed(q) => Listed(q)') /\ (Listed(r) => Listed(r)')
    BY <1>1, Zenon
  <2> QED BY <1>2, <2>1, <2>2, Zenon DEF Untold
<1>11. OneSysFlag' => RemoteIDs'[h] = {} /\ (holder'[h] # Free => Admits(h)')
  <2>1. holder'[h] # Free => Admits(h)'
    BY <1>3, TasksDistinct, Zenon DEF Admits
  <2> QED BY <1>2, <2>1, Zenon DEF KnowledgeAt
<1>12. ASSUME NEW x \in Tells(h)' PROVE TellOne(h, x)'
  <2>1. x \in holder'[h].todo /\ x.msg.type = Acting
    BY <1>2, <1>12, Zenon DEF Tells, Acting
  <2>2. CASE OneSysFlag
    <3>1. Others(h, s) = Initialised(h) /\ RemoteIDs[h] = {}
      BY <2>2, Zenon DEF Others, KnowledgeAt
    <3>2. PICK r \in Initialised(h) :
            x = Send(2, r, "LOCALSERVER", s) \/ x = Send(3, s, "LOCALSERVER", r)
      BY <1>7, <2>1, <3>1, Zenon
    <3>3. \/ x.loop = 2 /\ x.to = r /\ x.msg.server = s
          \/ x.loop = 3 /\ x.to = s /\ x.msg.server = r
      BY <1>8, <3>2
    <3>4. r \in Servers /\ HostOf[r] = h /\ Listed(r)' /\ r # s
      BY <1>5, <1>6, Zenon
    <3>5. told'[x.to][x.msg.server] = 0
      BY <1>2, <1>9, <2>2, <3>3, <3>4, Zenon
    <3>6. HostOf[x.to] = h /\ Listed(x.to)' /\ HostOf[x.msg.server] = h /\ Listed(x.msg.server)'
      BY <1>1, <3>3, <3>4, Zenon
    <3> QED BY <1>2, <1>3, <2>2, <3>3, <3>4, <3>5, <3>6 DEF TellOne
  <2>3. CASE ~OneSysFlag
    <3>1. x.msg.type = "REMOTESERVER"
      BY <2>1, <2>3, Zenon DEF Acting
    <3>2. PICK r \in RemoteIDs[h] : x = Send(1, s, "REMOTESERVER", r)
      BY <1>7, <1>8, <2>1, <3>1
    <3>3. x.loop = 1 /\ x.to = s /\ x.msg.server = r /\ r \in Servers
      BY <1>8, <3>2 DEF Typed
    <3> QED BY <1>1, <1>2, <1>3, <1>9, <2>3, <3>3, Zenon DEF TellOne
  <2> QED BY <2>2, <2>3, Zenon
<1>13. Admitted(h)'
  <2>1. CASE OneSysFlag
    <3>1. Others(h, s) = Initialised(h)
      BY <2>1, Zenon DEF Others
    <3>2. ASSUME NEW r \in Initialised(h) PROVE Pending(h, s, r)' /\ Pending(h, r, s)'
      <4> DEFINE x == Send(3, s, "LOCALSERVER", r)
                 y == Send(2, r, "LOCALSERVER", s)
      <4>1. /\ x.to = s /\ x.msg.type = "LOCALSERVER" /\ x.msg.server = r
            /\ y.to = r /\ y.msg.type = "LOCALSERVER" /\ y.msg.server = s
        BY <1>8
      <4>2. x \in holder'[h].todo /\ y \in holder'[h].todo
        BY <1>7, <3>1, Zenon
      <4>3. Acting' = "LOCALSERVER" /\ r \in Servers
        BY <1>2, <1>6, <2>1, Zenon DEF Acting
      <4> HIDE DEF x, y
      <4>4. x \in Tells(h)' /\ y \in Tells(h)'
        BY <4>1, <4>2, <4>3, Zenon DEF Tells
      <4> QED BY <4>1, <4>4, Zenon DEF Pending
    <3> QED BY <1>2, <1>3, <1>5, <2>1, <3>2, Zenon DEF Admitted, Knows
  <2>2. CASE ~OneSysFlag
    <3>1. ASSUME NEW r \in RemoteIDs[h] PROVE Pending(h, s, r)'
      <4> DEFINE x == Send(1, s, "REMOTESERVER", r)
      <4>1. x.to = s /\ x.msg.type = "REMOTESERVER" /\ x.msg.server = r
        BY <1>8
      <4>2. x \in holder'[h].todo
        BY <1>7, Zenon
      <4>3. Acting' = "REMOTESERVER"
        BY <1>2, <2>2, Zenon DEF Acting
      <4> HIDE DEF x
      <4>4. x \in Tells(h)'
        BY <4>1, <4>2, <4>3, Zenon DEF Tells
      <4> QED BY <4>1, <4>4, Zenon DEF Pending
    <3> QED BY <1>2, <1>3, <2>2, <3>1, Zenon DEF Admitted, Knows
  <2> QED BY <2>1, <2>2, Zenon
<1>14. ASSUME NEW q \in Servers, HostOf[q] = h PROVE Complete(q)'
  <2>1. Due(q)' = Due(q)
    BY <1>2, <1>5, <1>14, Zenon DEF Due
  <2> QED BY <1>2, <1>4, <1>14, <2>1, NothingLeft, Zenon DEF Complete, Knows
<1> QED BY <1>10, <1>11, <1>12, <1>13, <1>14, Zenon DEF KnowledgeAt

(* RemServer takes up a send of the new server, unknown so far, to each    *)
(* initialised server of its host.                                         *)
LEMMA RemServerTells ==
    ASSUME Typed, Registration, NEW h \in Hosts, KnowledgeAt(h),
           NEW r \in Servers, RemServer(h, r)
    PROVE  KnowledgeAt(h)'
<1>1. ~OneSysFlag /\ r \notin RemoteIDs[h]
  BY Zenon DEF RemServer, Refused, Known, Other_ips
<1>2. UNCHANGED <<OneSysFlag, told, ServerIDinit, LocalIDs, failed>> /\ holder[h] = Free
  BY Zenon DEF RemServer, Enter, servers, history
<1>3. RemoteIDs'[h] = RemoteIDs[h] \cup {r}
  BY Zenon DEF RemServer, Typed
<1>4. Tells(h) = {}
  BY <1>2, FreeTellsNothing, Zenon
<1>5. ~Admits(h)'
  <2>1. holder'[h].task = Msg("REMOTESERVER", r)
    BY Zenon DEF RemServer, Typed
  <2> QED BY <2>1, TasksDistinct, Zenon DEF Admits
<1>6. holder'[h].todo = {Send(1, s, "REMOTESERVER", r) : s \in Initialised(h)}
                        \cup {Send(2, HostOf[r], "REMOTESERVER", s) : s \in Initialised(h)}
                        \cup {Send(3, g, "REMOTESERVER", r) :
                                 g \in IF HostOf[r] \in RemoteAddr[h] THEN {}
                                       ELSE RemoteAddr[h] \cup {HostOf[r]}}
  BY Zenon DEF RemServer, Typed
<1>7. \A n, to, type, q : LET x == Send(n, to, type, q) IN
        x.loop = n /\ x.to = to /\ x.msg.type = type /\ x.msg.server = q
  BY Zenon DEF Send, Msg
<1>8. \A s \in Initialised(h) : s \in Servers /\ HostOf[s] = h /\ Listed(s)
  <2>1. \A s \in Initialised(h) : s \in Servers /\ s \in Range(LocalIDs[h])
    BY InitialisedListed, Zenon DEF Initialised
  <2>2. \A s \in Initialised(h) : HostOf[s] = h
    BY <2>1, Zenon DEF Registration
  <2> QED BY <2>1, <2>2, Zenon DEF Listed
<1>9. \A s \in Servers : Listed(s)' = Listed(s)
  BY <1>2, Zenon DEF Listed
<1>10. \A q, s \in Servers : HostOf[q] = h => told'[q][s] \in {0, 1} /\ Untold(q, s)'
  BY <1>1, <1>2, <1>3, <1>9, Zenon DEF KnowledgeAt, Untold
<1>11. ASSUME NEW x \in Tells(h)' PROVE TellOne(h, x)'
  <2>1. x \in holder'[h].todo /\ x.to \in Servers
    BY <1>11, Zenon DEF Tells
  <2>2. \A g \in RemoteAddr[h] \cup {HostOf[r]} : g \notin Servers
    BY ConstantsAssumption DEF Typed
  <2>3. PICK s \in Initialised(h) : x = Send(1, s, "REMOTESERVER", r)
    <3>1. CASE \E s \in Initialised(h) : x = Send(2, HostOf[r], "REMOTESERVER", s)
      BY <1>7, <2>1, <2>2, <3>1
    <3>2. CASE \E g \in RemoteAddr[h] \cup {HostOf[r]} : x = Send(3, g, "REMOTESERVER", r)
      BY <1>7, <2>1, <2>2, <3>2
    <3> QED BY <1>6, <2>1, <3>1, <3>2, Zenon
  <2>4. x.loop = 1 /\ x.to = s /\ x.msg.server = r
    BY <1>7, <2>3
  <2>5. told[s][r] = 0
    BY <1>1, <1>8, Zenon DEF KnowledgeAt, Untold
  <2> QED BY <1>1, <1>2, <1>3, <1>5, <1>8, <1>9, <2>4, <2>5, Zenon DEF TellOne
<1>12. ASSUME NEW s \in Servers, HostOf[s] = h PROVE Complete(s)'
  <2> SUFFICES ASSUME ServerIDinit[s], <<h, "REMOTESERVER">> \notin failed,
                      NEW q \in RemoteIDs'[h]
               PROVE  Knows(h, s, q)'
    BY <1>1, <1>2, <1>12, Zenon DEF Complete, Due
  <2>1. CASE q \in RemoteIDs[h]
    BY <1>1, <1>2, <1>4, <1>12, <2>1, NothingLeft, Zenon DEF Due, Knows
  <2>2. CASE q = r
    <3> DEFINE x == Send(1, s, "REMOTESERVER", r)
    <3>1. s \in Initialised(h)
      BY <1>12, Zenon DEF Registration, Listed, Initialised
    <3>2. x \in holder'[h].todo
      BY <1>6, <3>1, Zenon
    <3>3. x.to = s /\ x.msg.type = "REMOTESERVER" /\ x.msg.server = r
      BY <1>7
    <3>4. Acting' = "REMOTESERVER"
      BY <1>1, <1>2, Zenon DEF Acting
    <3> HIDE DEF x
    <3>5. x \in Tells(h)'
      BY <3>2, <3>3, <3>4, Zenon DEF Tells
    <3> QED BY <2>2, <3>3, <3>5, Zenon DEF Knows, Pending
  <2> QED BY <1>3, <2>1, <2>2, Zenon
<1> QED BY <1>1, <1>2, <1>5, <1>10, <1>11, <1>12, Zenon DEF KnowledgeAt

(* When LocalServer sets ServerIDinit, the server has been told of all     *)
(* that is due, and they of it.                                            *)
LEMMA AnnounceTells ==
    ASSUME Typed, Registration, NEW h \in Hosts, KnowledgeAt(h), Announce(h)
    PROVE  KnowledgeAt(h)'
<1> DEFINE t == TaskServer(h)
<1>1. Admits(h) /\ holder[h].todo = {} /\ holder'[h] = Free
  BY Zenon DEF Announce, Admits, Typed
<1>2. t \in Servers /\ HostOf[t] = h /\ Listed(t) /\ ~ServerIDinit[t]
  BY <1>1, Zenon DEF Registration, AdmitsNew, TaskServer
<1>3. UNCHANGED <<OneSysFlag, told, LocalIDs, RemoteIDs, failed>>
  BY Zenon DEF Announce, lists, history
<1>4. ServerIDinit' = [ServerIDinit EXCEPT ![t] = TRUE]
  BY Zenon DEF Announce, TaskServer
<1>5. Tells(h) = {} /\ Tells(h)' = {} /\ ~Admits(h)'
  <2>1. Tells(h) = {}
    BY <1>1, Zenon DEF Tells
  <2>2. Free.todo = {}
    BY Zenon DEF Free
  <2> QED BY <1>1, <2>1, <2>2, Zenon DEF Tells, Admits
<1> HIDE DEF t
<1>6. Initialised(h)' = Initialised(h) \cup {t} /\ Range(LocalIDs[h]) \subseteq Servers
  <2>1. t \in Range(LocalIDs[h]) /\ Range(LocalIDs[h]) \subseteq Servers
    BY <1>2, InitialisedListed, Zenon DEF Listed
  <2>2. \A s \in Servers : ServerIDinit'[s] <=> ServerIDinit[s] \/ s = t
    BY <1>2, <1>4, Zenon DEF Typed
  <2> QED BY <1>3, <2>1, <2>2, Zenon DEF Initialised
<1>7. \A s, r : Knows(h, s, r) => told[s][r] = 1
  BY <1>5, Zenon DEF Knows, Pending
<1>8. Admitted(h)
  BY <1>1, Zenon DEF KnowledgeAt
<1>9. \A q, s \in Servers : HostOf[q] = h => told'[q][s] \in {0, 1} /\ Untold(q, s)'
  BY <1>3, Zenon DEF KnowledgeAt, Untold, Listed
<1>10. ASSUME NEW s \in Servers, HostOf[s] = h PROVE Complete(s)'
  <2> SUFFICES ASSUME ServerIDinit'[s], <<h, "REMOTESERVER">> \notin failed, NEW r \in Due(s)'
               PROVE  told[s][r] = 1
    BY <1>3, <1>10, Zenon DEF Complete, Knows
  <2>1. CASE s = t
    <3>1. CASE OneSysFlag
      BY <1>3, <1>6, <1>7, <1>8, <1>10, <2>1, <3>1, Zenon DEF Due, Admitted, t
    <3>2. CASE ~OneSysFlag
      BY <1>3, <1>7, <1>8, <1>10, <2>1, <3>2, Zenon DEF Due, Admitted, t
    <3> QED BY <3>1, <3>2, Zenon
  <2>2. CASE s # t
    <3>1. ServerIDinit[s] /\ s \in Initialised(h)
      <4>1. ServerIDinit[s]
        BY <1>4, <2>2, Zenon DEF Typed
      <4> QED BY <1>10, <4>1, Zenon DEF Registration, Listed, Initialised
    <3>2. CASE r \in Due(s)
      BY <1>5, <1>10, <3>1, <3>2, NothingLeft, Zenon
    <3>3. CASE OneSysFlag /\ r = t
      BY <1>7, <1>8, <3>1, <3>3, Zenon DEF Admitted, t
    <3> QED BY <1>3, <1>6, <1>10, <3>2, <3>3, Zenon DEF Due
  <2> QED BY <2>1, <2>2, Zenon
<1> QED BY <1>1, <1>3, <1>5, <1>9, <1>10, Zenon DEF KnowledgeAt

(* The child ends: COORD_SEM is free, and nobody is told any more.         *)
LEMMA ChildEnds ==
    ASSUME Typed, Registration, NEW h \in Hosts, KnowledgeAt(h), holder'[h] = Free,
           UNCHANGED <<OneSysFlag, told, ServerIDinit, LocalIDs, RemoteIDs>>,
           failed \subseteq failed',
           \/ holder[h].task.type = "LOCALSERVER" /\ holder[h] # Free
           \/ Tells(h) = {}
           \/ <<h, "REMOTESERVER">> \in failed'
    PROVE  KnowledgeAt(h)'
<1>1. Tells(h)' = {} /\ ~Admits(h)'
  <2>1. Free.todo = {}
    BY Zenon DEF Free
  <2> QED BY <2>1, Zenon DEF Tells, Admits
<1>2. \A q, s \in Servers : HostOf[q] = h => told'[q][s] \in {0, 1} /\ Untold(q, s)'
  BY Zenon DEF KnowledgeAt, Untold, Listed
<1>3. ASSUME NEW s \in Servers, HostOf[s] = h PROVE Complete(s)'
  <2>1. Due(s)' = Due(s)
    BY Zenon DEF Due, Initialised
  <2> SUFFICES ASSUME ServerIDinit[s], <<h, "REMOTESERVER">> \notin failed', NEW r \in Due(s)
               PROVE  told[s][r] = 1
    BY <1>3, <2>1, Zenon DEF Complete, Knows
  <2>2. CASE Tells(h) = {}
    BY <1>3, <2>2, NothingLeft, Zenon
  <2>3. CASE Admits(h)
    <3>1. TaskServer(h) \in Servers /\ ~ServerIDinit[TaskServer(h)]
      BY <2>3, Zenon DEF Registration, AdmitsNew, TaskServer
    <3>2. told[s][r] = 1 \/ Pending(h, s, r)
      BY <1>3, Zenon DEF KnowledgeAt, Complete, Knows
    <3>3. ASSUME Pending(h, s, r) PROVE FALSE
      <4>1. PICK x \in Tells(h) : x.to = s /\ x.msg.server = r
        BY <3>3, Zenon DEF Pending
      <4>2. TellOne(h, x)
        BY Zenon DEF KnowledgeAt
      <4>3. CASE OneSysFlag
        <5>1. ServerIDinit[r]
          BY <1>3, <4>3, Zenon DEF Due, Initialised
        <5> QED BY <3>1, <4>1, <4>2, <4>3, <5>1, Zenon DEF TellOne
      <4>4. CASE ~OneSysFlag
        BY <2>3, <3>1, <4>1, <4>2, <4>4, Zenon DEF TellOne
      <4> QED BY <4>3, <4>4, Zenon
    <3> QED BY <3>2, <3>3, Zenon
  <2> QED BY <2>2, <2>3, Zenon DEF Admits
<1> QED BY <1>1, <1>2, <1>3, Zenon DEF KnowledgeAt

(* A successful SendStreamMsg turns one pending send into knowledge and    *)
(* leaves the other sends new.                                             *)
LEMMA DeliverTells ==
    ASSUME Typed, Registration, NEW h \in Hosts, KnowledgeAt(h),
           NEW x \in holder[h].todo, Deliver(h, x)
    PROVE  /\ KnowledgeAt(h)'
           /\ \A s \in Servers : HostOf[s] # h => told'[s] = told[s]
<1>1. UNCHANGED <<OneSysFlag, ServerIDinit, LocalIDs, RemoteIDs, failed>>
  BY Zenon DEF Deliver, lists, history
<1>2. /\ holder[h] \in Holders /\ holder[h] # Free /\ x \in Sends /\ x.msg \in News
      /\ x.msg.server \in Servers
  BY HolderFacts, Zenon
<1>3. holder'[h].task = holder[h].task /\ holder'[h].todo = holder[h].todo \ {x}
  BY <1>2, Zenon DEF Deliver, Typed, Holders
<1>4. TaskServer(h)' = TaskServer(h) /\ (Admits(h)' => Admits(h)) /\ Tells(h)' = Tells(h) \ {x}
  BY <1>1, <1>2, <1>3, Zenon DEF TaskServer, Admits, Tells, Acting
<1>5. \A s \in Servers : Listed(s)' = Listed(s)
  BY <1>1, Zenon DEF Listed
<1>6. Initialised(h)' = Initialised(h) /\ \A s \in Servers : Due(s)' = Due(s)
  BY <1>1, Zenon DEF Initialised, Due
<1>7. (x \in Tells(h) /\ told' = [told EXCEPT ![x.to][x.msg.server] = @ + 1])
      \/ (x \notin Tells(h) /\ told' = told)
  <2>1. (OneSysFlag <=> x.msg.type = "LOCALSERVER") <=> x.msg.type = Acting
    BY <1>2, TasksDistinct, Zenon DEF Acting, Typed
  <2> QED BY <2>1, Zenon DEF Deliver, Tells
<1>8. CASE x \in Tells(h)
  <2> DEFINE a == x.to
             b == x.msg.server
  <2>1. a \in Servers /\ b \in Servers /\ told[a][b] = 0 /\ HostOf[a] = h
    BY <1>2, <1>8, TellFacts, Zenon DEF KnowledgeAt, TellOne
  <2>2. /\ told'[a][b] = 1
        /\ \A s, r \in Servers : s # a \/ r # b => told'[s][r] = told[s][r]
        /\ \A s \in Servers : s # a => told'[s] = told[s]
    <3>1. told \in [Servers -> [Servers -> Nat]]
      BY Zenon DEF Typed
    <3>2. told' = [told EXCEPT ![a] = [told[a] EXCEPT ![b] = told[a][b] + 1]]
      BY <1>7, <1>8, Zenon
    <3> HIDE DEF a, b
    <3> QED BY <2>1, <3>1, <3>2
  <2>3. \A s, r \in Servers : Knows(h, s, r) => Knows(h, s, r)'
    BY <1>4, <2>1, <2>2, Zenon DEF Knows, Pending
  <2>4. \A q, s \in Servers : HostOf[q] = h => told'[q][s] \in {0, 1} /\ Untold(q, s)'
    <3> SUFFICES ASSUME NEW q \in Servers, NEW s \in Servers, HostOf[q] = h
                 PROVE  told'[q][s] \in {0, 1} /\ Untold(q, s)'
      BY Zenon
    <3>1. told[q][s] \in {0, 1} /\ Untold(q, s) /\ TellOne(h, x)
      BY <1>8, Zenon DEF KnowledgeAt
    <3>2. CASE q = a /\ s = b
      BY <1>1, <1>5, <2>1, <2>2, <3>1, <3>2, Zenon DEF Untold, TellOne
    <3>3. CASE q # a \/ s # b
      BY <1>1, <1>5, <2>2, <3>1, <3>3, Zenon DEF Untold
    <3> QED BY <3>2, <3>3, Zenon
  <2>5. ASSUME NEW y \in Tells(h)' PROVE TellOne(h, y)'
    <3>1. y \in Tells(h) /\ y # x /\ TellOne(h, y) /\ TellOne(h, x)
      BY <1>4, <1>8, <2>5, Zenon DEF KnowledgeAt
    <3>2. /\ y \in Sends /\ y.msg \in News /\ y.to \in Servers /\ y.msg.server \in Servers
          /\ y.msg.type = x.msg.type
      BY <1>8, <3>1, TellFacts, Zenon
    <3>3. y.to # a \/ y.msg.server # b
      <4> SUFFICES ASSUME y.to = a, y.msg.server = b PROVE FALSE
        BY Zenon
      <4>1. y.loop = x.loop
        BY <3>1, Zenon DEF TellOne
      <4>2. y.msg = x.msg
        BY <1>2, <3>2, TasksDistinct DEF News
      <4> QED BY <1>2, <3>1, <3>2, <4>1, <4>2 DEF Sends
    <3>4. told'[y.to][y.msg.server] = 0
      BY <2>2, <3>1, <3>2, <3>3, Zenon DEF TellOne
    <3> QED BY <1>1, <1>4, <1>5, <3>1, <3>2, <3>4, Zenon DEF TellOne
  <2>6. Admits(h)' => Admitted(h)'
    <3> SUFFICES ASSUME Admits(h) PROVE Admitted(h)'
      BY <1>4, Zenon
    <3>1. Admitted(h) /\ TaskServer(h) \in Servers
      BY Zenon DEF KnowledgeAt, Registration, AdmitsNew, TaskServer
    <3>2. Initialised(h) \subseteq Servers /\ RemoteIDs[h] \subseteq Servers
      BY InitialisedListed, Zenon DEF Typed
    <3> QED BY <1>1, <1>4, <1>6, <2>3, <3>1, <3>2, Zenon DEF Admitted
  <2>7. ASSUME NEW s \in Servers, HostOf[s] = h PROVE Complete(s)'
    <3>1. Complete(s)
      BY <2>7, Zenon DEF KnowledgeAt
    <3>2. Due(s) \subseteq Servers
      BY <2>7, InitialisedListed, Zenon DEF Due, Typed
    <3> QED BY <1>1, <1>6, <2>3, <2>7, <3>1, <3>2, Zenon DEF Complete
  <2>8. OneSysFlag' => RemoteIDs'[h] = {} /\ (holder'[h] # Free => Admits(h)')
    BY <1>1, <1>2, <1>3, Zenon DEF KnowledgeAt, Admits
  <2> QED BY <2>1, <2>2, <2>4, <2>5, <2>6, <2>7, <2>8, Zenon DEF KnowledgeAt
<1>9. CASE x \notin Tells(h)
  <2>1. told' = told /\ Tells(h)' = Tells(h)
    BY <1>4, <1>7, <1>9, Zenon
  <2>2. \A s, r : Knows(h, s, r)' = Knows(h, s, r)
    BY <2>1, Zenon DEF Knows, Pending
  <2>3. \A q, s \in Servers : HostOf[q] = h => told'[q][s] \in {0, 1} /\ Untold(q, s)'
    BY <1>1, <1>5, <2>1, Zenon DEF KnowledgeAt, Untold
  <2>4. ASSUME NEW y \in Tells(h)' PROVE TellOne(h, y)'
    <3>1. TellOne(h, y) /\ y.to \in Servers /\ y.msg.server \in Servers
      BY <2>1, <2>4, TellFacts, Zenon DEF KnowledgeAt
    <3> QED BY <1>1, <1>4, <1>5, <2>1, <3>1, Zenon DEF TellOne
  <2>5. Admits(h)' => Admitted(h)'
    BY <1>1, <1>4, <1>6, <2>2, Zenon DEF KnowledgeAt, Admitted
  <2>6. ASSUME NEW s \in Servers, HostOf[s] = h PROVE Complete(s)'
    <3>1. Complete(s)
      BY <2>6, Zenon DEF KnowledgeAt
    <3> QED BY <1>1, <1>6, <2>2, <2>6, <3>1, Zenon DEF Complete
  <2>7. OneSysFlag' => RemoteIDs'[h] = {} /\ (holder'[h] # Free => Admits(h)')
    BY <1>1, <1>2, <1>3, Zenon DEF KnowledgeAt, Admits
  <2> QED BY <2>1, <2>3, <2>4, <2>5, <2>6, <2>7, Zenon DEF KnowledgeAt
<1> QED BY <1>8, <1>9, Zenon

(* Every step keeps Knowledge.                                             *)
LEMMA KnowledgeStep == IInv /\ [Next]_vars => Knowledge'
<1> SUFFICES ASSUME Typed, Registration, Knowledge, [Next]_vars PROVE Knowledge'
  BY Zenon DEF IInv
<1> USE DEF lists, servers, timer, procs, children, net, history
<1>1. ASSUME UNCHANGED <<OneSysFlag, told, ServerIDinit, LocalIDs, RemoteIDs, holder>>,
             failed \subseteq failed'
      PROVE  Knowledge'
  <2>1. \A s \in Servers : Listed(s)' = Listed(s)
    BY <1>1, Zenon DEF Listed
  <2> QED BY <1>1, <2>1, OtherHost, Zenon DEF Knowledge
<1>2. ASSUME NEW s \in Servers, SetUpCoord(s) \/ Register(s) \/ Listen(s) \/ End(s)
      PROVE  Knowledge'
  BY <1>1, <1>2, Zenon DEF SetUpCoord, Register, Listen, End
<1>3. ASSUME NEW h \in Hosts, Select(h) \/ Timeout(h) \/ OldInfo(h) \/ ReceiveStream(h)
      PROVE  Knowledge'
  BY <1>1, <1>3, Zenon DEF Select, Timeout, OldInfo, ReceiveStream, Receive
<1>4. ASSUME NEW h \in Hosts, NEW s \in Servers,
             ReceiveDgram(h, s) \/ IgnoreRemote(h, s) \/ Lose(h, s)
      PROVE  Knowledge'
  BY <1>1, <1>4, Zenon DEF ReceiveDgram, Receive, IgnoreRemote, Lose
<1>5. ASSUME NEW h \in Hosts, BroadcastLocals(h) \/ StoreAlarm(h) \/ StoreRemaining(h)
      PROVE  Knowledge'
  BY <1>1, <1>5, Zenon DEF BroadcastLocals, StoreAlarm, StoreRemaining
<1>6. CASE UNCHANGED vars
  BY <1>1, <1>6, Zenon DEF vars
(* A step of the child of h: the other hosts do not notice it.             *)
<1>7. ASSUME NEW h \in Hosts, KnowledgeAt(h)', OneSysFlag' = OneSysFlag, failed \subseteq failed',
             \A g \in Hosts : g # h => /\ holder'[g] = holder[g]
                                      /\ LocalIDs'[g] = LocalIDs[g] /\ RemoteIDs'[g] = RemoteIDs[g],
             \A s \in Servers : HostOf[s] # h =>
               told'[s] = told[s] /\ ServerIDinit'[s] = ServerIDinit[s],
             \A s \in Servers : Listed(s) => Listed(s)'
      PROVE  Knowledge'
  <2> SUFFICES ASSUME NEW g \in Hosts, g # h PROVE KnowledgeAt(g)'
    BY <1>7, Zenon DEF Knowledge
  <2>1. KnowledgeAt(g)
    BY Zenon DEF Knowledge
  <2> QED BY <1>7, <2>1, OtherHost, Zenon
<1>8. ASSUME NEW h \in Hosts, NEW s \in Servers, LocalServer(h, s) PROVE Knowledge'
  <2>1. KnowledgeAt(h)'
    BY <1>8, LocalServerTells, Zenon DEF Knowledge
  <2>2. \A r \in Servers : Listed(r) => Listed(r)'
    BY <1>8, LocalServerFinds, Zenon
  <2>3. \A g \in Hosts : g # h => holder'[g] = holder[g] /\ LocalIDs'[g] = LocalIDs[g]
    BY <1>8, Zenon DEF LocalServer, Typed
  <2> QED BY <1>7, <1>8, <2>1, <2>2, <2>3, Zenon DEF LocalServer
<1>9. ASSUME UNCHANGED LocalIDs PROVE \A s \in Servers : Listed(s) => Listed(s)'
  BY <1>9, Zenon DEF Listed
<1>10. ASSUME NEW h \in Hosts, NEW r \in Servers, RemServer(h, r) PROVE Knowledge'
  <2>1. KnowledgeAt(h)'
    BY <1>10, RemServerTells, Zenon DEF Knowledge
  <2>2. \A g \in Hosts : g # h => holder'[g] = holder[g] /\ RemoteIDs'[g] = RemoteIDs[g]
    BY <1>10, Zenon DEF RemServer, Typed
  <2> QED BY <1>7, <1>9, <1>10, <2>1, <2>2, Zenon DEF RemServer
<1>11. ASSUME NEW h \in Hosts, Announce(h) PROVE Knowledge'
  <2>1. KnowledgeAt(h)'
    BY <1>11, AnnounceTells, Zenon DEF Knowledge
  <2>2. \A g \in Hosts : g # h => holder'[g] = holder[g]
    BY <1>11, Zenon DEF Announce, Typed
  <2>3. holder[h].task.server \in Servers /\ HostOf[holder[h].task.server] = h
    BY <1>11, Zenon DEF Announce, Registration, Admits, AdmitsNew
  <2>4. \A s \in Servers : HostOf[s] # h => ServerIDinit'[s] = ServerIDinit[s]
    BY <1>11, <2>3, Zenon DEF Announce, Typed
  <2> QED BY <1>7, <1>9, <1>11, <2>1, <2>2, <2>4, Zenon DEF Announce
<1>12. ASSUME NEW h \in Hosts, holder' = [holder EXCEPT ![h] = Free],
              UNCHANGED <<OneSysFlag, told, ServerIDinit, LocalIDs, RemoteIDs>>,
              failed \subseteq failed', KnowledgeAt(h)'
       PROVE  Knowledge'
  <2>1. \A g \in Hosts : g # h => holder'[g] = holder[g]
    BY <1>12, Zenon DEF Typed
  <2> QED BY <1>7, <1>9, <1>12, <2>1, Zenon
<1>13. ASSUME NEW h \in Hosts, Release(h) PROVE Knowledge'
  <2>1. /\ UNCHANGED <<OneSysFlag, told, ServerIDinit, LocalIDs, RemoteIDs, failed>>
        /\ holder' = [holder EXCEPT ![h] = Free]
    BY <1>13, Zenon DEF Release
  <2>2. Tells(h) = {} /\ holder'[h] = Free
    BY <1>13, Zenon DEF Release, Tells, Typed
  <2>3. KnowledgeAt(h)'
    BY <2>1, <2>2, ChildEnds, Zenon DEF Knowledge
  <2> QED BY <1>12, <2>1, <2>3, Zenon
<1>14. ASSUME NEW h \in Hosts, NEW x \in holder[h].todo, SendFails(h, x) PROVE Knowledge'
  <2>1. /\ UNCHANGED <<OneSysFlag, told, ServerIDinit, LocalIDs, RemoteIDs>>
        /\ holder' = [holder EXCEPT ![h] = Free]
        /\ failed' = failed \cup {<<h, holder[h].task.type>>}
    BY <1>14, Zenon DEF SendFails
  <2>2. /\ holder'[h] = Free /\ holder[h] # Free
        /\ holder[h].task.type \in {"LOCALSERVER", "REMOTESERVER"}
    BY <2>1, HolderFacts, TasksDistinct, Zenon DEF Typed
  <2>3. KnowledgeAt(h)'
    BY <2>1, <2>2, ChildEnds, Zenon DEF Knowledge
  <2> QED BY <1>12, <2>1, <2>3, Zenon
<1>15. ASSUME NEW h \in Hosts, NEW x \in holder[h].todo, Deliver(h, x) PROVE Knowledge'
  <2>1. KnowledgeAt(h)' /\ \A s \in Servers : HostOf[s] # h => told'[s] = told[s]
    BY <1>15, DeliverTells, Zenon DEF Knowledge
  <2>2. \A g \in Hosts : g # h => holder'[g] = holder[g]
    BY <1>15, Zenon DEF Deliver, Typed
  <2>3. UNCHANGED <<OneSysFlag, ServerIDinit, LocalIDs, RemoteIDs, failed>>
    BY <1>15, Zenon DEF Deliver
  <2> QED BY <1>7, <1>9, <2>1, <2>2, <2>3, Zenon
<1> QED BY <1>2, <1>3, <1>4, <1>5, <1>6, <1>8, <1>10, <1>11, <1>13, <1>14, <1>15, Zenon
        DEF Next, ServerStep, Parent, Children, SendStreamMsg

-----------------------------------------------------------------------------
(* The invariant holds, whatever the hosts, servers, limits and tests.     *)
THEOREM Inductive == Spec => []IInv
<1>1. Init => IInv
  BY TypedInit, RegistrationInit, KnowledgeInit, Zenon DEF IInv
<1>2. IInv /\ [Next]_vars => IInv'
  BY TypedStep, RegistrationStep, KnowledgeStep, Zenon DEF IInv
<1> QED BY <1>1, <1>2, PTL DEF Spec

(* However often a server is announced, answered and passed on, and        *)
(* however the children that saw it unknown follow each other, no other    *)
(* server is told of it twice (RemServer's test under COORD_SEM).          *)
THEOREM EachToldOnce == Spec => []ToldOnce
<1>1. IInv => ToldOnce
  <2> SUFFICES ASSUME IInv, NEW s \in Servers, NEW r \in Servers PROVE told[s][r] <= 1
    BY Zenon DEF ToldOnce
  <2>1. HostOf[s] \in Hosts
    BY ConstantsAssumption, Zenon
  <2>2. told[s][r] \in {0, 1}
    BY <2>1, Zenon DEF IInv, Knowledge, KnowledgeAt
  <2> QED BY <2>2
<1> QED BY <1>1, Inductive, PTL

(* A server that registers while others arrive misses none of them: those  *)
(* listed before are sent by LocalServer, those listed later by RemServer, *)
(* and in a one-system test LocalServer of the later one tells both.       *)
THEOREM AllKnown == Spec => []KnowsAll
<1>1. IInv => KnowsAll
  <2> SUFFICES ASSUME IInv, NEW s \in Servers, ServerIDinit[s], holder[HostOf[s]] = Free,
                      <<HostOf[s], "REMOTESERVER">> \notin failed
               PROVE  \A r \in Due(s) : told[s][r] = 1
    BY Zenon DEF KnowsAll
  <2>1. HostOf[s] \in Hosts
    BY ConstantsAssumption, Zenon
  <2>2. KnowledgeAt(HostOf[s])
    BY <2>1, Zenon DEF IInv, Knowledge
  <2>3. Tells(HostOf[s]) = {}
    BY <2>1, FreeTellsNothing, Zenon
  <2> QED BY <2>1, <2>2, <2>3, NothingLeft, Zenon
<1> QED BY <1>1, Inductive, PTL
=============================================================================
