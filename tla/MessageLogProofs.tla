-------------------------- MODULE MessageLogProofs --------------------------
(***************************************************************************)
(* The logs of hxsmsg survive crashes and restarts, for any thresholds,    *)
(* messages, times and failures.                                           *)
(***************************************************************************)
EXTENDS MessageLog, SequenceTheorems, TLAPS

Calls == {<<"rmckpt", "none">>, <<"ckpt", "none">>, <<"open", "none">>} \cup ({"rm", "time"} \X Logs)
Ckpts == [thres : [Logs -> Nat], offset : [Logs -> Nat], mod_time : [Logs -> Nat]]

Running == pc \in {"idle", "copy", "wrap", "ckpt", "end"}
Copying == pc \in {"copy", "wrap", "ckpt"}
Writing(l) == pc \in {"wrap", "ckpt"} /\ l = Head(todo)

(* The sequence s has the element x.                                        *)
Has(s, x) == \E i \in DOMAIN s : s[i] = x
Pending(op, l) == Has(todo, <<op, l>>)

(* The last element of s, and only that one, is x.                          *)
EndsWith(s, x) ==
    /\ s # <<>> /\ s[Len(s)] = x
    /\ \A i \in DOMAIN s : s[i] = x => i = Len(s)

(* The opening of the logs is the last call of s; the checkpoint is looked  *)
(* at or removed first.                                                     *)
OpenLast(s) == EndsWith(s, <<"open", "none">>)
CkptFirst(s) == \A i \in DOMAIN s : s[i] \in {<<"ckpt", "none">>, <<"rmckpt", "none">>} => i = 1

(* The types.                                                               *)
Types ==
    /\ file \in [Logs -> [there : BOOLEAN, data : Seq(Nat), mtime : Nat]]
    /\ disk \in [kind : {"empty", "short", "bad", "good"}, ckpt : Ckpts]
    /\ archive \in Seq(SUBSET Nat)
    /\ clock \in Nat \ {0}
    /\ pc \in {"down", "start", "idle", "copy", "wrap", "ckpt", "end"}
    /\ thres \in [Logs -> Nat]
    /\ fd \in [Logs -> Nat \cup {Closed}]
    /\ ckpt_file \in BOOLEAN /\ checkpt \in Ckpts
    /\ msg \in [id : Nat, len : Nat, error : BOOLEAN, final : BOOLEAN]
    /\ file_offset \in Nat /\ archive_sequence_count \in Nat
    /\ first \in Nat \ {0} /\ next \in Nat \ {0} /\ first <= next
    /\ left \in [Logs -> Nat \X Nat]
    /\ pc = "start" => todo \in Seq(Calls)
    /\ Copying => todo \in Seq(Logs)

(* What is left of open_logs.                                               *)
StartOrder == pc = "start" => OpenLast(todo) /\ CkptFirst(todo)

(* What is left of copy_message: different logs that are open, the message  *)
(* log first.                                                               *)
CopyOrder ==
    Copying =>
        /\ todo # <<>> /\ msg.id = next - 1 /\ msg.len > 0
        /\ \A i, j \in DOMAIN todo : todo[i] = todo[j] => i = j
        /\ \A i \in DOMAIN todo : /\ fd[todo[i]] # Closed \/ (pc = "ckpt" /\ i = 1)
                                  /\ todo[i] = "msg" => i = 1

(* A file that is not there has been left at its beginning; the bytes of a  *)
(* file belong to messages that have arrived.                               *)
FileState(l) ==
    /\ IF file[l].there THEN file[l].mtime \in 1 .. clock
       ELSE file[l] = Missing /\ left[l] = <<0, 0>>
    /\ \A i \in DOMAIN file[l].data : file[l].data[i] < next

(* An open log is at the position where it was left.                        *)
Position(l) ==
    /\ ~Running => fd[l] = Closed
    /\ Running /\ fd[l] # Closed => file[l].there /\ fd[l] = left[l][2]
    /\ Running /\ l \notin SaveLogs => fd[l] # Closed

(* The bytes before position p are there, in the order of arrival.          *)
InOrder(l, p) ==
    /\ p <= Len(file[l].data)
    /\ \A i \in 2 .. p : file[l].data[i - 1] <= file[l].data[i]

Laps == "ckpt" \notin failed => \A l \in Logs : InOrder(l, left[l][1]) /\ InOrder(l, left[l][2])

(* The local variables between the write and the checkpoint.                *)
AfterWrite ==
    LET l == Head(todo) IN
    /\ pc = "wrap" => left[l][1] <= fd[l] /\ fd[l] <= Len(file[l].data)
    /\ pc = "ckpt" => file_offset = left[l][2] /\ ckpt_file

(* No checkpoint is of a later time.                                        *)
Times ==
    /\ \A l \in Logs : checkpt.mod_time[l] <= clock
    /\ disk.kind = "good" => \A l \in Logs : disk.ckpt.mod_time[l] <= clock
    /\ disk.kind = "good" /\ pc = "start" => \A l \in Logs : disk.ckpt.mod_time[l] < clock

(* A checkpoint whose time is that of the file knows where the file was     *)
(* left; that of an open log knows it exactly.                              *)
Agrees(c, l) ==
    file[l].there /\ c.mod_time[l] = file[l].mtime => c.offset[l] \in {left[l][1], left[l][2]}

Current(c, l) ==
    /\ c.mod_time[l] <= file[l].mtime
    /\ c.mod_time[l] = file[l].mtime => c.offset[l] = left[l][IF Writing(l) THEN 1 ELSE 2]

Checkpoints ==
    "ckpt" \notin failed =>
      \A l \in Logs :
        /\ disk.kind = "good" => Agrees(disk.ckpt, l)
        /\ Running => Agrees(checkpt, l)
        /\ Running /\ (fd[l] # Closed \/ Writing(l)) =>
              Current(checkpt, l) /\ (disk.kind = "good" => Current(disk.ckpt, l))

(* Without an open checkpoint file there is no checkpoint.                  *)
Zeroed(l) == checkpt.mod_time[l] = 0 /\ checkpt.offset[l] = 0

NoCheckpoint ==
    ~ckpt_file =>
      /\ \A l \in Logs : Zeroed(l)
      /\ Running => disk.kind = "empty"
      /\ pc = "start" => Pending("ckpt", "none") \/ Pending("rmckpt", "none") \/ disk.kind = "empty"

(* What open_logs has done for log l, of which something is kept.           *)
Kept(l) == l \in SaveLogs => thres[l] > 0
Checked(l) ==
    IF file[l].there THEN checkpt.mod_time[l] = file[l].mtime ELSE Zeroed(l)

Starts(l) ==
    pc = "start" =>
      /\ \/ Zeroed(l)
         \/ /\ disk.kind = "good"
            /\ checkpt.mod_time[l] = disk.ckpt.mod_time[l] /\ checkpt.offset[l] = disk.ckpt.offset[l]
      /\ Pending("rmckpt", "none") => Zeroed(l)
      /\ Kept(l) =>
           /\ Pending("time", l) \/ Pending("rm", l) \/ Checked(l)
           /\ Pending("rm", l) => Zeroed(l)
           /\ Pending("ckpt", "none") => Pending("time", l) /\ ~Pending("rm", l)

LogInv ==
    /\ Types /\ StartOrder /\ CopyOrder /\ Laps /\ AfterWrite /\ Times /\ Checkpoints /\ NoCheckpoint
    /\ \A l \in Logs : FileState(l) /\ Position(l) /\ Starts(l)

(* The messages of this hxsmsg: before the position or in an archive.       *)
Held(m) ==
    \/ \E i \in DOMAIN file["msg"].data : i <= fd["msg"] /\ file["msg"].data[i] = m
    \/ \E i \in 1 .. archive_sequence_count : m \in archive[i]

Stored == IF pc = "copy" /\ Head(todo) = "msg" THEN next - 2 ELSE next - 1

Archived ==
    /\ pc = "start" => first = next
    /\ "cp" \notin failed => archive_sequence_count <= Len(archive)
    /\ Running /\ Archives /\ failed \cap {"write", "cp"} = {} =>
         \A m \in first .. Stored : Held(m)

(***************************************************************************)
(* Sequences                                                               *)
(***************************************************************************)

(* The first element of a sequence and the others.                          *)
LEMMA HeadTail ==
    ASSUME NEW S, NEW s \in Seq(S), s # <<>>
    PROVE  /\ Len(s) \in Nat \ {0} /\ DOMAIN s = 1 .. Len(s)
           /\ Head(s) = s[1] /\ Head(s) \in S /\ 1 \in DOMAIN s
           /\ Tail(s) \in Seq(S) /\ Len(Tail(s)) = Len(s) - 1
           /\ DOMAIN Tail(s) = 1 .. Len(s) - 1
           /\ \A i \in DOMAIN Tail(s) : Tail(s)[i] = s[i + 1] /\ i + 1 \in DOMAIN s
  <1>1. Len(s) \in Nat \ {0} /\ DOMAIN s = 1 .. Len(s)
    BY EmptySeq, LenProperties, Zenon
  <1>2. Head(s) \in S /\ Tail(s) \in Seq(S) /\ Len(Tail(s)) = Len(s) - 1
        /\ \A i \in 1 .. Len(Tail(s)) : Tail(s)[i] = s[i + 1]
    BY HeadTailProperties, Zenon
  <1>3. DOMAIN Tail(s) = 1 .. Len(Tail(s))
    BY <1>2, LenProperties, Zenon
  <1>4. Head(s) = s[1]
    OBVIOUS
  <1> QED BY <1>1, <1>2, <1>3, <1>4

(* The elements of a sequence are the first one and those of its tail.      *)
LEMMA HasTail ==
    ASSUME NEW S, NEW s \in Seq(S), s # <<>>, NEW x
    PROVE  /\ Has(Tail(s), x) => Has(s, x)
           /\ Has(s, x) => s[1] = x \/ Has(Tail(s), x)
  <1>1. Has(Tail(s), x) => Has(s, x)
    BY HeadTail, Zenon DEF Has
  <1>2. ASSUME NEW i \in DOMAIN s, s[i] = x, s[1] # x PROVE Has(Tail(s), x)
    <2>1. i \in 1 .. Len(s) /\ Len(s) \in Nat /\ i # 1
      BY <1>2, HeadTail, Zenon
    <2>2. i - 1 \in DOMAIN Tail(s)
      BY <2>1, HeadTail
    <2>3. Tail(s)[i - 1] = s[i]
      BY <2>1, <2>2, HeadTail
    <2> QED BY <1>2, <2>2, <2>3, Zenon DEF Has
  <1> QED BY <1>1, <1>2, Zenon DEF Has

(* The elements of a concatenation.                                         *)
LEMMA HasConcat ==
    ASSUME NEW S, NEW s \in Seq(S), NEW t \in Seq(S), NEW x
    PROVE  Has(s \o t, x) <=> Has(s, x) \/ Has(t, x)
  <1>1. /\ Len(s) \in Nat /\ DOMAIN s = 1 .. Len(s) /\ Len(t) \in Nat /\ DOMAIN t = 1 .. Len(t)
        /\ DOMAIN (s \o t) = 1 .. Len(s) + Len(t)
        /\ \A i \in 1 .. Len(s) + Len(t) : (s \o t)[i] = IF i <= Len(s) THEN s[i] ELSE t[i - Len(s)]
    BY LenProperties, ConcatProperties
  <1>2. ASSUME NEW i \in 1 .. Len(s) PROVE i \in 1 .. Len(s) + Len(t) /\ (s \o t)[i] = s[i]
    BY <1>1
  <1>3. ASSUME NEW i \in 1 .. Len(t)
        PROVE  Len(s) + i \in 1 .. Len(s) + Len(t) /\ (s \o t)[Len(s) + i] = t[i]
    BY <1>1
  <1>4. Has(s, x) => Has(s \o t, x)
    BY <1>1, <1>2, Zenon DEF Has
  <1>5. Has(t, x) => Has(s \o t, x)
    <2> SUFFICES ASSUME NEW i \in 1 .. Len(t), t[i] = x PROVE \E k \in DOMAIN (s \o t) : (s \o t)[k] = x
      BY <1>1, Zenon DEF Has
    <2> QED BY <1>1, <1>3, Zenon
  <1>6. Has(s \o t, x) => Has(s, x) \/ Has(t, x)
    <2> SUFFICES ASSUME NEW i \in 1 .. Len(s) + Len(t), (s \o t)[i] = x PROVE Has(s, x) \/ Has(t, x)
      BY <1>1, Zenon DEF Has
    <2>1. CASE i <= Len(s)
      BY <1>1, <2>1 DEF Has
    <2>2. CASE ~(i <= Len(s))
      <3>1. i - Len(s) \in 1 .. Len(t) /\ t[i - Len(s)] = x
        BY <1>1, <2>2
      <3> QED BY <1>1, <3>1, Zenon DEF Has
    <2> QED BY <2>1, <2>2, Zenon
  <1> QED BY <1>4, <1>5, <1>6, Zenon

(* The elements of short sequences.                                         *)
LEMMA HasShort ==
    ASSUME NEW x, NEW y
    PROVE  ~Has(<<>>, x) /\ (Has(<<y>>, x) <=> x = y)
  BY DEF Has

(* What comes before the last element leaves it last.                       *)
LEMMA EndsWithConcat ==
    ASSUME NEW S, NEW s \in Seq(S), NEW t \in Seq(S), NEW x, EndsWith(t, x), ~Has(s, x)
    PROVE  EndsWith(s \o t, x)
  <1>1. /\ Len(s) \in Nat /\ DOMAIN s = 1 .. Len(s) /\ Len(t) \in Nat \ {0} /\ DOMAIN t = 1 .. Len(t)
        /\ Len(s \o t) = Len(s) + Len(t) /\ DOMAIN (s \o t) = 1 .. Len(s) + Len(t)
        /\ \A i \in 1 .. Len(s) + Len(t) : (s \o t)[i] = IF i <= Len(s) THEN s[i] ELSE t[i - Len(s)]
    BY LenProperties, ConcatProperties, EmptySeq DEF EndsWith
  <1>2. s \o t # <<>>
    BY <1>1
  <1>3. (s \o t)[Len(s) + Len(t)] = x
    <2>1. Len(s) + Len(t) \in 1 .. Len(s) + Len(t) /\ ~(Len(s) + Len(t) <= Len(s))
          /\ Len(s) + Len(t) - Len(s) = Len(t)
      BY <1>1
    <2>2. (s \o t)[Len(s) + Len(t)] = t[Len(t)]
      BY <1>1, <2>1
    <2> QED BY <2>2, Zenon DEF EndsWith
  <1>4. ASSUME NEW i \in 1 .. Len(s) + Len(t), (s \o t)[i] = x
        PROVE  i = Len(s) + Len(t)
    <2>1. CASE i <= Len(s)
      BY <1>1, <1>4, <2>1 DEF Has
    <2>2. CASE ~(i <= Len(s))
      <3>1. i - Len(s) \in 1 .. Len(t) /\ t[i - Len(s)] = x
        BY <1>1, <1>4, <2>2
      <3>2. i - Len(s) = Len(t)
        BY <1>1, <3>1, Zenon DEF EndsWith
      <3> QED BY <1>1, <3>2
    <2> QED BY <2>1, <2>2, Zenon
  <1> QED BY <1>1, <1>2, <1>3, <1>4, Zenon DEF EndsWith

(* The end of the tail.                                                     *)
LEMMA EndsWithTail ==
    ASSUME NEW S, NEW s \in Seq(S), NEW x, EndsWith(s, x), s[1] # x
    PROVE  EndsWith(Tail(s), x)
  <1>1. s # <<>>
    BY Zenon DEF EndsWith
  <1>2. Len(s) # 1 /\ Len(s) \in Nat \ {0} /\ Len(Tail(s)) = Len(s) - 1
    BY <1>1, HeadTail, Zenon DEF EndsWith
  <1>3. Tail(s) # <<>> /\ DOMAIN Tail(s) = 1 .. Len(s) - 1
        /\ \A i \in 1 .. Len(s) - 1 : Tail(s)[i] = s[i + 1] /\ i + 1 \in DOMAIN s
    <2>1. DOMAIN Tail(s) = 1 .. Len(s) - 1
          /\ \A i \in DOMAIN Tail(s) : Tail(s)[i] = s[i + 1] /\ i + 1 \in DOMAIN s
      BY <1>1, HeadTail, Zenon
    <2>2. Tail(s) # <<>>
      <3>1. Len(Tail(s)) # 0
        BY <1>2
      <3> QED BY <3>1, EmptySeq, Zenon
    <2> QED BY <2>1, <2>2, Zenon
  <1>4. Tail(s)[Len(s) - 1] = x
    BY <1>2, <1>3 DEF EndsWith
  <1>5. ASSUME NEW i \in 1 .. Len(s) - 1, Tail(s)[i] = x PROVE i = Len(s) - 1
    <2>1. i + 1 = Len(s)
      BY <1>3, <1>5, Zenon DEF EndsWith
    <2>2. i \in Int /\ \A k, n \in Int : k + 1 = n => k = n - 1
      BY <1>2
    <2>3. Len(s) \in Int
      BY <1>2
    <2> QED BY <2>1, <2>2, <2>3, Zenon
  <1> QED BY <1>2, <1>3, <1>4, <1>5, Zenon DEF EndsWith

(* A sequence that ends with its first element has no other.                *)
LEMMA EndsAtOnce ==
    ASSUME NEW S, NEW s \in Seq(S), NEW x, EndsWith(s, x), s[1] = x
    PROVE  \A y : Has(s, y) => y = x
  <1>1. s # <<>>
    BY Zenon DEF EndsWith
  <1>2. 1 \in DOMAIN s /\ DOMAIN s = 1 .. Len(s)
    BY <1>1, HeadTail, Zenon
  <1>3. Len(s) = 1
    BY <1>2, Zenon DEF EndsWith
  <1> QED BY <1>2, <1>3 DEF Has


(***************************************************************************)
(* The calls of open_logs                                                  *)
(***************************************************************************)

(* The calls that open_logs makes for one log.                              *)
LogCalls == {"rm", "time"} \X Logs

(* The calls that concern the checkpoint and the opening are of their own   *)
(* kind.                                                                    *)
LEMMA CallsDiffer ==
    /\ LogCalls \subseteq Calls
    /\ <<"ckpt", "none">> \in Calls /\ <<"rmckpt", "none">> \in Calls /\ <<"open", "none">> \in Calls
    /\ <<"ckpt", "none">> # <<"rmckpt", "none">> /\ <<"ckpt", "none">> # <<"open", "none">>
    /\ <<"rmckpt", "none">> # <<"open", "none">>
    /\ \A l : /\ <<"rm", l>> \notin {<<"ckpt", "none">>, <<"rmckpt", "none">>, <<"open", "none">>}
              /\ <<"time", l>> \notin {<<"ckpt", "none">>, <<"rmckpt", "none">>, <<"open", "none">>}
    /\ \A k, l : /\ <<"rm", k>> # <<"time", l>>
                 /\ <<"rm", k>> = <<"rm", l>> => k = l
                 /\ <<"time", k>> = <<"time", l>> => k = l
    /\ \A l \in Logs : <<"rm", l>> \in LogCalls /\ <<"time", l>> \in LogCalls
    /\ \A x \in LogCalls : x \notin {<<"ckpt", "none">>, <<"rmckpt", "none">>, <<"open", "none">>}
  BY DEF Calls, LogCalls

(* A sequence of calls without the opening, and with the checkpoint first.  *)
Prelude(s) == s \in Seq(Calls) /\ CkptFirst(s) /\ ~Has(s, <<"open", "none">>)

(* Calls for logs may follow.                                               *)
LEMMA CkptFirstConcat ==
    ASSUME NEW s \in Seq(Calls), NEW t \in Seq(Calls), CkptFirst(s),
           ~Has(t, <<"ckpt", "none">>), ~Has(t, <<"rmckpt", "none">>)
    PROVE  CkptFirst(s \o t)
  <1>1. /\ Len(s) \in Nat /\ DOMAIN s = 1 .. Len(s) /\ Len(t) \in Nat /\ DOMAIN t = 1 .. Len(t)
        /\ Len(s \o t) = Len(s) + Len(t) /\ DOMAIN (s \o t) = 1 .. Len(s) + Len(t)
        /\ \A i \in 1 .. Len(s) + Len(t) : (s \o t)[i] = IF i <= Len(s) THEN s[i] ELSE t[i - Len(s)]
    BY LenProperties, ConcatProperties
  <1>2. ASSUME NEW i \in 1 .. Len(s) + Len(t), (s \o t)[i] \in {<<"ckpt", "none">>, <<"rmckpt", "none">>}
        PROVE  i = 1
    <2>1. CASE i <= Len(s)
      <3>1. i \in DOMAIN s /\ (s \o t)[i] = s[i]
        BY <1>1, <2>1
      <3> QED BY <1>2, <3>1, Zenon DEF CkptFirst
    <2>2. CASE ~(i <= Len(s))
      <3>1. i - Len(s) \in DOMAIN t /\ (s \o t)[i] = t[i - Len(s)]
        BY <1>1, <2>2
      <3> QED BY <1>2, <3>1, Zenon DEF Has
    <2> QED BY <2>1, <2>2, Zenon
  <1> QED BY <1>1, <1>2, Zenon DEF CkptFirst

(* A prelude followed by calls for logs is a prelude.                       *)
LEMMA PreludeConcat ==
    ASSUME NEW s, Prelude(s), NEW p \in Seq(LogCalls)
    PROVE  Prelude(s \o p) /\ \A y : Has(s \o p, y) <=> Has(s, y) \/ Has(p, y)
  <1>1. p \in Seq(Calls) /\ \A y : Has(p, y) => y \in LogCalls
    BY CallsDiffer DEF Has
  <1>2. s \in Seq(Calls)
    BY Zenon DEF Prelude
  <1>3. s \o p \in Seq(Calls)
    BY <1>1, <1>2, ConcatProperties, Zenon
  <1>4. \A y : Has(s \o p, y) <=> Has(s, y) \/ Has(p, y)
    BY <1>1, <1>2, HasConcat, Zenon
  <1>5. ~Has(p, <<"ckpt", "none">>) /\ ~Has(p, <<"rmckpt", "none">>) /\ ~Has(p, <<"open", "none">>)
    BY <1>1, CallsDiffer, Zenon
  <1>6. CkptFirst(s \o p)
    BY <1>1, <1>2, <1>5, CkptFirstConcat, Zenon DEF Prelude
  <1> QED BY <1>3, <1>4, <1>5, <1>6, Zenon DEF Prelude

(* The calls of check_logs: the checkpoint, the time of every log that is   *)
(* kept, and the removal of the others.                                     *)
LEMMA CheckLogs ==
    ASSUME NEW t \in [Logs -> Nat]
    PROVE  /\ Prelude(check_logs(t)) /\ Has(check_logs(t), <<"ckpt", "none">>)
           /\ \A l \in Logs : (l \in SaveLogs => t[l] > 0) =>
                 Has(check_logs(t), <<"time", l>>) /\ ~Has(check_logs(t), <<"rm", l>>)
  <1> DEFINE T(l) == <<<<"time", l>>>>
             K(l) == IF t[l] > 0 THEN T(l) ELSE <<>>
             U(l) == IF t[l] = 0 THEN <<<<"rm", l>>>> ELSE <<>>
             s1 == <<<<"ckpt", "none">>>>
             s2 == s1 \o T("err")
             s3 == s2 \o K("err_save")
             s4 == s3 \o T("msg")
             s5 == s4 \o K("msg_save")
             s6 == s5 \o U("err_save")
             s7 == s6 \o U("msg_save")
  <1>0. "err" \in Logs /\ "msg" \in Logs /\ "err_save" \in Logs /\ "msg_save" \in Logs
        /\ \A l \in Logs : ~(t[l] > 0 /\ t[l] = 0)
    BY DEF Logs
  <1>1. check_logs(t) = s7
    BY Zenon DEF check_logs
  <1>2. Prelude(s1) /\ \A y : Has(s1, y) <=> y = <<"ckpt", "none">>
    <2>1. s1 \in Seq(Calls) /\ CkptFirst(s1)
      BY CallsDiffer DEF CkptFirst
    <2>2. \A y : Has(s1, y) <=> y = <<"ckpt", "none">>
      BY HasShort, Zenon
    <2> QED BY <2>1, <2>2, CallsDiffer, Zenon DEF Prelude
  <1>t. \A l \in Logs : T(l) \in Seq(LogCalls) /\ K(l) \in Seq(LogCalls) /\ U(l) \in Seq(LogCalls)
    <2>1. <<>> \in Seq(LogCalls) /\ \A x \in LogCalls : <<x>> \in Seq(LogCalls)
      OBVIOUS
    <2> QED BY <2>1, CallsDiffer, Zenon
  <1>h. \A l \in Logs : \A y : /\ (Has(T(l), y) <=> y = <<"time", l>>)
                             /\ (Has(K(l), y) <=> t[l] > 0 /\ y = <<"time", l>>)
                             /\ (Has(U(l), y) <=> t[l] = 0 /\ y = <<"rm", l>>)
    BY HasShort, Zenon
  <1> HIDE DEF s1, T, K, U
  <1>3. Prelude(s2) /\ \A y : Has(s2, y) <=> Has(s1, y) \/ y = <<"time", "err">>
    <2>1. Prelude(s2) /\ \A y : Has(s2, y) <=> Has(s1, y) \/ Has(T("err"), y)
      BY <1>0, <1>2, <1>t, PreludeConcat, Zenon
    <2> QED BY <1>0, <1>h, <2>1, Zenon
  <1> HIDE DEF s2
  <1>4. Prelude(s3) /\ \A y : Has(s3, y) <=> Has(s2, y) \/ (t["err_save"] > 0 /\ y = <<"time", "err_save">>)
    <2>1. Prelude(s3) /\ \A y : Has(s3, y) <=> Has(s2, y) \/ Has(K("err_save"), y)
      BY <1>0, <1>3, <1>t, PreludeConcat, Zenon
    <2> QED BY <1>0, <1>h, <2>1, Zenon
  <1> HIDE DEF s3
  <1>5. Prelude(s4) /\ \A y : Has(s4, y) <=> Has(s3, y) \/ y = <<"time", "msg">>
    <2>1. Prelude(s4) /\ \A y : Has(s4, y) <=> Has(s3, y) \/ Has(T("msg"), y)
      BY <1>0, <1>4, <1>t, PreludeConcat, Zenon
    <2> QED BY <1>0, <1>h, <2>1, Zenon
  <1> HIDE DEF s4
  <1>6. Prelude(s5) /\ \A y : Has(s5, y) <=> Has(s4, y) \/ (t["msg_save"] > 0 /\ y = <<"time", "msg_save">>)
    <2>1. Prelude(s5) /\ \A y : Has(s5, y) <=> Has(s4, y) \/ Has(K("msg_save"), y)
      BY <1>0, <1>5, <1>t, PreludeConcat, Zenon
    <2> QED BY <1>0, <1>h, <2>1, Zenon
  <1> HIDE DEF s5
  <1>7. Prelude(s6) /\ \A y : Has(s6, y) <=> Has(s5, y) \/ (t["err_save"] = 0 /\ y = <<"rm", "err_save">>)
    <2>1. Prelude(s6) /\ \A y : Has(s6, y) <=> Has(s5, y) \/ Has(U("err_save"), y)
      BY <1>0, <1>6, <1>t, PreludeConcat, Zenon
    <2> QED BY <1>0, <1>h, <2>1, Zenon
  <1> HIDE DEF s6
  <1>8. Prelude(s7) /\ \A y : Has(s7, y) <=> Has(s6, y) \/ (t["msg_save"] = 0 /\ y = <<"rm", "msg_save">>)
    <2>1. Prelude(s7) /\ \A y : Has(s7, y) <=> Has(s6, y) \/ Has(U("msg_save"), y)
      BY <1>0, <1>7, <1>t, PreludeConcat, Zenon
    <2> QED BY <1>0, <1>h, <2>1, Zenon
  <1> HIDE DEF s7
  <1>9. Has(s7, <<"ckpt", "none">>)
    BY <1>2, <1>3, <1>4, <1>5, <1>6, <1>7, <1>8, Zenon
  <1>10. ASSUME NEW l \in Logs, l \in SaveLogs => t[l] > 0
         PROVE  Has(s7, <<"time", l>>) /\ ~Has(s7, <<"rm", l>>)
    <2>1. l \in {"msg", "err"} \/ (l \in {"msg_save", "err_save"} /\ t[l] > 0)
      BY <1>10, Zenon DEF Logs, SaveLogs
    <2>2. Has(s7, <<"time", l>>)
      BY <1>3, <1>4, <1>5, <1>6, <1>7, <1>8, <2>1, Zenon
    <2>3. ASSUME Has(s7, <<"rm", l>>) PROVE FALSE
      <3>1. (t["err_save"] = 0 /\ l = "err_save") \/ (t["msg_save"] = 0 /\ l = "msg_save")
        BY <1>2, <1>3, <1>4, <1>5, <1>6, <1>7, <1>8, <2>3, CallsDiffer, Zenon
      <3> QED BY <1>0, <2>1, <3>1, Zenon
    <2> QED BY <2>2, <2>3, Zenon
  <1> QED BY <1>1, <1>8, <1>9, <1>10, Zenon

(* rm_file is called for every log.                                         *)
LEMMA RemoveAll ==
    /\ Each("rm", Order) \in Seq(LogCalls)
    /\ \A l \in Logs : Has(Each("rm", Order), <<"rm", l>>)
    /\ \A x : Has(Each("rm", Order), x) => x \in {"rm"} \X Logs
  <1> DEFINE s == Each("rm", Order)
  <1>1. DOMAIN s = 1 .. 4 /\ s[1] = <<"rm", "err">> /\ s[2] = <<"rm", "msg">>
        /\ s[3] = <<"rm", "err_save">> /\ s[4] = <<"rm", "msg_save">>
        /\ s = [i \in 1 .. 4 |-> s[i]]
    BY DEF Each, Order
  <1> HIDE DEF s
  <1>2. \A i \in DOMAIN s : s[i] \in {"rm"} \X Logs
    BY <1>1 DEF Logs
  <1>3. \A l \in Logs : Has(s, <<"rm", l>>)
    BY <1>1 DEF Logs, Has
  <1>4. \A i \in 1 .. 4 : s[i] \in LogCalls
    BY <1>1, <1>2, Zenon DEF LogCalls
  <1>5. s \in [1 .. 4 -> LogCalls]
    BY <1>1, <1>4, Zenon
  <1>6. s \in Seq(LogCalls)
    <2>1. s \in UNION {[1 .. n -> LogCalls] : n \in Nat}
      BY <1>5, Zenon
    <2> QED BY <2>1, SeqDef, Zenon
  <1>7. \A x : Has(s, x) => x \in {"rm"} \X Logs
    BY <1>2, Zenon DEF Has
  <1> QED BY <1>3, <1>6, <1>7, Zenon DEF s

(* The opening of the logs ends the calls of open_logs.                     *)
LEMMA OpenEnds ==
    ASSUME NEW s, Prelude(s)
    PROVE  /\ s \o <<<<"open", "none">>>> \in Seq(Calls)
           /\ OpenLast(s \o <<<<"open", "none">>>>) /\ CkptFirst(s \o <<<<"open", "none">>>>)
           /\ \A y : Has(s \o <<<<"open", "none">>>>, y) <=> Has(s, y) \/ y = <<"open", "none">>
  <1> DEFINE o == <<<<"open", "none">>>>
  <1>1. o \in Seq(Calls) /\ EndsWith(o, <<"open", "none">>)
    BY CallsDiffer DEF EndsWith
  <1>2. \A y : Has(o, y) <=> y = <<"open", "none">>
    BY HasShort, Zenon
  <1> HIDE DEF o
  <1>3. s \in Seq(Calls) /\ CkptFirst(s) /\ ~Has(s, <<"open", "none">>)
    BY Zenon DEF Prelude
  <1>4. s \o o \in Seq(Calls)
    BY <1>1, <1>3, ConcatProperties, Zenon
  <1>5. OpenLast(s \o o)
    BY <1>1, <1>3, EndsWithConcat, Zenon DEF OpenLast
  <1>6. CkptFirst(s \o o)
    BY <1>1, <1>2, <1>3, CkptFirstConcat, CallsDiffer, Zenon
  <1>7. \A y : Has(s \o o, y) <=> Has(s, y) \/ Has(o, y)
    BY <1>1, <1>3, HasConcat, Zenon
  <1> QED BY <1>2, <1>4, <1>5, <1>6, <1>7, Zenon DEF o

(* The calls of open_logs: a checkpoint is looked at or removed, and every  *)
(* log of which something is kept is checked or removed.                    *)
LEMMA OpenLogsCalls ==
    ASSUME NEW auto \in BOOLEAN, NEW t \in [Logs -> Nat], NEW s, s = open_logs(auto, t)
    PROVE  /\ s \in Seq(Calls) /\ OpenLast(s) /\ CkptFirst(s)
           /\ Has(s, <<"ckpt", "none">>) \/ Has(s, <<"rmckpt", "none">>)
           /\ \A l \in Logs : (l \in SaveLogs => t[l] > 0) =>
                 /\ Has(s, <<"time", l>>) \/ Has(s, <<"rm", l>>)
                 /\ Has(s, <<"ckpt", "none">>) => Has(s, <<"time", l>>) /\ ~Has(s, <<"rm", l>>)
  <1>1. CASE auto
    <2>1. s = check_logs(t) \o <<<<"open", "none">>>>
      BY <1>1, Zenon DEF open_logs
    <2>2. \A y : Has(s, y) <=> Has(check_logs(t), y) \/ y = <<"open", "none">>
      BY <2>1, CheckLogs, OpenEnds, Zenon
    <2>3. s \in Seq(Calls) /\ OpenLast(s) /\ CkptFirst(s)
      BY <2>1, CheckLogs, OpenEnds, Zenon
    <2> QED BY <2>2, <2>3, CheckLogs, CallsDiffer, Zenon
  <1>2. CASE ~auto
    <2> DEFINE r == <<<<"rmckpt", "none">>>>
               e == Each("rm", Order)
    <2>1. s = r \o e \o <<<<"open", "none">>>>
      BY <1>2, Zenon DEF open_logs
    <2>2. Prelude(r) /\ \A y : Has(r, y) <=> y = <<"rmckpt", "none">>
      <3>1. r \in Seq(Calls) /\ CkptFirst(r)
        BY CallsDiffer DEF CkptFirst
      <3>2. \A y : Has(r, y) <=> y = <<"rmckpt", "none">>
        BY HasShort, Zenon
      <3> QED BY <3>1, <3>2, CallsDiffer, Zenon DEF Prelude
    <2>3. e \in Seq(LogCalls) /\ (\A l \in Logs : Has(e, <<"rm", l>>))
          /\ \A x : Has(e, x) => x \in LogCalls
      <3>1. {"rm"} \X Logs \subseteq LogCalls
        BY Zenon DEF LogCalls
      <3> QED BY <3>1, RemoveAll, Zenon
    <2> HIDE DEF r, e
    <2>4. Prelude(r \o e) /\ \A y : Has(r \o e, y) <=> Has(r, y) \/ Has(e, y)
      BY <2>2, <2>3, PreludeConcat, Zenon
    <2>5. s \in Seq(Calls) /\ OpenLast(s) /\ CkptFirst(s)
      BY <2>1, <2>4, OpenEnds, Zenon
    <2>6. \A y : Has(s, y) <=> Has(r \o e, y) \/ y = <<"open", "none">>
      <3>1. \A y : Has(r \o e \o <<<<"open", "none">>>>, y) <=> Has(r \o e, y) \/ y = <<"open", "none">>
        BY <2>4, OpenEnds, Zenon
      <3> QED BY <2>1, <3>1, Zenon
    <2>7. Has(s, <<"rmckpt", "none">>) /\ ~Has(s, <<"ckpt", "none">>)
      BY <2>2, <2>3, <2>4, <2>6, CallsDiffer, Zenon
    <2>8. \A l \in Logs : Has(s, <<"rm", l>>)
      BY <2>3, <2>4, <2>6, Zenon
    <2> QED BY <2>5, <2>7, <2>8, Zenon
  <1> QED BY <1>1, <1>2, Zenon

(* After a call of open_logs the others are left, in their order, and the   *)
(* checkpoint is not among them.                                            *)
LEMMA StartStep ==
    ASSUME Types, StartOrder, NEW op, NEW k, Starting(op, k), op # "open"
    PROVE  /\ Tail(todo) \in Seq(Calls) /\ OpenLast(Tail(todo)) /\ CkptFirst(Tail(todo))
           /\ ~Has(Tail(todo), <<"ckpt", "none">>) /\ ~Has(Tail(todo), <<"rmckpt", "none">>)
           /\ \A x : Has(Tail(todo), x) => Has(todo, x)
           /\ \A x : Has(todo, x) => x = <<op, k>> \/ Has(Tail(todo), x)
           /\ Has(todo, <<op, k>>)
  <1>1. todo \in Seq(Calls) /\ todo # <<>> /\ OpenLast(todo) /\ CkptFirst(todo) /\ Head(todo) = <<op, k>>
    BY Zenon DEF Types, StartOrder, Starting
  <1>2. /\ todo[1] = <<op, k>> /\ 1 \in DOMAIN todo /\ Tail(todo) \in Seq(Calls)
        /\ DOMAIN Tail(todo) = 1 .. Len(todo) - 1 /\ Len(todo) \in Nat
        /\ \A i \in DOMAIN Tail(todo) : Tail(todo)[i] = todo[i + 1] /\ i + 1 \in DOMAIN todo
    BY <1>1, HeadTail, Zenon
  <1>3. <<op, k>> # <<"open", "none">>
    BY Zenon
  <1>4. OpenLast(Tail(todo))
    BY <1>1, <1>2, <1>3, EndsWithTail, Zenon DEF OpenLast
  <1>5. \A i \in DOMAIN Tail(todo) : i + 1 # 1
    BY <1>2
  <1>6. \A i \in DOMAIN Tail(todo) : Tail(todo)[i] \notin {<<"ckpt", "none">>, <<"rmckpt", "none">>}
    BY <1>1, <1>2, <1>5, Zenon DEF CkptFirst
  <1>7. ~Has(Tail(todo), <<"ckpt", "none">>) /\ ~Has(Tail(todo), <<"rmckpt", "none">>) /\ CkptFirst(Tail(todo))
    BY <1>6, Zenon DEF Has, CkptFirst
  <1>8. \A x : /\ Has(Tail(todo), x) => Has(todo, x)
               /\ Has(todo, x) => x = <<op, k>> \/ Has(Tail(todo), x)
    BY <1>1, <1>2, HasTail, Zenon
  <1> QED BY <1>2, <1>4, <1>7, <1>8, Zenon DEF Has

(***************************************************************************)
(* The invariant                                                           *)
(***************************************************************************)

(* The checkpoint structures.                                               *)
LEMMA CkptTypes ==
    /\ \A t \in [Logs -> Nat] : /\ Zero(t) \in Ckpts
                                /\ \A l \in Logs : Zero(t).mod_time[l] = 0 /\ Zero(t).offset[l] = 0
    /\ \A kind \in {"empty", "short", "bad"} :
          /\ Unusable(kind).kind = kind
          /\ Unusable(kind) \in [kind : {"empty", "short", "bad", "good"}, ckpt : Ckpts]
    /\ \A c \in Ckpts : /\ Usable(c).kind = "good" /\ Usable(c).ckpt = c
                        /\ Usable(c) \in [kind : {"empty", "short", "bad", "good"}, ckpt : Ckpts]
  <1>1. \A t \in [Logs -> Nat] : /\ Zero(t) \in Ckpts
                                 /\ \A l \in Logs : Zero(t).mod_time[l] = 0 /\ Zero(t).offset[l] = 0
    BY Zenon DEF Zero, Ckpts
  <1>2. (CHOOSE t \in Profiles : TRUE) \in [Logs -> Nat]
    BY LogAssumption, Zenon
  <1> QED BY <1>1, <1>2, Zenon DEF Unusable, Usable

(* The checkpoint of one log is set.                                        *)
Updated(c, k, o, m) == [c EXCEPT !.offset[k] = o, !.mod_time[k] = m]

IsUpdated(d, c, k, o, m) ==
    /\ d \in Ckpts /\ d.mod_time[k] = m /\ d.offset[k] = o
    /\ \A l \in Logs : l # k => d.mod_time[l] = c.mod_time[l] /\ d.offset[l] = c.offset[l]

(* Setting the checkpoint of one log leaves the other logs' alone, as in    *)
(* update_ckpt and check_time.                                              *)
LEMMA CkptUpdate ==
    ASSUME NEW c \in Ckpts, NEW k \in Logs, NEW m \in Nat, NEW o \in Nat
    PROVE  IsUpdated(Updated(c, k, o, m), c, k, o, m)
  <1> DEFINE O == [c.offset EXCEPT ![k] = o]
             M == [c.mod_time EXCEPT ![k] = m]
             c1 == [c EXCEPT !.offset = O]
             c2 == [c1 EXCEPT !.mod_time = M]
  <1>1. c.thres \in [Logs -> Nat] /\ c.offset \in [Logs -> Nat] /\ c.mod_time \in [Logs -> Nat]
    BY Zenon DEF Ckpts
  <1>2. /\ O \in [Logs -> Nat] /\ O[k] = o /\ \A l \in Logs : l # k => O[l] = c.offset[l]
        /\ M \in [Logs -> Nat] /\ M[k] = m /\ \A l \in Logs : l # k => M[l] = c.mod_time[l]
    BY <1>1, Zenon
  <1> HIDE DEF O, M
  <1>3. c1 \in Ckpts /\ c1.offset = O /\ c1.mod_time = c.mod_time
    BY <1>2, Zenon DEF Ckpts
  <1> HIDE DEF c1
  <1>4. c2 \in Ckpts /\ c2.offset = O /\ c2.mod_time = M
    BY <1>2, <1>3, Zenon DEF Ckpts
  <1>5. Updated(c, k, o, m) = c2
    BY <1>3, Zenon DEF Updated, c1, M, O
  <1> HIDE DEF c2
  <1> QED BY <1>2, <1>4, <1>5, Zenon DEF IsUpdated

(* The types of the numbers.                                                *)
LEMMA Numbers ==
    ASSUME Types, NEW l \in Logs
    PROVE  /\ checkpt.mod_time[l] \in Nat /\ checkpt.offset[l] \in Nat
           /\ disk.ckpt.mod_time[l] \in Nat /\ disk.ckpt.offset[l] \in Nat /\ disk.ckpt \in Ckpts
           /\ file[l].there \in BOOLEAN /\ file[l].mtime \in Nat /\ file[l].data \in Seq(Nat)
           /\ fd[l] \in Nat \cup {Closed} /\ fd[l] \in Int /\ thres[l] \in Nat
           /\ left[l][1] \in Nat /\ left[l][2] \in Nat /\ left[l] = <<left[l][1], left[l][2]>>
           /\ clock \in Nat \ {0} /\ next \in Nat \ {0}
  BY DEF Types, Ckpts, Closed

(* The first state.                                                         *)
LEMMA InitLogInv == Init => LogInv
  <1> SUFFICES ASSUME Init PROVE LogInv
    BY Zenon
  <1> USE DEF Init
  <1>1. thres \in [Logs -> Nat]
    BY LogAssumption, Zenon
  <1>2. Types
    <2>1. file \in [Logs -> [there : BOOLEAN, data : Seq(Nat), mtime : Nat]]
      BY DEF Missing
    <2>2. disk \in [kind : {"empty", "short", "bad", "good"}, ckpt : Ckpts] /\ checkpt \in Ckpts
      BY <1>1, CkptTypes, Zenon
    <2>3. /\ fd \in [Logs -> Nat \cup {Closed}] /\ left \in [Logs -> Nat \X Nat]
          /\ msg \in [id : Nat, len : Nat, error : BOOLEAN, final : BOOLEAN]
      BY Zenon DEF NoMsg
    <2>4. archive \in Seq(SUBSET Nat) /\ ~Copying
      BY DEF Copying
    <2>5. /\ clock \in Nat \ {0} /\ file_offset \in Nat /\ archive_sequence_count \in Nat
          /\ first \in Nat \ {0} /\ next \in Nat \ {0} /\ first <= next
      OBVIOUS
    <2>6. /\ pc \in {"down", "start", "idle", "copy", "wrap", "ckpt", "end"} /\ pc # "start"
          /\ ckpt_file \in BOOLEAN
      BY Zenon
    <2> QED BY <1>1, <2>1, <2>2, <2>3, <2>4, <2>5, <2>6, Zenon DEF Types
  <1>3. StartOrder /\ CopyOrder /\ AfterWrite /\ NoCheckpoint
    BY <1>1, CkptTypes, Zenon DEF StartOrder, CopyOrder, AfterWrite, NoCheckpoint, Copying, Running, Zeroed
  <1>4. disk.kind = "empty"
    BY CkptTypes, Zenon
  <1>5. Times
    BY <1>1, <1>4, CkptTypes DEF Times
  <1>6. Checkpoints
    BY <1>4, Zenon DEF Checkpoints, Running
  <1>7. Laps
    BY DEF Laps, InOrder, Missing
  <1>8. \A l \in Logs : FileState(l) /\ Position(l) /\ Starts(l)
    BY DEF FileState, Position, Starts, Missing, Running
  <1> QED BY <1>2, <1>3, <1>5, <1>6, <1>7, <1>8, Zenon DEF LogInv

(* Before the logs are open.                                                *)
LEMMA NotRunning ==
    ASSUME pc \in {"down", "start"}, pc' \in {"down", "start"}, fd' = fd \/ fd' = [l \in Logs |-> Closed],
           \A l \in Logs : Position(l)
    PROVE  /\ CopyOrder' /\ AfterWrite' /\ ~Running' /\ ~Copying' /\ ~Running
           /\ \A l \in Logs : Position(l)'
  <1>1. ~Running /\ ~Running' /\ ~Copying' /\ pc' \notin {"wrap", "ckpt"}
    BY Zenon DEF Running, Copying
  <1>2. CopyOrder' /\ AfterWrite'
    BY <1>1, Zenon DEF CopyOrder, AfterWrite
  <1>3. \A l \in Logs : Position(l)'
    BY <1>1, Zenon DEF Position
  <1> QED BY <1>1, <1>2, <1>3, Zenon

(* main: the structure is cleared and open_logs begins, later than every    *)
(* checkpoint.                                                              *)
LEMMA StartInv == ASSUME LogInv, Start PROVE LogInv'
  <1> PICK auto \in BOOLEAN, t \in Profiles :
         thres' = t /\ todo' = open_logs(auto, t) /\ checkpt' = Zero(t)
    BY Zenon DEF Start
  <1>0. /\ pc = "down" /\ pc' = "start" /\ clock' = clock + 1 /\ first' = next
        /\ UNCHANGED <<file, disk, archive, fd, ckpt_file, archive_sequence_count, msg,
                       file_offset, next, failed, left>>
    BY Zenon DEF Start, files
  <1>1. t \in [Logs -> Nat]
    BY LogAssumption, Zenon
  <1>2. /\ todo' \in Seq(Calls) /\ OpenLast(todo') /\ CkptFirst(todo')
        /\ Has(todo', <<"ckpt", "none">>) \/ Has(todo', <<"rmckpt", "none">>)
        /\ \A l \in Logs : (l \in SaveLogs => t[l] > 0) =>
              /\ Has(todo', <<"time", l>>) \/ Has(todo', <<"rm", l>>)
              /\ Has(todo', <<"ckpt", "none">>) => Has(todo', <<"time", l>>) /\ ~Has(todo', <<"rm", l>>)
    BY <1>1, OpenLogsCalls, Zenon
  <1>3. checkpt' \in Ckpts /\ \A l \in Logs : Zeroed(l)'
    BY <1>1, CkptTypes, Zenon DEF Zeroed
  <1>4. CopyOrder' /\ AfterWrite' /\ ~Running' /\ ~Copying' /\ \A l \in Logs : Position(l)'
    BY <1>0, NotRunning, Zenon DEF LogInv
  <1>5. Types'
    BY <1>0, <1>1, <1>2, <1>3, <1>4 DEF LogInv, Types
  <1>6. StartOrder'
    BY <1>2, Zenon DEF StartOrder
  <1>7. Times'
    <2>1. \A l \in Logs : disk.ckpt.mod_time[l] \in Nat /\ clock \in Nat
      BY Numbers, Zenon DEF LogInv
    <2>2. disk.kind = "good" => \A l \in Logs : disk.ckpt.mod_time[l] <= clock
      BY Zenon DEF LogInv, Times
    <2>3. \A l \in Logs : checkpt'.mod_time[l] = 0
      BY <1>3, Zenon DEF Zeroed
    <2>4. clock' = clock + 1 /\ disk' = disk /\ pc' = "start" /\ clock \in Nat
      BY <1>0, Zenon DEF LogInv, Types
    <2> QED BY <2>1, <2>2, <2>3, <2>4 DEF Times
  <1>8. Laps' /\ Checkpoints'
    BY <1>0, <1>4, Zenon DEF LogInv, Laps, InOrder, Checkpoints, Agrees
  <1>9. NoCheckpoint'
    BY <1>2, <1>3, <1>4, Zenon DEF NoCheckpoint, Pending
  <1>10. ASSUME NEW l \in Logs PROVE FileState(l)'
    <2>1. FileState(l) /\ clock \in Nat /\ next \in Nat
      BY Zenon DEF LogInv, Types
    <2> QED BY <1>0, <2>1 DEF FileState
  <1>11. ASSUME NEW l \in Logs PROVE Starts(l)'
    BY <1>2, <1>3, Zenon DEF Starts, Pending, Kept
  <1> QED BY <1>4, <1>5, <1>6, <1>7, <1>8, <1>9, <1>10, <1>11, Zenon DEF LogInv

(* rm_ckpt: there is no checkpoint.                                         *)
LEMMA RmCkptInv == ASSUME LogInv, rm_ckpt PROVE LogInv'
  <1>0. /\ pc = "start" /\ pc' = "start" /\ todo' = Tail(todo) /\ disk' = Unusable("empty")
        /\ UNCHANGED <<file, archive, clock, thres, fd, ckpt_file, checkpt, archive_sequence_count,
                       msg, file_offset, next, first, failed, left>>
    BY Zenon DEF rm_ckpt, Starting, local, history
  <1>1. /\ todo' \in Seq(Calls) /\ OpenLast(todo') /\ CkptFirst(todo')
        /\ ~Has(todo', <<"ckpt", "none">>) /\ ~Has(todo', <<"rmckpt", "none">>)
        /\ \A x : Has(todo', x) => Has(todo, x)
        /\ \A x : Has(todo, x) => x = <<"rmckpt", "none">> \/ Has(todo', x)
        /\ Has(todo, <<"rmckpt", "none">>)
    <2>1. Types /\ StartOrder /\ Starting("rmckpt", "none") /\ "rmckpt" # "open"
      BY Zenon DEF LogInv, rm_ckpt
    <2> QED BY <1>0, <2>1, StartStep, Zenon
  <1>2. disk'.kind = "empty" /\ disk' \in [kind : {"empty", "short", "bad", "good"}, ckpt : Ckpts]
    BY <1>0, CkptTypes, Zenon
  <1>4. CopyOrder' /\ AfterWrite' /\ ~Running' /\ ~Copying' /\ \A l \in Logs : Position(l)'
    BY <1>0, NotRunning, Zenon DEF LogInv
  <1>5. Types'
    BY <1>0, <1>1, <1>2, <1>4, Zenon DEF LogInv, Types
  <1>6. StartOrder'
    BY <1>1, Zenon DEF StartOrder
  <1>7. Times'
    BY <1>0, <1>2, Zenon DEF LogInv, Times
  <1>8. Laps' /\ Checkpoints'
    <2>1. disk'.kind # "good"
      BY <1>2, Zenon
    <2> QED BY <1>0, <1>4, <2>1, Zenon DEF LogInv, Laps, InOrder, Checkpoints
  <1>9. NoCheckpoint'
    BY <1>0, <1>2, <1>4, Zenon DEF LogInv, NoCheckpoint, Zeroed
  <1>10. ASSUME NEW l \in Logs PROVE FileState(l)'
    BY <1>0, Zenon DEF LogInv, FileState
  <1>11. ASSUME NEW l \in Logs PROVE Starts(l)'
    <2>1. Starts(l) /\ Zeroed(l) /\ Zeroed(l)'
      BY <1>0, <1>1, Zenon DEF LogInv, Starts, Pending, Zeroed
    <2> QED BY <1>0, <1>1, <2>1, CallsDiffer, Zenon DEF Starts, Pending, Kept, Checked
  <1> QED BY <1>4, <1>5, <1>6, <1>7, <1>8, <1>9, <1>10, <1>11, Zenon DEF LogInv

(* check_ckpt: the checkpoint is taken over, or every log is to be removed. *)
LEMMA CheckCkptInv == ASSUME LogInv, check_ckpt PROVE LogInv'
  <1>0. /\ pc = "start" /\ pc' = "start" /\ ckpt_file' = TRUE
        /\ UNCHANGED <<file, archive, clock, thres, fd, archive_sequence_count, msg, file_offset,
                       next, first, failed, left>>
    BY Zenon DEF check_ckpt, Starting, history
  <1>1. /\ Tail(todo) \in Seq(Calls) /\ OpenLast(Tail(todo)) /\ CkptFirst(Tail(todo))
        /\ ~Has(Tail(todo), <<"ckpt", "none">>) /\ ~Has(Tail(todo), <<"rmckpt", "none">>)
        /\ \A x : Has(Tail(todo), x) => Has(todo, x)
        /\ \A x : Has(todo, x) => x = <<"ckpt", "none">> \/ Has(Tail(todo), x)
        /\ Has(todo, <<"ckpt", "none">>)
    <2>1. Types /\ StartOrder /\ Starting("ckpt", "none") /\ "ckpt" # "open"
      BY Zenon DEF LogInv, check_ckpt
    <2> QED BY <2>1, StartStep, Zenon
  <1>2. CopyOrder' /\ AfterWrite' /\ ~Running' /\ ~Copying' /\ \A l \in Logs : Position(l)'
    BY <1>0, NotRunning, Zenon DEF LogInv
  <1>3. Laps' /\ NoCheckpoint' /\ \A l \in Logs : FileState(l)'
    BY <1>0, Zenon DEF LogInv, Laps, InOrder, FileState, NoCheckpoint
  <1>4. ASSUME disk.kind = "good", disk.ckpt.thres = thres PROVE LogInv'
    <2>1. checkpt' = disk.ckpt /\ todo' = Tail(todo) /\ disk' = disk
      BY <1>4, Zenon DEF check_ckpt
    <2>2. Types'
      <3>1. Types /\ disk.ckpt \in Ckpts
        BY Zenon DEF LogInv, Types
      <3> QED BY <1>0, <1>1, <1>2, <2>1, <3>1, Zenon DEF Types
    <2>3. StartOrder'
      BY <1>1, <2>1, Zenon DEF StartOrder
    <2>4. Times'
      BY <1>0, <1>4, <2>1, Zenon DEF LogInv, Times
    <2>5. Checkpoints'
      BY <1>0, <1>2, <2>1, Zenon DEF LogInv, Checkpoints, Agrees
    <2>6. ASSUME NEW l \in Logs PROVE Starts(l)'
      <3>1. Kept(l) => Has(todo, <<"time", l>>) /\ ~Has(todo, <<"rm", l>>)
        BY <1>0, <1>1, Zenon DEF LogInv, Starts, Pending
      <3> QED BY <1>0, <1>1, <1>4, <2>1, <3>1, CallsDiffer, Zenon DEF Starts, Pending, Kept
    <2> QED BY <1>2, <1>3, <2>2, <2>3, <2>4, <2>5, <2>6, Zenon DEF LogInv
  <1>5. ASSUME ~(disk.kind = "good" /\ disk.ckpt.thres = thres) PROVE LogInv'
    <2>1. checkpt' = Zero(thres) /\ disk' = Initialised(disk) /\ todo' = Each("rm", Order) \o Tail(todo)
      BY <1>5, Zenon DEF check_ckpt
    <2>2. thres \in [Logs -> Nat] /\ disk \in [kind : {"empty", "short", "bad", "good"}, ckpt : Ckpts]
      BY Zenon DEF LogInv, Types
    <2>3. checkpt' \in Ckpts /\ \A l \in Logs : Zeroed(l)'
      BY <2>1, <2>2, CkptTypes DEF Zeroed
    <2>4. /\ disk' \in [kind : {"empty", "short", "bad", "good"}, ckpt : Ckpts]
          /\ disk' = disk \/ disk'.kind # "good" \/ \A l \in Logs : disk'.ckpt.mod_time[l] = 0
      BY <2>1, <2>2, CkptTypes DEF Initialised
    <2>5. /\ todo' \in Seq(Calls) /\ OpenLast(todo') /\ CkptFirst(todo')
          /\ ~Has(todo', <<"ckpt", "none">>) /\ ~Has(todo', <<"rmckpt", "none">>)
          /\ \A l \in Logs : Has(todo', <<"rm", l>>)
      <3> DEFINE e == Each("rm", Order)
      <3>1. e \in Seq(LogCalls) /\ (\A l \in Logs : Has(e, <<"rm", l>>))
            /\ \A x : Has(e, x) => x \in LogCalls
        <4>1. {"rm"} \X Logs \subseteq LogCalls
          BY Zenon DEF LogCalls
        <4> QED BY <4>1, RemoveAll, Zenon
      <3> HIDE DEF e
      <3>2. e \in Seq(Calls)
        BY <3>1, CallsDiffer
      <3>3. ~Has(e, <<"ckpt", "none">>) /\ ~Has(e, <<"rmckpt", "none">>) /\ ~Has(e, <<"open", "none">>)
        BY <3>1, CallsDiffer, Zenon
      <3>4. todo' = e \o Tail(todo)
        BY <2>1, Zenon DEF e
      <3>5. e \o Tail(todo) \in Seq(Calls)
        BY <1>1, <3>2, ConcatProperties, Zenon
      <3>6. OpenLast(e \o Tail(todo))
        BY <1>1, <3>2, <3>3, EndsWithConcat, Zenon DEF OpenLast
      <3>7. CkptFirst(e)
        BY <3>3, Zenon DEF CkptFirst, Has
      <3>8. CkptFirst(e \o Tail(todo))
        BY <1>1, <3>2, <3>7, CkptFirstConcat, Zenon
      <3>9. \A x : Has(e \o Tail(todo), x) <=> Has(e, x) \/ Has(Tail(todo), x)
        BY <1>1, <3>2, HasConcat, Zenon
      <3> QED BY <1>1, <3>1, <3>3, <3>4, <3>5, <3>6, <3>8, <3>9, Zenon
    <2>6. Types'
      <3>1. Types
        BY Zenon DEF LogInv
      <3> QED BY <1>0, <1>2, <2>3, <2>4, <2>5, <3>1, Zenon DEF Types
    <2>7. StartOrder'
      BY <2>5, Zenon DEF StartOrder
    <2>8. Times'
      <3>1. Times /\ clock \in Nat \ {0} /\ clock' = clock /\ pc = "start"
        BY <1>0, Zenon DEF LogInv, Types
      <3>2. \A l \in Logs : checkpt'.mod_time[l] = 0
        BY <2>3, Zenon DEF Zeroed
      <3>3. \A n : n = 0 => n <= clock /\ n < clock
        BY <3>1
      <3> QED BY <2>4, <3>1, <3>2, <3>3, Zenon DEF Times
    <2>9. Checkpoints'
      <3>1. ASSUME NEW l \in Logs, disk'.kind = "good", "ckpt" \notin failed PROVE Agrees(disk.ckpt, l)'
        <4>1. CASE disk' = disk
          BY <1>0, <3>1, <4>1, Zenon DEF LogInv, Checkpoints, Agrees
        <4>2. CASE disk'.ckpt.mod_time[l] = 0
          <5>1. file[l].there => file[l].mtime \in 1 .. clock
            BY Zenon DEF LogInv, FileState
          <5> QED BY <1>0, <4>2, <5>1 DEF Agrees
        <4> QED BY <2>4, <3>1, <4>1, <4>2, Zenon
      <3> QED BY <1>0, <1>2, <3>1, Zenon DEF Checkpoints
    <2>10. \A l \in Logs : Starts(l)'
      BY <2>3, <2>5, Zenon DEF Starts, Pending
    <2> QED BY <1>2, <1>3, <2>6, <2>7, <2>8, <2>9, <2>10, Zenon DEF LogInv
  <1> QED BY <1>4, <1>5, Zenon

(* A log is removed: what is there of the others does not change.           *)
LEMMA RemoveLogInv ==
    ASSUME LogInv, NEW k \in Logs, pc = "start", pc' = "start", RemoveLog(k),
           UNCHANGED <<disk, archive, clock, thres, fd, ckpt_file, archive_sequence_count, msg,
                       file_offset, next, first, failed>>
    PROVE  /\ Laps' /\ Checkpoints' /\ CopyOrder' /\ AfterWrite'
           /\ file' \in [Logs -> [there : BOOLEAN, data : Seq(Nat), mtime : Nat]]
           /\ left' \in [Logs -> Nat \X Nat]
           /\ \A l \in Logs : FileState(l)' /\ Position(l)'
           /\ ~Running' /\ ~Copying'
           /\ ~file'[k].there /\ \A l \in Logs : l # k => file'[l] = file[l]
  <1>1. CopyOrder' /\ AfterWrite' /\ ~Running' /\ ~Copying' /\ \A l \in Logs : Position(l)'
    BY NotRunning, Zenon DEF LogInv
  <1>2. Types
    BY Zenon DEF LogInv
  <1>3. /\ file' \in [Logs -> [there : BOOLEAN, data : Seq(Nat), mtime : Nat]]
        /\ left' \in [Logs -> Nat \X Nat]
        /\ file'[k] = Missing /\ left'[k] = <<0, 0>>
        /\ \A l \in Logs : l # k => file'[l] = file[l] /\ left'[l] = left[l]
    <2>1. Missing \in [there : BOOLEAN, data : Seq(Nat), mtime : Nat] /\ <<0, 0>> \in Nat \X Nat
      BY DEF Missing
    <2> HIDE DEF Missing
    <2> QED BY <1>2, <2>1, Zenon DEF RemoveLog, Types
  <1>4. ~Missing.there /\ Missing.data = <<>>
    BY Zenon DEF Missing
  <1>5. \A l \in Logs : FileState(l)'
    <2>1. FileState(k)'
      BY <1>3, <1>4 DEF FileState
    <2>2. ASSUME NEW l \in Logs, l # k PROVE FileState(l)'
      BY <1>3, <2>2, Zenon DEF LogInv, FileState
    <2> QED BY <2>1, <2>2, Zenon
  <1>6. Laps'
    <2>1. InOrder(k, left[k][1])' /\ InOrder(k, left[k][2])'
      BY <1>3, <1>4 DEF InOrder
    <2>2. ASSUME NEW l \in Logs, l # k, "ckpt" \notin failed
          PROVE  InOrder(l, left[l][1])' /\ InOrder(l, left[l][2])'
      BY <1>3, <2>2, Zenon DEF LogInv, Laps, InOrder
    <2> QED BY <2>1, <2>2, Zenon DEF Laps
  <1>7. Checkpoints'
    <2>1. ASSUME NEW l \in Logs, disk.kind = "good", "ckpt" \notin failed PROVE Agrees(disk.ckpt, l)'
      BY <1>3, <1>4, <2>1, Zenon DEF LogInv, Checkpoints, Agrees
    <2> QED BY <1>1, <2>1, Zenon DEF Checkpoints
  <1> QED BY <1>1, <1>3, <1>4, <1>5, <1>6, <1>7, Zenon

(* rm_file: the log is removed, and the checkpoint says nothing of it.      *)
LEMMA RmFileInv == ASSUME LogInv, NEW k \in Logs, rm_file(k) PROVE LogInv'
  <1>0. /\ pc = "start" /\ pc' = "start" /\ todo' = Tail(todo) /\ RemoveLog(k)
        /\ UNCHANGED <<disk, archive, clock, thres, fd, ckpt_file, checkpt, archive_sequence_count,
                       msg, file_offset, next, first, failed>>
    BY Zenon DEF rm_file, Starting, local
  <1>1. /\ todo' \in Seq(Calls) /\ OpenLast(todo') /\ CkptFirst(todo')
        /\ ~Has(todo', <<"ckpt", "none">>) /\ ~Has(todo', <<"rmckpt", "none">>)
        /\ \A x : Has(todo', x) => Has(todo, x)
        /\ \A x : Has(todo, x) => x = <<"rm", k>> \/ Has(todo', x)
        /\ Has(todo, <<"rm", k>>)
    <2>1. Types /\ StartOrder /\ Starting("rm", k) /\ "rm" # "open"
      BY Zenon DEF LogInv, rm_file
    <2> QED BY <1>0, <2>1, StartStep, Zenon
  <1>2. /\ Laps' /\ Checkpoints' /\ CopyOrder' /\ AfterWrite'
        /\ file' \in [Logs -> [there : BOOLEAN, data : Seq(Nat), mtime : Nat]]
        /\ left' \in [Logs -> Nat \X Nat]
        /\ \A l \in Logs : FileState(l)' /\ Position(l)'
        /\ ~Running' /\ ~Copying'
        /\ ~file'[k].there /\ \A l \in Logs : l # k => file'[l] = file[l]
    BY <1>0, RemoveLogInv, Zenon
  <1>3. Types'
    <2>1. Types
      BY Zenon DEF LogInv
    <2> QED BY <1>0, <1>1, <1>2, <2>1, Zenon DEF Types
  <1>4. StartOrder'
    BY <1>1, Zenon DEF StartOrder
  <1>5. Times'
    BY <1>0, Zenon DEF LogInv, Times
  <1>6. NoCheckpoint'
    BY <1>0, <1>1, <1>2, CallsDiffer, Zenon DEF LogInv, NoCheckpoint, Zeroed, Pending
  <1>7. ASSUME NEW l \in Logs PROVE Starts(l)'
    <2>1. Starts(l) /\ (Zeroed(l) => Zeroed(l)')
      BY <1>0, Zenon DEF LogInv, Zeroed
    <2>2. CASE l = k
      BY <1>0, <1>1, <1>2, <2>1, <2>2, Zenon DEF Starts, Pending, Kept, Checked
    <2>3. CASE l # k
      BY <1>0, <1>1, <1>2, <2>1, <2>3, CallsDiffer, Zenon DEF Starts, Pending, Kept, Checked
    <2> QED BY <2>2, <2>3, Zenon
  <1> QED BY <1>2, <1>3, <1>4, <1>5, <1>6, <1>7, Zenon DEF LogInv

(* check_time: a log that is not of the time of the checkpoint is removed,  *)
(* and its part of the checkpoint cleared.                                  *)
LEMMA CheckTimeInv == ASSUME LogInv, NEW k \in Logs, check_time(k) PROVE LogInv'
  <1>0. /\ pc = "start" /\ pc' = "start" /\ todo' = Tail(todo)
        /\ UNCHANGED <<disk, archive, clock, thres, fd, ckpt_file, archive_sequence_count,
                       msg, file_offset, next, first, failed>>
    BY Zenon DEF check_time, Starting
  <1>1. /\ todo' \in Seq(Calls) /\ OpenLast(todo') /\ CkptFirst(todo')
        /\ ~Has(todo', <<"ckpt", "none">>) /\ ~Has(todo', <<"rmckpt", "none">>)
        /\ \A x : Has(todo', x) => Has(todo, x)
        /\ \A x : Has(todo, x) => x = <<"time", k>> \/ Has(todo', x)
    <2>1. Types /\ StartOrder /\ Starting("time", k) /\ "time" # "open"
      BY Zenon DEF LogInv, check_time
    <2> QED BY <1>0, <2>1, StartStep, Zenon
  <1>2. StartOrder'
    BY <1>1, Zenon DEF StartOrder
  <1>3. Types
    BY Zenon DEF LogInv
  <1>4. ASSUME file[k].there, file[k].mtime = checkpt.mod_time[k] PROVE LogInv'
    <2>1. UNCHANGED <<checkpt, file, left>>
      BY <1>4, Zenon DEF check_time
    <2>2. CopyOrder' /\ AfterWrite' /\ ~Running' /\ ~Copying' /\ \A l \in Logs : Position(l)'
      BY <1>0, NotRunning, Zenon DEF LogInv
    <2>3. Types'
      BY <1>0, <1>1, <1>3, <2>1, <2>2, Zenon DEF Types
    <2>4. Times' /\ Laps'
      BY <1>0, <2>1, Zenon DEF LogInv, Times, Laps, InOrder
    <2>5. Checkpoints'
      BY <1>0, <2>1, <2>2, Zenon DEF LogInv, Checkpoints, Agrees
    <2>6. NoCheckpoint'
      BY <1>0, <1>1, <2>1, <2>2, CallsDiffer, Zenon DEF LogInv, NoCheckpoint, Zeroed, Pending
    <2>7. \A l \in Logs : FileState(l)'
      BY <1>0, <2>1, Zenon DEF LogInv, FileState
    <2>8. ASSUME NEW l \in Logs PROVE Starts(l)'
      <3>1. Starts(l) /\ (Zeroed(l) => Zeroed(l)')
        BY <2>1, Zenon DEF LogInv, Zeroed
      <3>2. CASE l = k
        BY <1>0, <1>1, <1>4, <2>1, <3>1, <3>2, CallsDiffer, Zenon DEF Starts, Pending, Kept, Checked
      <3>3. CASE l # k
        BY <1>0, <1>1, <2>1, <3>1, <3>3, CallsDiffer, Zenon DEF Starts, Pending, Kept, Checked
      <3> QED BY <3>2, <3>3, Zenon
    <2> QED BY <1>2, <2>2, <2>3, <2>4, <2>5, <2>6, <2>7, <2>8, Zenon DEF LogInv
  <1>5. ASSUME ~(file[k].there /\ file[k].mtime = checkpt.mod_time[k]) PROVE LogInv'
    <2>1. RemoveLog(k) /\ checkpt' = Updated(checkpt, k, 0, 0)
      BY <1>5, Zenon DEF check_time, Updated
    <2>2. /\ Laps' /\ Checkpoints' /\ CopyOrder' /\ AfterWrite'
          /\ file' \in [Logs -> [there : BOOLEAN, data : Seq(Nat), mtime : Nat]]
          /\ left' \in [Logs -> Nat \X Nat]
          /\ \A l \in Logs : FileState(l)' /\ Position(l)'
          /\ ~Running' /\ ~Copying'
          /\ ~file'[k].there /\ \A l \in Logs : l # k => file'[l] = file[l]
      BY <1>0, <2>1, RemoveLogInv, Zenon
    <2>3. /\ checkpt' \in Ckpts /\ Zeroed(k)'
          /\ \A l \in Logs : l # k => checkpt'.mod_time[l] = checkpt.mod_time[l]
                                      /\ checkpt'.offset[l] = checkpt.offset[l]
      <3>1. checkpt \in Ckpts /\ 0 \in Nat
        BY <1>3, Zenon DEF Types
      <3> DEFINE d == Updated(checkpt, k, 0, 0)
      <3>2. /\ d \in Ckpts /\ d.mod_time[k] = 0 /\ d.offset[k] = 0
            /\ \A l \in Logs : l # k => d.mod_time[l] = checkpt.mod_time[l] /\ d.offset[l] = checkpt.offset[l]
        BY <3>1, CkptUpdate DEF IsUpdated
      <3> HIDE DEF d
      <3>3. checkpt' = d
        BY <2>1, Zenon DEF d
      <3> QED BY <3>2, <3>3, Zenon DEF Zeroed
    <2>4. Types'
      BY <1>0, <1>1, <1>3, <2>2, <2>3, Zenon DEF Types
    <2>5. Times'
      <3>1. 0 <= clock
        BY <1>3 DEF Types
      <3> QED BY <1>0, <2>3, <3>1, Zenon DEF LogInv, Times, Zeroed
    <2>6. NoCheckpoint'
      BY <1>0, <1>1, <2>2, <2>3, CallsDiffer, Zenon DEF LogInv, NoCheckpoint, Zeroed, Pending
    <2>7. ASSUME NEW l \in Logs PROVE Starts(l)'
      <3>1. Starts(l)
        BY Zenon DEF LogInv
      <3>2. CASE l = k
        BY <1>0, <1>1, <2>2, <2>3, <3>2, Zenon DEF Starts, Pending, Kept, Checked
      <3>3. CASE l # k
        <4>1. Zeroed(l) => Zeroed(l)'
          BY <2>3, <3>3, Zenon DEF Zeroed
        <4>2. Checked(l) => Checked(l)'
          BY <2>2, <2>3, <3>3, <4>1, Zenon DEF Checked
        <4> QED BY <1>0, <1>1, <2>3, <3>1, <3>3, <4>1, <4>2, CallsDiffer, Zenon DEF Starts, Pending, Kept
      <3> QED BY <3>2, <3>3, Zenon
    <2> QED BY <1>2, <2>2, <2>4, <2>5, <2>6, <2>7, Zenon DEF LogInv
  <1> QED BY <1>4, <1>5, Zenon

(* When the logs are opened nothing else is left to be done: the logs of    *)
(* which something is kept have been checked.                               *)
LEMMA AllChecked ==
    ASSUME LogInv, Starting("open", "none")
    PROVE  /\ \A l \in Logs : Kept(l) => Checked(l)
           /\ \A op, l : Pending(op, l) => op = "open"
  <1>1. pc = "start" /\ todo \in Seq(Calls) /\ EndsWith(todo, <<"open", "none">>) /\ todo # <<>>
        /\ Head(todo) = <<"open", "none">>
    BY Zenon DEF LogInv, Types, StartOrder, OpenLast, Starting
  <1>2. todo[1] = <<"open", "none">>
    BY <1>1, HeadTail, Zenon
  <1>3. \A y : Has(todo, y) => y = <<"open", "none">>
    BY <1>1, <1>2, EndsAtOnce, Zenon
  <1>4. \A op, l : <<op, l>> = <<"open", "none">> => op = "open"
    BY Zenon
  <1>5. \A op, l : Pending(op, l) => op = "open"
    BY <1>3, <1>4, Zenon DEF Pending
  <1>6. \A l : ~Pending("time", l) /\ ~Pending("rm", l)
    BY <1>5, Zenon
  <1> QED BY <1>1, <1>5, <1>6, Zenon DEF LogInv, Starts

(* A log that is continued is continued where it was left, or one write     *)
(* before.                                                                  *)
LEMMA ContinuesLog ==
    ASSUME LogInv, Starting("open", "none"), NEW l \in Logs, Opens(l)
    PROVE  /\ Checked(l)
           /\ "ckpt" \notin failed => checkpt.offset[l] \in {left[l][1], left[l][2]}
           /\ ~file[l].there => checkpt.offset[l] = 0
           /\ file[l].there => /\ disk.kind = "good" /\ checkpt.mod_time[l] = file[l].mtime
                               /\ disk.ckpt.mod_time[l] = checkpt.mod_time[l]
                               /\ disk.ckpt.offset[l] = checkpt.offset[l]
  <1>1. Checked(l) /\ FileState(l) /\ Starts(l) /\ Checkpoints /\ pc = "start" /\ Types
    BY AllChecked, Zenon DEF LogInv, Opens, Kept, Starting
  <1>2. CASE file[l].there
    <2>1. checkpt.mod_time[l] = file[l].mtime /\ file[l].mtime # 0
      BY <1>1, <1>2 DEF Checked, FileState
    <2>2. /\ disk.kind = "good" /\ disk.ckpt.mod_time[l] = checkpt.mod_time[l]
          /\ disk.ckpt.offset[l] = checkpt.offset[l]
      BY <1>1, <2>1, Zenon DEF Starts, Zeroed
    <2>3. "ckpt" \notin failed => checkpt.offset[l] \in {left[l][1], left[l][2]}
      BY <1>1, <1>2, <2>1, <2>2, Zenon DEF Checkpoints, Agrees
    <2> QED BY <1>1, <1>2, <2>1, <2>2, <2>3, Zenon
  <1>3. CASE ~file[l].there
    <2>1. checkpt.offset[l] = 0 /\ left[l] = <<0, 0>>
      BY <1>1, <1>3, Zenon DEF Checked, FileState, Zeroed
    <2>2. left[l][1] = 0
      BY <2>1
    <2> QED BY <1>1, <1>3, <2>1, <2>2, Zenon
  <1> QED BY <1>2, <1>3, Zenon

(* set_file_offsets: every log that is opened is at the offset of the       *)
(* checkpoint.                                                              *)
LEMMA SetFileOffsetsInv == ASSUME LogInv, set_file_offsets PROVE LogInv'
  <1>0. /\ pc = "start" /\ pc' = "idle" /\ todo' = <<>> /\ Starting("open", "none")
        /\ UNCHANGED <<disk, archive, clock, thres, ckpt_file, checkpt, archive_sequence_count,
                       msg, file_offset, next, first, failed>>
    BY Zenon DEF set_file_offsets, Starting
  <1>1. Types /\ Laps /\ Checkpoints /\ Times /\ NoCheckpoint
        /\ \A l \in Logs : FileState(l) /\ Position(l) /\ Starts(l)
    BY Zenon DEF LogInv
  <1>2. Running' /\ ~Copying' /\ \A l \in Logs : ~Writing(l)'
    BY <1>0, Zenon DEF Running, Copying, Writing
  <1>3. ASSUME NEW l \in Logs
        PROVE  /\ file'[l] = IF Opens(l) /\ ~file[l].there
                             THEN [there |-> TRUE, data |-> <<>>, mtime |-> clock] ELSE file[l]
               /\ fd'[l] = IF Opens(l) THEN checkpt.offset[l] ELSE Closed
               /\ left'[l] = IF Opens(l) THEN <<checkpt.offset[l], checkpt.offset[l]>> ELSE left[l]
    BY Zenon DEF set_file_offsets, open_file
  <1>4. /\ file' \in [Logs -> [there : BOOLEAN, data : Seq(Nat), mtime : Nat]]
        /\ fd' \in [Logs -> Nat \cup {Closed}] /\ left' \in [Logs -> Nat \X Nat]
    <2>1. \A l \in Logs : /\ file'[l] \in [there : BOOLEAN, data : Seq(Nat), mtime : Nat]
                          /\ fd'[l] \in Nat \cup {Closed} /\ left'[l] \in Nat \X Nat
      <3> SUFFICES ASSUME NEW l \in Logs
                   PROVE  /\ file'[l] \in [there : BOOLEAN, data : Seq(Nat), mtime : Nat]
                          /\ fd'[l] \in Nat \cup {Closed} /\ left'[l] \in Nat \X Nat
        BY Zenon
      <3>1. /\ checkpt.offset[l] \in Nat /\ clock \in Nat
            /\ file[l] \in [there : BOOLEAN, data : Seq(Nat), mtime : Nat] /\ left[l] \in Nat \X Nat
        BY <1>1, Numbers, Zenon DEF Types
      <3>2. [there |-> TRUE, data |-> <<>>, mtime |-> clock] \in [there : BOOLEAN, data : Seq(Nat), mtime : Nat]
        BY <3>1
      <3>3. <<checkpt.offset[l], checkpt.offset[l]>> \in Nat \X Nat
        BY <3>1, Zenon
      <3> QED BY <1>3, <3>1, <3>2, <3>3, Zenon
    <2>2. /\ file' = [l \in Logs |-> file'[l]] /\ fd' = [l \in Logs |-> fd'[l]]
          /\ left' = [l \in Logs |-> left'[l]]
      BY Zenon DEF set_file_offsets
    <2> QED BY <2>1, <2>2, Zenon
  <1>5. Types'
    BY <1>0, <1>1, <1>2, <1>4, Zenon DEF Types
  <1>6. StartOrder' /\ CopyOrder' /\ AfterWrite'
    BY <1>0, <1>2, Zenon DEF StartOrder, CopyOrder, AfterWrite
  <1>7. Times'
    BY <1>0, <1>1, Zenon DEF Times
  <1>8. NoCheckpoint'
    BY <1>0, <1>1, AllChecked, Zenon DEF NoCheckpoint, Zeroed
  <1>9. ASSUME NEW l \in Logs, ~Opens(l)
        PROVE  /\ FileState(l)' /\ Position(l)'
               /\ "ckpt" \notin failed =>
                    /\ InOrder(l, left[l][1])' /\ InOrder(l, left[l][2])' /\ fd'[l] = Closed
                    /\ disk.kind = "good" => Agrees(disk.ckpt, l)'
                    /\ Agrees(checkpt, l)'
    <2>1. file'[l] = file[l] /\ left'[l] = left[l] /\ fd'[l] = Closed /\ l \in SaveLogs
      BY <1>3, <1>9, Zenon DEF Opens
    <2>2. FileState(l)' /\ Position(l)'
      BY <1>0, <1>1, <2>1, Zenon DEF FileState, Position
    <2>3. ASSUME "ckpt" \notin failed
          PROVE  InOrder(l, left[l][1])' /\ InOrder(l, left[l][2])' /\ (disk.kind = "good" => Agrees(disk.ckpt, l)')
      BY <1>0, <1>1, <2>1, <2>3, Zenon DEF Laps, InOrder, Checkpoints, Agrees
    <2>4. CASE Zeroed(l)
      <3>1. file[l].there => file[l].mtime # 0
        BY <1>1 DEF FileState
      <3> QED BY <1>0, <2>1, <2>2, <2>3, <2>4, <3>1, Zenon DEF Agrees, Zeroed
    <2>5. CASE ~Zeroed(l)
      <3>1. /\ disk.kind = "good" /\ disk.ckpt.mod_time[l] = checkpt.mod_time[l]
            /\ disk.ckpt.offset[l] = checkpt.offset[l]
        BY <1>0, <1>1, <2>5, Zenon DEF Starts
      <3> QED BY <1>0, <2>1, <2>2, <2>3, <3>1, Zenon DEF Agrees
    <2> QED BY <2>4, <2>5, Zenon
  <1>10. ASSUME NEW l \in Logs, Opens(l)
         PROVE  /\ FileState(l)' /\ Position(l)'
                /\ "ckpt" \notin failed =>
                     /\ InOrder(l, left[l][1])' /\ InOrder(l, left[l][2])'
                     /\ disk.kind = "good" => Agrees(disk.ckpt, l)' /\ Current(disk.ckpt, l)'
                     /\ Agrees(checkpt, l)' /\ Current(checkpt, l)'
    <2> DEFINE o == checkpt.offset[l]
    <2>1. fd'[l] = o /\ left'[l] = <<o, o>> /\ o \in Nat
      BY <1>1, <1>3, <1>10, Numbers, Zenon
    <2>2. left'[l][1] = o /\ left'[l][2] = o /\ fd'[l] # Closed
      BY <2>1 DEF Closed
    <2>3. /\ "ckpt" \notin failed => o \in {left[l][1], left[l][2]}
          /\ ~file[l].there => o = 0 /\ checkpt.mod_time[l] = 0
          /\ file[l].there => /\ disk.kind = "good" /\ checkpt.mod_time[l] = file[l].mtime
                              /\ disk.ckpt.mod_time[l] = checkpt.mod_time[l]
                              /\ disk.ckpt.offset[l] = o
      BY <1>0, <1>10, ContinuesLog, Zenon DEF Checked, Zeroed
    <2>4. /\ checkpt.mod_time[l] \in Nat /\ disk.ckpt.mod_time[l] \in Nat /\ file[l].mtime \in Nat
          /\ clock \in Nat \ {0} /\ next \in Nat \ {0}
      BY <1>1, Numbers, Zenon
    <2> HIDE DEF o
    <2>5. CASE file[l].there
      <3>1. file'[l] = file[l]
        BY <1>3, <2>5, Zenon
      <3>2. FileState(l)' /\ Position(l)'
        BY <1>0, <1>1, <1>2, <2>1, <2>2, <2>5, <3>1, Zenon DEF FileState, Position
      <3>3. ASSUME "ckpt" \notin failed PROVE InOrder(l, left[l][1])' /\ InOrder(l, left[l][2])'
        <4>1. InOrder(l, o)
          BY <1>1, <2>3, <3>3, Zenon DEF Laps
        <4> QED BY <2>2, <3>1, <4>1, Zenon DEF InOrder
      <3>4. Agrees(disk.ckpt, l)' /\ Agrees(checkpt, l)'
        BY <1>0, <2>2, <2>3, <2>5, Zenon DEF Agrees, o
      <3>5. Current(disk.ckpt, l)' /\ Current(checkpt, l)'
        <4>1. file[l].mtime <= file[l].mtime
          BY <2>4
        <4> QED BY <1>0, <1>2, <2>2, <2>3, <2>5, <3>1, <4>1, Zenon DEF Current, o
      <3> QED BY <3>2, <3>3, <3>4, <3>5, Zenon
    <2>6. CASE ~file[l].there
      <3>1. file'[l].there /\ file'[l].data = <<>> /\ file'[l].mtime = clock
        <4>1. file'[l] = [there |-> TRUE, data |-> <<>>, mtime |-> clock]
          BY <1>3, <1>10, <2>6, Zenon
        <4> QED BY <4>1
      <3>2. FileState(l)' /\ Position(l)'
        BY <1>0, <1>2, <2>1, <2>2, <2>4, <3>1 DEF FileState, Position
      <3>3. InOrder(l, left[l][1])' /\ InOrder(l, left[l][2])'
        BY <2>2, <2>3, <2>6, <3>1 DEF InOrder
      <3>4. checkpt.mod_time[l] < clock /\ (disk.kind = "good" => disk.ckpt.mod_time[l] < clock)
        BY <1>0, <1>1, <2>3, <2>4, <2>6 DEF Times
      <3>5. \A n \in Nat : n < clock => n <= clock /\ n # clock
        BY <2>4
      <3>6. /\ Agrees(checkpt, l)' /\ Current(checkpt, l)'
            /\ disk.kind = "good" => Agrees(disk.ckpt, l)' /\ Current(disk.ckpt, l)'
        BY <1>0, <2>4, <3>1, <3>4, <3>5, Zenon DEF Agrees, Current
      <3> QED BY <3>2, <3>3, <3>6, Zenon
    <2> QED BY <2>5, <2>6, Zenon
  <1>11. Laps' /\ \A l \in Logs : FileState(l)' /\ Position(l)' /\ Starts(l)'
    BY <1>0, <1>9, <1>10, Zenon DEF Laps, Starts
  <1>12. Checkpoints'
    BY <1>0, <1>2, <1>9, <1>10, Zenon DEF Checkpoints
  <1> QED BY <1>5, <1>6, <1>7, <1>8, <1>11, <1>12, Zenon DEF LogInv

(* Sequences without repetition.                                            *)
Distinct(s) == \A i, j \in DOMAIN s : s[i] = s[j] => i = j

(* Sequences without a common element in a row repeat none.                 *)
LEMMA DistinctConcat ==
    ASSUME NEW S, NEW s \in Seq(S), NEW t \in Seq(S), Distinct(s), Distinct(t),
           \A x : ~(Has(s, x) /\ Has(t, x))
    PROVE  Distinct(s \o t)
  <1>1. /\ Len(s) \in Nat /\ DOMAIN s = 1 .. Len(s) /\ Len(t) \in Nat /\ DOMAIN t = 1 .. Len(t)
        /\ DOMAIN (s \o t) = 1 .. Len(s) + Len(t)
        /\ \A i \in 1 .. Len(s) + Len(t) : (s \o t)[i] = IF i <= Len(s) THEN s[i] ELSE t[i - Len(s)]
    BY LenProperties, ConcatProperties
  <1>2. \A i \in 1 .. Len(s), j \in 1 .. Len(t) : s[i] # t[j]
    BY <1>1, Zenon DEF Has
  <1>3. ASSUME NEW i \in 1 .. Len(s) + Len(t)
        PROVE  \/ i \in 1 .. Len(s) /\ (s \o t)[i] = s[i]
               \/ i - Len(s) \in 1 .. Len(t) /\ (s \o t)[i] = t[i - Len(s)]
    BY <1>1
  <1>4. ASSUME NEW i \in 1 .. Len(s) + Len(t), NEW j \in 1 .. Len(s) + Len(t), (s \o t)[i] = (s \o t)[j]
        PROVE  i = j
    <2>1. CASE i \in 1 .. Len(s) /\ (s \o t)[i] = s[i] /\ j \in 1 .. Len(s) /\ (s \o t)[j] = s[j]
      BY <1>1, <1>4, <2>1, Zenon DEF Distinct
    <2>2. CASE /\ i - Len(s) \in 1 .. Len(t) /\ (s \o t)[i] = t[i - Len(s)]
               /\ j - Len(s) \in 1 .. Len(t) /\ (s \o t)[j] = t[j - Len(s)]
      <3>1. i - Len(s) = j - Len(s)
        BY <1>1, <1>4, <2>2, Zenon DEF Distinct
      <3> QED BY <1>1, <3>1
    <2> QED BY <1>2, <1>3, <1>4, <2>1, <2>2, Zenon
  <1> QED BY <1>1, <1>4, Zenon DEF Distinct

(* The logs that copy_message writes: different open logs, the message log  *)
(* first.                                                                   *)
LEMMA WrittenOrder ==
    ASSUME NEW error \in BOOLEAN, fd["msg"] # Closed, NEW s, s = Written(error)
    PROVE  /\ s \in Seq(Logs) /\ s # <<>> /\ Head(s) = "msg"
           /\ Distinct(s)
           /\ \A i \in DOMAIN s : fd[s[i]] # Closed /\ (s[i] = "msg" => i = 1)
  <1> DEFINE m == IfOpen("msg")
             n == IfOpen("msg_save")
             d == IfOpen("err")
             e == IfOpen("err_save")
             D == IF error THEN d \o e ELSE <<>>
  <1>1. ASSUME NEW l \in Logs
        PROVE  /\ IfOpen(l) \in Seq(Logs) /\ Distinct(IfOpen(l))
               /\ \A y : Has(IfOpen(l), y) <=> fd[l] # Closed /\ y = l
    <2>1. <<l>> \in Seq(Logs) /\ <<>> \in Seq(Logs) /\ Distinct(<<l>>) /\ Distinct(<<>>)
      BY DEF Distinct
    <2> QED BY <2>1, HasShort, Zenon DEF IfOpen
  <1>2. /\ "msg" \in Logs /\ "msg_save" \in Logs /\ "err" \in Logs /\ "err_save" \in Logs
        /\ "msg" # "msg_save" /\ "msg" # "err" /\ "msg" # "err_save" /\ "msg_save" # "err"
        /\ "msg_save" # "err_save" /\ "err" # "err_save"
    BY Zenon DEF Logs
  <1>3. m = <<"msg">> /\ <<>> \in Seq(Logs) /\ Distinct(<<>>)
    BY DEF IfOpen, Distinct
  <1>4. s = m \o n \o D
    BY Zenon DEF Written
  <1> HIDE DEF D
  <1>5. /\ m \o n \in Seq(Logs) /\ Distinct(m \o n)
        /\ \A y : Has(m \o n, y) <=> Has(m, y) \/ Has(n, y)
    BY <1>1, <1>2, DistinctConcat, HasConcat, ConcatProperties, Zenon
  <1>6. /\ d \o e \in Seq(Logs) /\ Distinct(d \o e)
        /\ \A y : Has(d \o e, y) <=> Has(d, y) \/ Has(e, y)
    BY <1>1, <1>2, DistinctConcat, HasConcat, ConcatProperties, Zenon
  <1>7. D \in Seq(Logs) /\ Distinct(D) /\ \A y : Has(D, y) => Has(d, y) \/ Has(e, y)
    BY <1>3, <1>6, HasShort, Zenon DEF D
  <1> DEFINE b == m \o n
  <1>8. \A x : ~(Has(b, x) /\ Has(D, x))
    BY <1>1, <1>2, <1>5, <1>7, Zenon
  <1>9. /\ b \o D \in Seq(Logs) /\ Distinct(b \o D)
        /\ \A y : Has(b \o D, y) => fd[y] # Closed
    <2>1. b \in Seq(Logs) /\ Distinct(b) /\ \A y : Has(b, y) \/ Has(D, y) => fd[y] # Closed
      BY <1>1, <1>2, <1>5, <1>7, Zenon
    <2> HIDE DEF b
    <2> QED BY <1>7, <1>8, <2>1, DistinctConcat, HasConcat, ConcatProperties, Zenon
  <1>10. s \in Seq(Logs) /\ Distinct(s) /\ \A y : Has(s, y) => fd[y] # Closed
    BY <1>4, <1>9, Zenon
  <1>11. s # <<>> /\ s[1] = "msg"
    <2>1. n \in Seq(Logs)
      BY <1>1, <1>2, Zenon
    <2> HIDE DEF n
    <2>2. b[1] = "msg" /\ Len(b) >= 1 /\ b \in Seq(Logs)
      <3>1. \A x \in Logs : (<<x>> \o n)[1] = x /\ Len(<<x>> \o n) >= 1 /\ <<x>> \o n \in Seq(Logs)
        BY <2>1
      <3> QED BY <1>2, <1>3, <3>1, Zenon
    <2> HIDE DEF b
    <2>3. Len(b \o D) >= 1 /\ (b \o D)[1] = "msg"
      BY <1>7, <2>2
    <2>4. Len(s) >= 1 /\ s[1] = "msg"
      BY <1>4, <2>3, Zenon DEF b
    <2> QED BY <2>4
  <1>12. Head(s) = s[1] /\ 1 \in DOMAIN s
    BY <1>10, <1>11, HeadTail, Zenon
  <1> QED BY <1>10, <1>11, <1>12, Zenon DEF Distinct, Has

(* The log that is written is open, at the position where it was left.      *)
LEMMA CopyHead ==
    ASSUME LogInv, Copying
    PROVE  /\ Head(todo) \in Logs /\ todo \in Seq(Logs) /\ todo # <<>> /\ Running
           /\ msg.id = next - 1 /\ msg.len \in Nat \ {0}
           /\ pc # "ckpt" => /\ fd[Head(todo)] \in Nat /\ fd[Head(todo)] # Closed
                             /\ fd[Head(todo)] = left[Head(todo)][2] /\ file[Head(todo)].there
  <1>1. todo \in Seq(Logs) /\ todo # <<>> /\ Running /\ msg.id = next - 1 /\ msg.len \in Nat \ {0}
    BY DEF LogInv, Types, CopyOrder, Copying, Running
  <1>2. Head(todo) = todo[1] /\ 1 \in DOMAIN todo /\ Head(todo) \in Logs
    BY <1>1, HeadTail, Zenon
  <1>3. ASSUME pc # "ckpt" PROVE fd[Head(todo)] # Closed
    BY <1>2, <1>3, Zenon DEF LogInv, CopyOrder
  <1>4. fd[Head(todo)] # Closed => fd[Head(todo)] = left[Head(todo)][2] /\ file[Head(todo)].there
    BY <1>1, <1>2, Zenon DEF LogInv, Position
  <1>5. fd[Head(todo)] # Closed => fd[Head(todo)] \in Nat
    BY <1>2, Numbers, Zenon DEF LogInv
  <1> QED BY <1>1, <1>2, <1>3, <1>4, <1>5, Zenon

(* copy_message goes on to the next log, or has ended.                      *)
LEMMA CopyTail ==
    ASSUME LogInv, Copying, pc' = NextLog, todo' = Tail(todo), msg' = msg, next' = next,
           \A k \in Logs : k # Head(todo) => fd'[k] = fd[k]
    PROVE  /\ pc' \in {"copy", "idle", "end"} /\ Running' /\ (Copying' => todo' \in Seq(Logs))
           /\ StartOrder' /\ CopyOrder' /\ AfterWrite'
           /\ \A l \in Logs : ~Writing(l)' /\ Starts(l)'
           /\ pc' = "copy" => Head(todo') # "msg" /\ Head(todo') # Head(todo)
  <1>1. pc' = IF Len(todo) > 1 THEN "copy" ELSE IF msg.final THEN "end" ELSE "idle"
    BY Zenon DEF NextLog
  <1>2. pc' \in {"copy", "idle", "end"} /\ Running' /\ (Copying' <=> pc' = "copy")
    BY <1>1, Zenon DEF Running, Copying
  <1>3. StartOrder' /\ AfterWrite' /\ \A l \in Logs : ~Writing(l)' /\ Starts(l)'
    BY <1>2, Zenon DEF StartOrder, AfterWrite, Writing, Starts
  <1>4. /\ todo \in Seq(Logs) /\ todo # <<>> /\ msg.id = next - 1 /\ msg.len > 0
        /\ \A i, j \in DOMAIN todo : todo[i] = todo[j] => i = j
        /\ \A i \in DOMAIN todo : /\ fd[todo[i]] # Closed \/ (pc = "ckpt" /\ i = 1)
                                  /\ todo[i] = "msg" => i = 1
    BY Zenon DEF LogInv, Types, CopyOrder
  <1>5. /\ Len(todo) \in Nat \ {0} /\ DOMAIN todo = 1 .. Len(todo)
        /\ Head(todo) = todo[1] /\ 1 \in DOMAIN todo
        /\ todo' \in Seq(Logs) /\ Len(todo') = Len(todo) - 1
        /\ DOMAIN todo' = 1 .. Len(todo) - 1
        /\ \A i \in DOMAIN todo' : todo'[i] = todo[i + 1] /\ i + 1 \in DOMAIN todo
    BY <1>4, HeadTail, Zenon
  <1>6. \A i \in DOMAIN todo' : i + 1 # 1
    BY <1>5
  <1>7. \A i, j \in DOMAIN todo' : i + 1 = j + 1 => i = j
    BY <1>5
  <1>8. \A i \in DOMAIN todo' : /\ todo'[i] \in Logs /\ todo'[i] # Head(todo) /\ todo'[i] # "msg"
                                /\ fd[todo'[i]] # Closed /\ fd'[todo'[i]] = fd[todo'[i]]
    <2> SUFFICES ASSUME NEW i \in DOMAIN todo'
                 PROVE  /\ todo'[i] \in Logs /\ todo'[i] # Head(todo) /\ todo'[i] # "msg"
                        /\ fd[todo'[i]] # Closed /\ fd'[todo'[i]] = fd[todo'[i]]
      BY Zenon
    <2>1. todo'[i] \in Logs
      BY <1>5, ElementOfSeq, Zenon
    <2>2. todo'[i] # Head(todo) /\ todo'[i] # "msg" /\ fd[todo'[i]] # Closed
      <3> DEFINE j == i + 1
      <3>1. todo'[i] = todo[j] /\ j \in DOMAIN todo /\ j # 1
        BY <1>5, <1>6, Zenon
      <3> HIDE DEF j
      <3> QED BY <1>4, <1>5, <3>1, Zenon
    <2> QED BY <2>1, <2>2, Zenon
  <1>9. ASSUME NEW i \in DOMAIN todo', NEW j \in DOMAIN todo', todo'[i] = todo'[j] PROVE i = j
    <2>1. i + 1 \in DOMAIN todo /\ j + 1 \in DOMAIN todo /\ todo[i + 1] = todo[j + 1]
      BY <1>5, <1>9, Zenon
    <2>2. i + 1 = j + 1
      BY <1>4, <2>1, Zenon
    <2> QED BY <1>7, <2>2, Zenon
  <1>10. ASSUME pc' = "copy" PROVE todo' # <<>> /\ Head(todo') = todo'[1] /\ 1 \in DOMAIN todo'
    <2>1. Len(todo) > 1
      BY <1>1, <1>10, Zenon
    <2>2. Len(todo') # 0
      BY <1>5, <2>1
    <2>3. todo' # <<>>
      BY <1>5, <2>2, EmptySeq, Zenon
    <2> QED BY <1>5, <2>3, HeadTail, Zenon
  <1>11. CopyOrder'
    BY <1>2, <1>4, <1>8, <1>9, <1>10, Zenon DEF CopyOrder
  <1> QED BY <1>2, <1>3, <1>5, <1>8, <1>10, <1>11, Zenon

(* copy_message: a message arrives.                                         *)
LEMMA CopyMessageInv == ASSUME LogInv, copy_message PROVE LogInv'
  <1> PICK n \in Lengths, error \in Errors, final \in BOOLEAN :
         /\ msg' = [id |-> next, len |-> n, error |-> error, final |-> final]
         /\ todo' = Written(error)
    BY Zenon DEF copy_message
  <1>0. /\ pc = "idle" /\ pc' = "copy" /\ next' = next + 1
        /\ UNCHANGED <<file, disk, archive, clock, thres, fd, ckpt_file, checkpt,
                       archive_sequence_count, file_offset, first, failed, left>>
    BY Zenon DEF copy_message, files, local, history
  <1>1. Types /\ Laps /\ Checkpoints /\ Times /\ NoCheckpoint
        /\ \A l \in Logs : FileState(l) /\ Position(l)
    BY Zenon DEF LogInv
  <1>2. n \in Nat \ {0} /\ error \in BOOLEAN /\ next \in Nat \ {0}
    BY <1>1, LogAssumption, Zenon DEF Types
  <1>3. /\ msg' \in [id : Nat, len : Nat, error : BOOLEAN, final : BOOLEAN]
        /\ msg'.id = next' - 1 /\ msg'.len > 0
    BY <1>0, <1>2
  <1>4. Running /\ Running' /\ Copying' /\ pc' # "start" /\ \A l \in Logs : ~Writing(l) /\ ~Writing(l)'
    BY <1>0, Zenon DEF Running, Copying, Writing
  <1>5. fd["msg"] # Closed
    <2>1. "msg" \in Logs /\ "msg" \notin SaveLogs
      BY Zenon DEF Logs, SaveLogs
    <2> QED BY <1>1, <1>4, <2>1, Zenon DEF Position
  <1>6. /\ todo' \in Seq(Logs) /\ todo' # <<>>
        /\ \A i, j \in DOMAIN todo' : todo'[i] = todo'[j] => i = j
        /\ \A i \in DOMAIN todo' : fd[todo'[i]] # Closed /\ (todo'[i] = "msg" => i = 1)
    BY <1>2, <1>5, WrittenOrder, Zenon DEF Distinct
  <1>7. CopyOrder' /\ StartOrder'
    BY <1>0, <1>3, <1>6, Zenon DEF CopyOrder, StartOrder
  <1>8. next' \in Nat \ {0} /\ first <= next'
    BY <1>0, <1>1 DEF Types
  <1>9. Types'
    <2>1. pc' \in {"down", "start", "idle", "copy", "wrap", "ckpt", "end"}
      BY <1>0, Zenon
    <2> QED BY <1>0, <1>1, <1>3, <1>4, <1>6, <1>8, <2>1, Zenon DEF Types
  <1>10. Laps' /\ Times' /\ NoCheckpoint'
    BY <1>0, <1>1, <1>4, Zenon DEF Laps, InOrder, Times, NoCheckpoint, Zeroed
  <1>11. AfterWrite'
    BY <1>0, Zenon DEF AfterWrite
  <1>12. Checkpoints'
    BY <1>0, <1>1, <1>4, Zenon DEF Checkpoints, Agrees, Current
  <1>13. ASSUME NEW l \in Logs PROVE FileState(l)'
    <2>1. /\ FileState(l) /\ file[l].data \in Seq(Nat)
      BY <1>1, Numbers, Zenon
    <2>2. \A i \in DOMAIN file[l].data : file[l].data[i] \in Nat
      BY <2>1
    <2>3. \A i \in DOMAIN file[l].data : file[l].data[i] < next'
      BY <1>0, <1>2, <2>1, <2>2 DEF FileState
    <2> QED BY <1>0, <2>1, <2>3, Zenon DEF FileState
  <1>14. \A l \in Logs : Position(l)' /\ Starts(l)'
    BY <1>0, <1>1, <1>4, Zenon DEF Position, Starts
  <1> QED BY <1>7, <1>9, <1>10, <1>11, <1>12, <1>13, <1>14, Zenon DEF LogInv

(* write_log: the write fails, and the log is passed over.                  *)
LEMMA WriteFailsInv == ASSUME LogInv, write_fails PROVE LogInv'
  <1>0. /\ pc = "copy" /\ pc' = NextLog /\ todo' = Tail(todo) /\ failed \subseteq failed'
        /\ UNCHANGED <<file, disk, archive, clock, thres, fd, ckpt_file, checkpt,
                       archive_sequence_count, msg, file_offset, next, first, left>>
    BY Zenon DEF write_fails, Fails, files, local
  <1>1. Types /\ Laps /\ Checkpoints /\ Times /\ NoCheckpoint
        /\ \A l \in Logs : FileState(l) /\ Position(l)
    BY Zenon DEF LogInv
  <1>2. Copying /\ Running /\ \A l \in Logs : ~Writing(l)
    BY <1>0, Zenon DEF Copying, Running, Writing
  <1>3. /\ pc' \in {"copy", "idle", "end"} /\ Running' /\ (Copying' => todo' \in Seq(Logs))
        /\ StartOrder' /\ CopyOrder' /\ AfterWrite'
        /\ \A l \in Logs : ~Writing(l)' /\ Starts(l)'
    BY <1>0, <1>2, CopyTail, Zenon
  <1>4. Types'
    BY <1>0, <1>1, <1>3, Zenon DEF Types
  <1>5. pc' # "start"
    BY <1>3, Zenon
  <1>6. Laps' /\ Times' /\ NoCheckpoint'
    BY <1>0, <1>1, <1>2, <1>5, Zenon DEF Laps, InOrder, Times, NoCheckpoint, Zeroed
  <1>7. Checkpoints'
    BY <1>0, <1>1, <1>2, <1>3, Zenon DEF Checkpoints, Agrees, Current
  <1>8. \A l \in Logs : FileState(l)' /\ Position(l)'
    BY <1>0, <1>1, <1>2, <1>3, Zenon DEF FileState, Position
  <1> QED BY <1>3, <1>4, <1>6, <1>7, <1>8, Zenon DEF LogInv

(* The sequence d is data with n bytes of the message at offset o.          *)
IsWritten(d, data, o, n) ==
    /\ d \in Seq(Nat) /\ o + n \in 1 .. Len(d) /\ Len(data) <= Len(d) /\ Len(d) \in Nat
    /\ DOMAIN d = 1 .. Len(d)
    /\ \A i \in 1 .. Len(d) :
          /\ i \in (o + 1) .. (o + n) => d[i] = msg.id
          /\ i <= o /\ i <= Len(data) => d[i] = data[i]
          /\ d[i] = msg.id \/ d[i] = 0 \/ (i <= Len(data) /\ d[i] = data[i])

(* write_log: what Overwrite leaves of the data and what it adds.           *)
LEMMA OverwriteData ==
    ASSUME NEW data \in Seq(Nat), NEW o \in Nat, NEW n \in Nat \ {0}, msg.id \in Nat
    PROVE  IsWritten(Overwrite(data, o, n), data, o, n)
  <1> DEFINE d == Overwrite(data, o, n)
  <1> DEFINE m == IF o + n > Len(data) THEN o + n ELSE Len(data)
  <1>1. Len(data) \in Nat /\ \A i \in 1 .. Len(data) : data[i] \in Nat
    BY LenProperties, ElementOfSeq, Zenon
  <1>2. m \in Nat /\ o + n \in 1 .. m /\ Len(data) <= m
    BY <1>1
  <1>3. d = [i \in 1 .. m |-> IF i \in (o + 1) .. (o + n) THEN msg.id
                              ELSE IF i <= Len(data) THEN data[i] ELSE 0]
    BY Zenon DEF Overwrite
  <1> HIDE DEF m, d
  <1>4. \A i \in 1 .. m : d[i] = IF i \in (o + 1) .. (o + n) THEN msg.id
                                 ELSE IF i <= Len(data) THEN data[i] ELSE 0
    BY <1>3, Zenon
  <1>5. \A i \in 1 .. m : d[i] \in Nat
    BY <1>1, <1>2, <1>4
  <1>6. d \in [1 .. m -> Nat]
    BY <1>3, <1>5, Zenon
  <1>7. d \in Seq(Nat) /\ Len(d) = m /\ DOMAIN d = 1 .. m
    <2>1. d \in UNION {[1 .. k -> Nat] : k \in Nat}
      BY <1>2, <1>6, Zenon
    <2>2. d \in Seq(Nat)
      BY <2>1, SeqDef, Zenon
    <2>3. DOMAIN d = 1 .. m
      BY <1>6, Zenon
    <2> QED BY <1>2, <2>2, <2>3, LenProperties
  <1>8. ASSUME NEW i \in 1 .. m
        PROVE  /\ i \in (o + 1) .. (o + n) => d[i] = msg.id
               /\ i <= o /\ i <= Len(data) => d[i] = data[i]
               /\ d[i] = msg.id \/ d[i] = 0 \/ (i <= Len(data) /\ d[i] = data[i])
    BY <1>1, <1>2, <1>4
  <1> QED BY <1>2, <1>7, <1>8, Zenon DEF IsWritten, d

(* The order of what is written.                                            *)
LEMMA OverwriteOrder ==
    ASSUME NEW data \in Seq(Nat), NEW o \in Nat, NEW n \in Nat \ {0}, msg.id \in Nat, NEW d,
           d = Overwrite(data, o, n),
           o <= Len(data), \A i \in 2 .. o : data[i - 1] <= data[i],
           \A i \in 1 .. Len(data) : data[i] <= msg.id
    PROVE  \A i \in 2 .. o + n : d[i - 1] <= d[i]
  <1>1. /\ o + n \in 1 .. Len(d) /\ Len(d) \in Nat
        /\ \A i \in 1 .. Len(d) : /\ i \in (o + 1) .. (o + n) => d[i] = msg.id
                                  /\ i <= o /\ i <= Len(data) => d[i] = data[i]
    <2>1. IsWritten(d, data, o, n)
      BY OverwriteData, Zenon
    <2> QED BY <2>1, Zenon DEF IsWritten
  <1>2. Len(data) \in Nat /\ \A i \in 1 .. Len(data) : data[i] \in Nat
    BY LenProperties, ElementOfSeq, Zenon
  <1>3. ASSUME NEW i \in 2 .. o + n PROVE d[i - 1] <= d[i]
    <2>1. i \in 1 .. Len(d) /\ i - 1 \in 1 .. Len(d)
      BY <1>1
    <2>2. CASE i <= o
      <3>1. i \in 2 .. o /\ i - 1 <= o /\ i - 1 <= Len(data) /\ i <= Len(data)
        BY <1>2, <2>2
      <3>2. d[i] = data[i]
        BY <1>1, <2>1, <2>2, <3>1, Zenon
      <3>3. d[i - 1] = data[i - 1]
        BY <1>1, <2>1, <3>1, Zenon
      <3> QED BY <3>1, <3>2, <3>3, Zenon
    <2>3. CASE ~(i <= o)
      <3>1. i \in (o + 1) .. (o + n)
        BY <2>3
      <3>2. d[i] = msg.id
        BY <1>1, <2>1, <3>1, Zenon
      <3>3. d[i - 1] <= msg.id
        <4>1. CASE i - 1 \in (o + 1) .. (o + n)
          <5>1. d[i - 1] = msg.id
            BY <1>1, <2>1, <4>1, Zenon
          <5> QED BY <5>1
        <4>2. CASE ~(i - 1 \in (o + 1) .. (o + n))
          <5>1. i - 1 <= o /\ i - 1 <= Len(data) /\ i - 1 \in 1 .. Len(data)
            BY <1>2, <2>1, <3>1, <4>2
          <5>2. d[i - 1] = data[i - 1]
            BY <1>1, <2>1, <5>1, Zenon
          <5> QED BY <5>1, <5>2, Zenon
        <4> QED BY <4>1, <4>2, Zenon
      <3> QED BY <3>2, <3>3, Zenon
    <2> QED BY <2>2, <2>3, Zenon
  <1> QED BY <1>3, Zenon

(* The change of one value of a function.                                   *)
LEMMA OneChanges ==
    ASSUME NEW S, NEW T, NEW f \in [S -> T], NEW x \in S, NEW v, NEW g, g = [f EXCEPT ![x] = v]
    PROVE  g[x] = v /\ (\A y \in S : y # x => g[y] = f[y]) /\ (v \in T => g \in [S -> T])
  <1>1. g[x] = v /\ \A y \in S : y # x => g[y] = f[y]
    BY Zenon
  <1>2. v \in T => g \in [S -> T]
    BY Zenon
  <1> QED BY <1>1, <1>2, Zenon

(* Only the log that is written changes.                                    *)
LEMMA WriteEffect ==
    ASSUME Types, write_log, NEW l \in Logs, l = Head(todo), fd[l] \in Nat
    PROVE  /\ pc = "copy" /\ pc' = "wrap" /\ failed \subseteq failed'
           /\ UNCHANGED <<disk, archive, clock, todo, thres, ckpt_file, checkpt, archive_sequence_count,
                          msg, file_offset, next, first>>
           /\ \E n \in 1 .. msg.len :
                 /\ file'[l] = [there |-> TRUE, data |-> Overwrite(file[l].data, fd[l], n), mtime |-> clock]
                 /\ fd'[l] = fd[l] + n /\ left'[l] = <<fd[l], fd[l] + n>>
           /\ \A k \in Logs : k # l => file'[k] = file[k] /\ fd'[k] = fd[k] /\ left'[k] = left[k]
           /\ file' \in [Logs -> [there : BOOLEAN, data : Seq(Nat), mtime : Nat]]
           /\ fd' \in [Logs -> Nat \cup {Closed}] /\ left' \in [Logs -> Nat \X Nat]
  <1>1. PICK n \in 1 .. msg.len :
           /\ IF n < msg.len THEN Fails("short") ELSE UNCHANGED failed
           /\ SetData(l, Overwrite(file[l].data, fd[l], n))
           /\ fd' = [fd EXCEPT ![l] = fd[l] + n]
           /\ left' = [left EXCEPT ![l] = <<fd[l], fd[l] + n>>]
    BY Zenon DEF write_log
  <1>2. /\ pc = "copy" /\ pc' = "wrap"
        /\ UNCHANGED <<disk, archive, clock, todo, thres, ckpt_file, checkpt, archive_sequence_count,
                       msg, file_offset, next, first>>
    BY Zenon DEF write_log
  <1>3. failed \subseteq failed'
    BY <1>1, Zenon DEF Fails
  <1> DEFINE d == Overwrite(file[l].data, fd[l], n)
             r == [there |-> TRUE, data |-> d, mtime |-> clock]
             q == <<fd[l], fd[l] + n>>
             m == fd[l] + n
  <1>4. file' = [file EXCEPT ![l] = r] /\ fd' = [fd EXCEPT ![l] = m] /\ left' = [left EXCEPT ![l] = q]
    BY <1>1, Zenon DEF SetData
  <1>5. /\ file \in [Logs -> [there : BOOLEAN, data : Seq(Nat), mtime : Nat]]
        /\ fd \in [Logs -> Nat \cup {Closed}] /\ left \in [Logs -> Nat \X Nat]
        /\ msg.id \in Nat /\ n \in Nat \ {0} /\ clock \in Nat /\ file[l].data \in Seq(Nat)
    BY DEF Types
  <1>6. m \in Nat \cup {Closed} /\ q \in Nat \X Nat
    BY <1>5
  <1>7. d \in Seq(Nat)
    BY <1>5, OverwriteData, Zenon DEF IsWritten
  <1> HIDE DEF d
  <1>8. r \in [there : BOOLEAN, data : Seq(Nat), mtime : Nat]
    BY <1>5, <1>7, Zenon
  <1> HIDE DEF r, q, m
  <1>9. /\ file'[l] = r /\ (\A k \in Logs : k # l => file'[k] = file[k])
        /\ file' \in [Logs -> [there : BOOLEAN, data : Seq(Nat), mtime : Nat]]
    BY <1>4, <1>5, <1>8, OneChanges, Zenon
  <1>10. /\ fd'[l] = m /\ (\A k \in Logs : k # l => fd'[k] = fd[k])
         /\ fd' \in [Logs -> Nat \cup {Closed}]
    BY <1>4, <1>5, <1>6, OneChanges, Zenon
  <1>11. /\ left'[l] = q /\ (\A k \in Logs : k # l => left'[k] = left[k])
         /\ left' \in [Logs -> Nat \X Nat]
    BY <1>4, <1>5, <1>6, OneChanges, Zenon
  <1> QED BY <1>2, <1>3, <1>9, <1>10, <1>11, Zenon DEF r, q, m, d

(* write_log: the message is the last of the lap.                           *)
LEMMA WriteLogInv == ASSUME LogInv, write_log PROVE LogInv'
  <1> PICK l : l = Head(todo)
    BY Zenon
  <1>1. Types /\ Laps /\ Checkpoints /\ Times /\ NoCheckpoint /\ CopyOrder
        /\ \A k \in Logs : FileState(k) /\ Position(k)
    BY Zenon DEF LogInv
  <1>2. Copying /\ Running /\ pc = "copy" /\ \A k \in Logs : ~Writing(k)
    BY Zenon DEF Copying, Running, Writing, write_log
  <1>3. /\ l \in Logs /\ todo \in Seq(Logs) /\ todo # <<>> /\ msg.id = next - 1 /\ msg.len \in Nat \ {0}
        /\ fd[l] \in Nat /\ fd[l] # Closed /\ fd[l] = left[l][2] /\ file[l].there
    <2>1. pc # "ckpt"
      BY <1>2, Zenon
    <2> QED BY <1>2, <2>1, CopyHead, Zenon
  <1>0. /\ pc = "copy" /\ pc' = "wrap" /\ failed \subseteq failed'
        /\ UNCHANGED <<disk, archive, clock, todo, thres, ckpt_file, checkpt, archive_sequence_count,
                       msg, file_offset, next, first>>
        /\ \A k \in Logs : k # l => file'[k] = file[k] /\ fd'[k] = fd[k] /\ left'[k] = left[k]
        /\ file' \in [Logs -> [there : BOOLEAN, data : Seq(Nat), mtime : Nat]]
        /\ fd' \in [Logs -> Nat \cup {Closed}] /\ left' \in [Logs -> Nat \X Nat]
    BY <1>1, <1>3, WriteEffect, Zenon
  <1>4. PICK n \in 1 .. msg.len :
           /\ file'[l] = [there |-> TRUE, data |-> Overwrite(file[l].data, fd[l], n), mtime |-> clock]
           /\ fd'[l] = fd[l] + n /\ left'[l] = <<fd[l], fd[l] + n>>
    BY <1>1, <1>3, WriteEffect, Zenon
  <1>w. Copying' /\ Running' /\ Writing(l)'
    BY <1>0, Zenon DEF Copying, Running, Writing
  <1>5. n \in Nat \ {0} /\ next \in Nat \ {0} /\ msg.id \in Nat
        /\ file[l].data \in Seq(Nat) /\ file[l].mtime \in Nat /\ clock \in Nat \ {0} /\ file[l].mtime <= clock
    <2>1. next \in Nat \ {0} /\ file[l].data \in Seq(Nat)
          /\ clock \in Nat \ {0} /\ file[l].mtime \in Nat
      BY <1>1, <1>3, Numbers, Zenon
    <2>2. file[l].mtime \in 1 .. clock
      BY <1>1, <1>3, Zenon DEF FileState
    <2>3. msg.id \in Nat
      BY <1>3, <2>1
    <2> QED BY <1>3, <2>1, <2>2, <2>3
  <1> PICK p : p = fd[l]
    BY Zenon
  <1> PICK data : data = file[l].data
    BY Zenon
  <1> PICK d : d = Overwrite(data, p, n)
    BY Zenon
  <1>7. /\ d \in Seq(Nat) /\ p + n \in 1 .. Len(d) /\ Len(data) <= Len(d) /\ Len(d) \in Nat
        /\ DOMAIN d = 1 .. Len(d)
        /\ \A i \in 1 .. Len(d) :
              /\ i \in (p + 1) .. (p + n) => d[i] = msg.id
              /\ i <= p /\ i <= Len(data) => d[i] = data[i]
              /\ d[i] = msg.id \/ d[i] = 0 \/ (i <= Len(data) /\ d[i] = data[i])
    <2>1. p \in Nat /\ data \in Seq(Nat) /\ n \in Nat \ {0} /\ msg.id \in Nat
      BY <1>3, <1>5, Zenon
    <2>2. IsWritten(Overwrite(data, p, n), data, p, n)
      BY <2>1, OverwriteData, Zenon
    <2>3. IsWritten(d, data, p, n)
      BY <2>2, Zenon
    <2> QED BY <2>3, Zenon DEF IsWritten
  <1>6. file'[l] = [there |-> TRUE, data |-> d, mtime |-> clock] /\ fd'[l] = p + n /\ left'[l] = <<p, p + n>>
    BY <1>4, Zenon
  <1>8. file'[l].there /\ file'[l].data = d /\ file'[l].mtime = clock
        /\ left'[l][1] = p /\ left'[l][2] = p + n /\ fd'[l] # Closed
    BY <1>3, <1>5, <1>6 DEF Closed
  <1>9. Len(data) \in Nat /\ DOMAIN data = 1 .. Len(data) /\ \A i \in 1 .. Len(data) : data[i] \in Nat /\ data[i] < next
    <2>1. Len(data) \in Nat /\ DOMAIN data = 1 .. Len(data) /\ \A i \in 1 .. Len(data) : data[i] \in Nat
      BY <1>5, LenProperties, ElementOfSeq, Zenon
    <2> QED BY <1>1, <1>3, <2>1, Zenon DEF FileState
  <1>10. FileState(l)'
    <2>1. clock \in 1 .. clock
      BY <1>5
    <2>2. msg.id < next /\ 0 < next
      BY <1>3, <1>5
    <2>3. \A i \in 1 .. Len(d) : d[i] < next
      <3> SUFFICES ASSUME NEW i \in 1 .. Len(d) PROVE d[i] < next
        BY Zenon
      <3>1. i <= Len(data) => i \in 1 .. Len(data)
        BY <1>9
      <3> QED BY <1>7, <1>9, <2>2, <3>1, Zenon
    <2> QED BY <1>0, <1>7, <1>8, <2>1, <2>3, Zenon DEF FileState
  <1>11. Position(l)'
    BY <1>w, <1>6, <1>8, Zenon DEF Position
  <1>12. ASSUME "ckpt" \notin failed PROVE InOrder(l, left[l][1])' /\ InOrder(l, left[l][2])'
    <2>1. p <= Len(data) /\ \A i \in 2 .. p : data[i - 1] <= data[i]
      BY <1>1, <1>3, <1>12, Zenon DEF Laps, InOrder
    <2>0. \A i \in 1 .. Len(data) : data[i] <= msg.id
      BY <1>3, <1>5, <1>9
    <2>2. \A i \in 2 .. p + n : d[i - 1] <= d[i]
      BY <1>3, <1>5, <2>0, <2>1, OverwriteOrder, Zenon
    <2>3. \A i \in 2 .. p : i \in 2 .. p + n
      BY <1>3, <1>5
    <2>4. p <= Len(d) /\ p + n <= Len(d)
      BY <1>3, <1>5, <1>7
    <2> QED BY <1>8, <2>2, <2>3, <2>4, Zenon DEF InOrder
  <1>13. ASSUME NEW c \in Ckpts, Current(c, l), c.mod_time[l] <= clock
         PROVE  Agrees(c, l)' /\ Current(c, l)'
    <2>1. c.mod_time[l] \in Nat
      BY <1>3, Zenon DEF Ckpts
    <2>3. c.mod_time[l] = clock => c.mod_time[l] = file[l].mtime
      BY <1>5, <1>13, <2>1 DEF Current
    <2>4. c.mod_time[l] = clock => c.offset[l] = p
      BY <1>2, <1>3, <1>13, <2>3, Zenon DEF Current
    <2> QED BY <1>0, <1>w, <1>8, <1>13, <2>4, Zenon DEF Agrees, Current
  <1>14. Types'
    <2>1. pc' \in {"down", "start", "idle", "copy", "wrap", "ckpt", "end"} /\ pc' # "start"
      BY <1>0, Zenon
    <2> QED BY <1>0, <1>1, <1>3, <1>w, <2>1, Zenon DEF Types
  <1>15. StartOrder' /\ \A k \in Logs : Starts(k)'
    BY <1>0, Zenon DEF StartOrder, Starts
  <1>16. CopyOrder'
    <2>1. ASSUME NEW i \in DOMAIN todo PROVE fd'[todo[i]] # Closed /\ (todo[i] = "msg" => i = 1)
      <3>1. todo[i] \in Logs
        BY <1>3, ElementOfSeq
      <3>2. fd[todo[i]] # Closed /\ (todo[i] = "msg" => i = 1)
        <4>1. pc # "ckpt"
          BY <1>0, Zenon
        <4> QED BY <1>1, <1>2, <4>1, Zenon DEF CopyOrder
      <3> QED BY <1>0, <1>8, <3>1, <3>2, Zenon
    <2> QED BY <1>0, <1>1, <1>2, <2>1, Zenon DEF CopyOrder
  <1>17. Laps'
    BY <1>0, <1>1, <1>12, Zenon DEF Laps, InOrder
  <1>18. AfterWrite'
    <2>1. p <= p + n /\ p + n <= Len(d)
      BY <1>3, <1>5, <1>7
    <2>2. pc' # "ckpt"
      BY <1>0, Zenon
    <2> QED BY <1>0, <1>6, <1>8, <2>1, <2>2, Zenon DEF AfterWrite
  <1>19. Times' /\ NoCheckpoint'
    <2>1. pc' # "start" /\ pc # "start"
      BY <1>0, Zenon
    <2> QED BY <1>0, <1>1, <1>2, <2>1, Zenon DEF Times, NoCheckpoint, Zeroed
  <1>20. Checkpoints'
    <2> SUFFICES ASSUME "ckpt" \notin failed, NEW k \in Logs
                 PROVE  /\ disk'.kind = "good" => Agrees(disk.ckpt, k)'
                        /\ Agrees(checkpt, k)'
                        /\ fd'[k] # Closed \/ Writing(k)' =>
                              Current(checkpt, k)' /\ (disk'.kind = "good" => Current(disk.ckpt, k)')
      BY <1>0, <1>w, Zenon DEF Checkpoints
    <2>1. CASE k = l
      <3>1. /\ Current(checkpt, l) /\ (disk.kind = "good" => Current(disk.ckpt, l))
            /\ checkpt.mod_time[l] <= clock /\ (disk.kind = "good" => disk.ckpt.mod_time[l] <= clock)
        BY <1>1, <1>2, <1>3, Zenon DEF Checkpoints, Times
      <3>2. checkpt \in Ckpts /\ disk.ckpt \in Ckpts
        BY <1>1, <1>3, Numbers, Zenon DEF Types
      <3>3. Agrees(checkpt, l)' /\ Current(checkpt, l)'
        <4>1. Agrees(checkpt, l)' <=> (file'[l].there /\ checkpt.mod_time[l] = file'[l].mtime
                => checkpt.offset[l] \in {left'[l][1], left'[l][2]})
          BY <1>0, Zenon DEF Agrees
        <4> QED BY <1>0, <1>8, <1>13, <1>w, <3>1, <3>2, Zenon DEF Agrees, Current
      <3> QED BY <1>0, <1>13, <2>1, <3>1, <3>2, <3>3, Zenon
    <2>2. CASE k # l
      BY <1>0, <1>1, <1>2, <1>w, <2>2, Zenon DEF Checkpoints, Agrees, Current, Writing
    <2> QED BY <2>1, <2>2, Zenon
  <1>21. ASSUME NEW k \in Logs PROVE FileState(k)' /\ Position(k)'
    BY <1>0, <1>1, <1>2, <1>w, <1>10, <1>11, Zenon DEF FileState, Position
  <1> QED BY <1>14, <1>15, <1>16, <1>17, <1>18, <1>19, <1>20, <1>21, Zenon DEF LogInv

(* The sequence d is the beginning of data, p elements at least.            *)
IsPrefixOf(d, data, p) ==
    /\ d \in Seq(Nat) /\ Len(d) \in Nat /\ p <= Len(d) /\ Len(d) <= Len(data)
    /\ \A i \in 1 .. Len(d) : d[i] = data[i]

(* A truncated log, and one that is not, is a prefix up to the position.    *)
LEMMA PrefixData ==
    ASSUME NEW data \in Seq(Nat), NEW p \in Nat, p <= Len(data)
    PROVE  IsPrefixOf(SubSeq(data, 1, p), data, p) /\ IsPrefixOf(data, data, p)
  <1>1. Len(data) \in Nat
    BY LenProperties, Zenon
  <1>2. IsPrefixOf(data, data, p)
    BY <1>1 DEF IsPrefixOf
  <1> DEFINE d == SubSeq(data, 1, p)
  <1>3. Len(d) = p /\ \A i \in 1 .. p : d[i] = data[i]
    BY <1>1
  <1>4. d \in Seq(Nat)
    BY <1>1
  <1> HIDE DEF d
  <1>5. IsPrefixOf(d, data, p)
    BY <1>1, <1>3, <1>4 DEF IsPrefixOf
  <1> QED BY <1>2, <1>5, Zenon DEF d

(* The archives after a copy.                                               *)
LEMMA NumberedArchive ==
    ASSUME NEW n \in Nat, NEW ids \in SUBSET Nat, archive \in Seq(SUBSET Nat)
    PROVE  /\ Numbered(n, ids) \in Seq(SUBSET Nat)
           /\ Len(Numbered(n, ids)) >= n + 1 /\ Numbered(n, ids)[n + 1] = ids
           /\ \A i \in 1 .. n : i <= Len(archive) => Numbered(n, ids)[i] = archive[i]
  <1> DEFINE m == IF n < Len(archive) THEN Len(archive) ELSE n + 1
             a == Numbered(n, ids)
  <1>1. Len(archive) \in Nat /\ \A i \in 1 .. Len(archive) : archive[i] \in SUBSET Nat
    BY LenProperties, ElementOfSeq, Zenon
  <1>2. m \in Nat /\ n + 1 \in 1 .. m /\ m >= n + 1
    BY <1>1
  <1>3. a = [i \in 1 .. m |-> IF i = n + 1 THEN ids ELSE IF i <= Len(archive) THEN archive[i] ELSE {}]
    BY Zenon DEF Numbered
  <1> HIDE DEF m, a
  <1>4. \A i \in 1 .. m : a[i] = IF i = n + 1 THEN ids ELSE IF i <= Len(archive) THEN archive[i] ELSE {}
    BY <1>3, Zenon
  <1>5. \A i \in 1 .. m : a[i] \in SUBSET Nat
    <2> SUFFICES ASSUME NEW i \in 1 .. m PROVE a[i] \in SUBSET Nat
      BY Zenon
    <2>1. i <= Len(archive) => i \in 1 .. Len(archive)
      BY <1>1, <1>2
    <2>2. {} \in SUBSET Nat
      BY Zenon
    <2> QED BY <1>1, <1>4, <2>1, <2>2, Zenon
  <1>6. a \in [1 .. m -> SUBSET Nat]
    BY <1>3, <1>5, Zenon
  <1>7. a \in Seq(SUBSET Nat) /\ Len(a) = m
    <2>1. a \in UNION {[1 .. k -> SUBSET Nat] : k \in Nat}
      BY <1>2, <1>6, Zenon
    <2>2. a \in Seq(SUBSET Nat)
      BY <2>1, SeqDef, Zenon
    <2>3. DOMAIN a = 1 .. m
      BY <1>6, Zenon
    <2> QED BY <1>2, <2>2, <2>3, LenProperties
  <1>8. ASSUME NEW i \in 1 .. n, i <= Len(archive) PROVE a[i] = archive[i]
    <2>1. i \in 1 .. m /\ i # n + 1
      BY <1>2
    <2> QED BY <1>4, <1>8, <2>1, Zenon
  <1>9. a[n + 1] = ids
    BY <1>2, <1>4, Zenon
  <1> QED BY <1>2, <1>7, <1>8, <1>9, Zenon DEF a

(* What check_wrap does to log l.                                           *)
WrapEffect(l) ==
    /\ failed \subseteq failed'
    /\ UNCHANGED <<disk, clock, thres, ckpt_file, checkpt, msg, next, first>>
    /\ IF ckpt_file THEN pc' = "ckpt" /\ todo' = todo ELSE pc' = NextLog /\ todo' = Tail(todo)
    /\ \A k \in Logs : k # l => file'[k] = file[k] /\ fd'[k] = fd[k] /\ left'[k] = left[k]
    /\ file' \in [Logs -> [there : BOOLEAN, data : Seq(Nat), mtime : Nat]]
    /\ fd' \in [Logs -> Nat \cup {Closed}] /\ left' \in [Logs -> Nat \X Nat]
    /\ archive' \in Seq(SUBSET Nat) /\ archive_sequence_count' \in Nat /\ file_offset' \in Nat
    /\ file'[l].there /\ file'[l].mtime \in {file[l].mtime, clock}
    /\ IsPrefixOf(file'[l].data, file[l].data, fd[l])
    /\ left'[l][1] = left[l][1] /\ left'[l][2] = file_offset' /\ left'[l][2] \in {0, fd[l]}
    /\ fd'[l] = left'[l][2] \/ (fd'[l] = Closed /\ l \in SaveLogs)

(* Every way through check_wrap has this effect.                            *)
LEMMA CheckWrapEffect ==
    ASSUME LogInv, check_wrap, NEW l, l = Head(todo)
    PROVE  /\ WrapEffect(l) /\ l \in Logs /\ pc = "wrap" /\ file[l].there
           /\ fd[l] \in Nat /\ fd[l] = left[l][2] /\ left[l][1] <= fd[l]
  <1>1. Types /\ AfterWrite /\ pc = "wrap" /\ Copying
    BY Zenon DEF LogInv, check_wrap, Copying
  <1>2. l \in Logs /\ fd[l] \in Nat /\ fd[l] # Closed /\ fd[l] = left[l][2] /\ file[l].there
    <2>1. pc # "ckpt"
      BY <1>1, Zenon
    <2> QED BY <1>1, <2>1, CopyHead, Zenon
  <1>3. left[l][1] <= fd[l] /\ fd[l] <= Len(file[l].data)
    BY <1>1, Zenon DEF AfterWrite
  <1>4. /\ file[l].data \in Seq(Nat) /\ clock \in Nat /\ left[l][1] \in Nat /\ left[l][2] \in Nat
        /\ file \in [Logs -> [there : BOOLEAN, data : Seq(Nat), mtime : Nat]]
        /\ fd \in [Logs -> Nat \cup {Closed}] /\ left \in [Logs -> Nat \X Nat]
        /\ archive \in Seq(SUBSET Nat) /\ archive_sequence_count \in Nat
    <2>1. file[l].data \in Seq(Nat) /\ clock \in Nat /\ left[l][1] \in Nat /\ left[l][2] \in Nat
      BY <1>1, <1>2, Numbers, Zenon
    <2> QED BY <1>1, <2>1, Zenon DEF Types
  <1>5. /\ UNCHANGED <<disk, clock, thres, ckpt_file, checkpt, msg, next, first>>
        /\ IF ckpt_file THEN pc' = "ckpt" /\ todo' = todo ELSE pc' = NextLog /\ todo' = Tail(todo)
    BY Zenon DEF check_wrap, Checkpoint
  <1>6. IsPrefixOf(SubSeq(file[l].data, 1, fd[l]), file[l].data, fd[l]) /\ IsPrefixOf(file[l].data, file[l].data, fd[l])
    BY <1>2, <1>3, <1>4, PrefixData, Zenon
  <1>7. CASE Met(l) /\ l \in Wraps /\ Wrap(l)
    <2>1. /\ fd' = [fd EXCEPT ![l] = 0] /\ file_offset' = 0 /\ left' = [left EXCEPT ![l] = <<left[l][1], 0>>]
          /\ Truncate(l) \/ file' = file
          /\ failed \subseteq failed'
          /\ \/ UNCHANGED <<archive, archive_sequence_count>>
             \/ UNCHANGED archive /\ archive_sequence_count' = archive_sequence_count + 1
             \/ /\ archive' = Numbered(archive_sequence_count, Ids(file'["msg"].data))
                /\ archive_sequence_count' = archive_sequence_count + 1
      BY <1>7, Zenon DEF Wrap, Wrapped, Archive, Fails
    <2>2. /\ fd'[l] = 0 /\ (\A k \in Logs : k # l => fd'[k] = fd[k]) /\ fd' \in [Logs -> Nat \cup {Closed}]
      BY <1>2, <1>4, <2>1, OneChanges, Zenon
    <2>3. /\ left'[l] = <<left[l][1], 0>> /\ (\A k \in Logs : k # l => left'[k] = left[k])
          /\ left' \in [Logs -> Nat \X Nat]
      BY <1>2, <1>4, <2>1, Zenon
    <2>4. left'[l][1] = left[l][1] /\ left'[l][2] = 0
      BY <2>3
    <2>5. /\ \A k \in Logs : k # l => file'[k] = file[k]
          /\ file' \in [Logs -> [there : BOOLEAN, data : Seq(Nat), mtime : Nat]]
          /\ file'[l].there /\ file'[l].mtime \in {file[l].mtime, clock}
          /\ IsPrefixOf(file'[l].data, file[l].data, fd[l])
      <3>1. CASE file' = file
        BY <1>2, <1>4, <1>6, <3>1, Zenon
      <3>2. CASE Truncate(l)
        <4> DEFINE d == SubSeq(file[l].data, 1, fd[l])
                   r == [there |-> TRUE, data |-> d, mtime |-> clock]
        <4>1. file' = [file EXCEPT ![l] = r]
          BY <3>2, Zenon DEF Truncate, SetData
        <4>2. d \in Seq(Nat) /\ IsPrefixOf(d, file[l].data, fd[l])
          BY <1>6, Zenon DEF IsPrefixOf
        <4> HIDE DEF d
        <4>3. r \in [there : BOOLEAN, data : Seq(Nat), mtime : Nat] /\ r.there /\ r.data = d /\ r.mtime = clock
          BY <1>4, <4>2, Zenon
        <4> HIDE DEF r
        <4>4. /\ file'[l] = r /\ (\A k \in Logs : k # l => file'[k] = file[k])
              /\ file' \in [Logs -> [there : BOOLEAN, data : Seq(Nat), mtime : Nat]]
          BY <1>2, <1>4, <4>1, <4>3, OneChanges, Zenon
        <4> QED BY <4>2, <4>3, <4>4, Zenon
      <3> QED BY <2>1, <3>1, <3>2, Zenon
    <2>6. archive' \in Seq(SUBSET Nat) /\ archive_sequence_count' \in Nat
      <3>1. Ids(file'["msg"].data) \in SUBSET Nat
        <4>1. "msg" \in Logs
          BY Zenon DEF Logs
        <4>2. file'["msg"].data \in Seq(Nat)
          BY <2>5, <4>1, Zenon
        <4> QED BY <4>2 DEF Ids
      <3>2. Numbered(archive_sequence_count, Ids(file'["msg"].data)) \in Seq(SUBSET Nat)
        BY <1>4, <3>1, NumberedArchive, Zenon
      <3>3. archive_sequence_count + 1 \in Nat
        BY <1>4
      <3> QED BY <1>4, <2>1, <3>2, <3>3, Zenon
    <2>7. file_offset' \in Nat /\ left'[l][2] = file_offset' /\ left'[l][2] \in {0, fd[l]} /\ fd'[l] = left'[l][2]
      BY <2>1, <2>2, <2>4, Zenon
    <2> QED BY <1>1, <1>2, <1>3, <1>5, <2>1, <2>2, <2>3, <2>4, <2>5, <2>6, <2>7, Zenon DEF WrapEffect
  <1>8. CASE ~(Met(l) /\ l \in Wraps /\ Wrap(l))
    <2>1. /\ (fd' = [fd EXCEPT ![l] = Closed] /\ l \in SaveLogs) \/ fd' = fd
          /\ file_offset' = fd[l]
          /\ UNCHANGED <<file, archive, archive_sequence_count, failed, left>>
      BY <1>8, Zenon DEF check_wrap
    <2>2. /\ fd'[l] = fd[l] \/ (fd'[l] = Closed /\ l \in SaveLogs)
          /\ (\A k \in Logs : k # l => fd'[k] = fd[k]) /\ fd' \in [Logs -> Nat \cup {Closed}]
      BY <1>2, <1>4, <2>1, OneChanges, Zenon
    <2> QED BY <1>1, <1>2, <1>3, <1>4, <1>5, <1>6, <2>1, <2>2, Zenon DEF WrapEffect
  <1> QED BY <1>7, <1>8, Zenon

(* check_wrap: the lap ends at the threshold.                               *)
LEMMA CheckWrapInv == ASSUME LogInv, check_wrap PROVE LogInv'
  <1> PICK l : l = Head(todo)
    BY Zenon
  <1>1. Types /\ Laps /\ Checkpoints /\ Times /\ NoCheckpoint /\ CopyOrder
        /\ \A k \in Logs : FileState(k) /\ Position(k)
    BY Zenon DEF LogInv
  <1>2. /\ WrapEffect(l) /\ l \in Logs /\ pc = "wrap" /\ file[l].there
        /\ fd[l] \in Nat /\ fd[l] = left[l][2] /\ left[l][1] <= fd[l]
    BY CheckWrapEffect, Zenon
  <1>3. /\ failed \subseteq failed'
        /\ UNCHANGED <<disk, clock, thres, ckpt_file, checkpt, msg, next, first>>
        /\ \A k \in Logs : k # l => file'[k] = file[k] /\ fd'[k] = fd[k] /\ left'[k] = left[k]
        /\ file' \in [Logs -> [there : BOOLEAN, data : Seq(Nat), mtime : Nat]]
        /\ fd' \in [Logs -> Nat \cup {Closed}] /\ left' \in [Logs -> Nat \X Nat]
        /\ archive' \in Seq(SUBSET Nat) /\ archive_sequence_count' \in Nat /\ file_offset' \in Nat
        /\ file'[l].there /\ file'[l].mtime \in {file[l].mtime, clock}
        /\ IsPrefixOf(file'[l].data, file[l].data, fd[l])
        /\ left'[l][1] = left[l][1] /\ left'[l][2] = file_offset' /\ left'[l][2] \in {0, fd[l]}
        /\ fd'[l] = left'[l][2] \/ (fd'[l] = Closed /\ l \in SaveLogs)
    BY <1>2, Zenon DEF WrapEffect
  <1>4. Copying /\ Running /\ Writing(l) /\ \A k \in Logs : Writing(k) <=> k = l
    BY <1>2, Zenon DEF Copying, Running, Writing
  <1>5. /\ todo \in Seq(Logs) /\ todo # <<>> /\ Head(todo) = todo[1]
        /\ msg.id = next - 1 /\ msg.len > 0
    <2>1. todo \in Seq(Logs) /\ todo # <<>> /\ msg.id = next - 1 /\ msg.len > 0
      BY <1>1, <1>4, Zenon DEF Types, CopyOrder
    <2> QED BY <2>1, HeadTail, Zenon
  <1>6. /\ ckpt_file => pc' = "ckpt" /\ todo' = todo
        /\ ~ckpt_file => /\ pc' \in {"copy", "idle", "end"} /\ (Copying' => todo' \in Seq(Logs))
                         /\ StartOrder' /\ CopyOrder' /\ AfterWrite'
                         /\ \A k \in Logs : ~Writing(k)' /\ Starts(k)'
    <2>1. ckpt_file => pc' = "ckpt" /\ todo' = todo
      BY <1>2, Zenon DEF WrapEffect
    <2>2. ASSUME ~ckpt_file
          PROVE  /\ pc' \in {"copy", "idle", "end"} /\ (Copying' => todo' \in Seq(Logs))
                 /\ StartOrder' /\ CopyOrder' /\ AfterWrite'
                 /\ \A k \in Logs : ~Writing(k)' /\ Starts(k)'
      <3>1. pc' = NextLog /\ todo' = Tail(todo)
        BY <1>2, <2>2, Zenon DEF WrapEffect
      <3> QED BY <1>3, <1>4, <3>1, CopyTail, Zenon
    <2> QED BY <2>1, <2>2, Zenon
  <1>7. pc' \in {"copy", "idle", "end", "ckpt"} /\ Running' /\ pc' # "start"
    BY <1>6, Zenon DEF Running
  <1>8. StartOrder' /\ AfterWrite' /\ \A k \in Logs : Starts(k)'
    <2>1. ASSUME ckpt_file PROVE AfterWrite'
      <3>1. pc' = "ckpt" /\ pc' # "wrap" /\ Head(todo') = l
        BY <1>6, <2>1, Zenon
      <3> QED BY <1>3, <2>1, <3>1, Zenon DEF AfterWrite
    <2> QED BY <1>6, <1>7, <2>1, Zenon DEF StartOrder, Starts
  <1>9. CopyOrder'
    <2>1. ASSUME ckpt_file PROVE CopyOrder'
      <3>1. pc' = "ckpt" /\ todo' = todo /\ pc # "ckpt"
        BY <1>2, <1>6, <2>1, Zenon
      <3>2. ASSUME NEW i \in DOMAIN todo
            PROVE  (fd'[todo[i]] # Closed \/ i = 1) /\ (todo[i] = "msg" => i = 1)
        <4>1. todo[i] \in Logs
          BY <1>5, ElementOfSeq
        <4>2. fd[todo[i]] # Closed /\ (todo[i] = "msg" => i = 1)
          BY <1>1, <1>4, <3>1, Zenon DEF CopyOrder
        <4>3. todo[i] = l => i = 1
          <5>1. 1 \in DOMAIN todo
            BY <1>5, HeadTail, Zenon
          <5> QED BY <1>1, <1>4, <1>5, <5>1, Zenon DEF CopyOrder
        <4> QED BY <1>3, <4>1, <4>2, <4>3, Zenon
      <3> QED BY <1>1, <1>3, <1>4, <3>1, <3>2, Zenon DEF CopyOrder
    <2> QED BY <1>6, <2>1, Zenon
  <1>10. Types'
    <2>1. pc' \in {"down", "start", "idle", "copy", "wrap", "ckpt", "end"}
      BY <1>7, Zenon
    <2>2. Copying' => todo' \in Seq(Logs)
      BY <1>5, <1>6, Zenon
    <2> QED BY <1>1, <1>3, <1>7, <2>1, <2>2, Zenon DEF Types
  <1>11. /\ file[l].data \in Seq(Nat) /\ clock \in Nat \ {0} /\ next \in Nat \ {0} /\ left[l][1] \in Nat
         /\ file[l].mtime \in Nat /\ Len(file[l].data) \in Nat /\ DOMAIN file[l].data = 1 .. Len(file[l].data)
    <2>1. /\ file[l].data \in Seq(Nat) /\ clock \in Nat \ {0} /\ next \in Nat \ {0} /\ left[l][1] \in Nat
          /\ file[l].mtime \in Nat
      BY <1>1, <1>2, Numbers, Zenon
    <2> QED BY <2>1, LenProperties, Zenon
  <1>12. PICK d : d = file'[l].data
    BY Zenon
  <1>13. PICK data : data = file[l].data
    BY Zenon
  <1>14. /\ d \in Seq(Nat) /\ Len(d) \in Nat /\ fd[l] <= Len(d) /\ Len(d) <= Len(data)
         /\ DOMAIN d = 1 .. Len(d) /\ \A i \in 1 .. Len(d) : d[i] = data[i]
    <2>1. d \in Seq(Nat) /\ Len(d) \in Nat /\ fd[l] <= Len(d) /\ Len(d) <= Len(data)
          /\ \A i \in 1 .. Len(d) : d[i] = data[i]
      BY <1>3, <1>12, <1>13, Zenon DEF IsPrefixOf
    <2> QED BY <2>1, LenProperties, Zenon
  <1>15. FileState(l)'
    <2>1. file'[l].mtime \in 1 .. clock
      <3>1. file[l].mtime \in 1 .. clock
        BY <1>1, <1>2, Zenon DEF FileState
      <3> QED BY <1>3, <1>11, <3>1
    <2>2. \A i \in 1 .. Len(data) : data[i] < next
      BY <1>1, <1>2, <1>11, <1>13, Zenon DEF FileState
    <2>3. \A i \in 1 .. Len(d) : i \in 1 .. Len(data)
      BY <1>11, <1>13, <1>14
    <2>4. \A i \in DOMAIN d : d[i] < next
      BY <1>14, <2>2, <2>3, Zenon
    <2> QED BY <1>3, <1>12, <2>1, <2>4, Zenon DEF FileState
  <1>16. Position(l)'
    <2>1. l \notin SaveLogs => fd'[l] # Closed
      BY <1>1, <1>2, <1>3, <1>4 DEF Position, Closed
    <2> QED BY <1>3, <1>7, <2>1, Zenon DEF Position
  <1>17. ASSUME "ckpt" \notin failed PROVE InOrder(l, left[l][1])' /\ InOrder(l, left[l][2])'
    <2>1. /\ \A i \in 2 .. left[l][1] : data[i - 1] <= data[i]
          /\ \A i \in 2 .. left[l][2] : data[i - 1] <= data[i]
      BY <1>1, <1>2, <1>13, <1>17, Zenon DEF Laps, InOrder
    <2>2. ASSUME NEW q \in Nat, q <= fd[l], \A i \in 2 .. q : data[i - 1] <= data[i]
          PROVE  q <= Len(d) /\ \A i \in 2 .. q : d[i - 1] <= d[i]
      <3>1. q <= Len(d)
        BY <1>2, <1>14, <2>2
      <3>2. \A i \in 2 .. q : i \in 1 .. Len(d) /\ i - 1 \in 1 .. Len(d)
        BY <1>14, <3>1
      <3> QED BY <1>14, <2>2, <3>1, <3>2, Zenon
    <2>3. left'[l][1] \in Nat /\ left'[l][1] <= fd[l] /\ \A i \in 2 .. left'[l][1] : data[i - 1] <= data[i]
      BY <1>2, <1>3, <1>11, <2>1, Zenon
    <2>4. left'[l][2] \in Nat /\ left'[l][2] <= fd[l] /\ \A i \in 2 .. left'[l][2] : data[i - 1] <= data[i]
      <3>1. CASE left'[l][2] = 0
        BY <1>2, <3>1
      <3>2. CASE left'[l][2] = fd[l]
        <4>1. fd[l] <= fd[l]
          BY <1>2
        <4> QED BY <1>2, <2>1, <3>2, <4>1, Zenon
      <3> QED BY <1>3, <3>1, <3>2, Zenon
    <2>5. left'[l][1] <= Len(d) /\ \A i \in 2 .. left'[l][1] : d[i - 1] <= d[i]
      BY <2>2, <2>3, Zenon
    <2>6. left'[l][2] <= Len(d) /\ \A i \in 2 .. left'[l][2] : d[i - 1] <= d[i]
      BY <2>2, <2>4, Zenon
    <2> QED BY <1>12, <2>5, <2>6, Zenon DEF InOrder
  <1>18. Laps'
    BY <1>1, <1>3, <1>17, Zenon DEF Laps, InOrder
  <1>19. Times' /\ NoCheckpoint'
    BY <1>1, <1>3, <1>4, <1>7, Zenon DEF Times, NoCheckpoint, Zeroed
  <1>20. Checkpoints'
    <2> SUFFICES ASSUME "ckpt" \notin failed, NEW k \in Logs
                 PROVE  /\ disk'.kind = "good" => Agrees(disk.ckpt, k)'
                        /\ Agrees(checkpt, k)'
                        /\ fd'[k] # Closed \/ Writing(k)' =>
                              Current(checkpt, k)' /\ (disk'.kind = "good" => Current(disk.ckpt, k)')
      BY <1>3, <1>7, Zenon DEF Checkpoints
    <2>1. CASE k = l
      <3>1. /\ Current(checkpt, l) /\ (disk.kind = "good" => Current(disk.ckpt, l))
            /\ checkpt.mod_time[l] <= clock /\ (disk.kind = "good" => disk.ckpt.mod_time[l] <= clock)
        BY <1>1, <1>2, <1>4, Zenon DEF Checkpoints, Times
      <3>2. /\ checkpt.mod_time[l] \in Nat /\ disk.ckpt.mod_time[l] \in Nat
            /\ file[l].mtime \in 1 .. clock
        BY <1>1, <1>2, Numbers, Zenon DEF FileState
      <3>3. ASSUME NEW c, Current(c, l), c.mod_time[l] \in Nat, c.mod_time[l] <= clock
            PROVE  /\ c.mod_time[l] <= file'[l].mtime
                   /\ c.mod_time[l] = file'[l].mtime => c.offset[l] = left'[l][1]
        <4>1. c.mod_time[l] <= file[l].mtime /\ (c.mod_time[l] = file[l].mtime => c.offset[l] = left[l][1])
          BY <1>4, <3>3, Zenon DEF Current
        <4>2. CASE file'[l].mtime = file[l].mtime
          BY <1>3, <4>1, <4>2, Zenon
        <4>3. CASE file'[l].mtime = clock
          <5>1. c.mod_time[l] = clock => c.mod_time[l] = file[l].mtime
            BY <1>11, <3>2, <3>3, <4>1
          <5> QED BY <1>3, <3>3, <4>1, <4>3, <5>1, Zenon
        <4> QED BY <1>3, <4>2, <4>3, Zenon
      <3>4. CASE ckpt_file
        <4>1. Writing(l)'
          BY <1>6, <3>4, Zenon DEF Writing
        <4>2. Agrees(checkpt, l)' /\ Current(checkpt, l)'
          BY <1>3, <3>1, <3>2, <3>3, <4>1, Zenon DEF Agrees, Current
        <4>3. disk.kind = "good" => Agrees(disk.ckpt, l)' /\ Current(disk.ckpt, l)'
          BY <1>3, <3>1, <3>2, <3>3, <4>1, Zenon DEF Agrees, Current
        <4> QED BY <1>3, <2>1, <4>2, <4>3, Zenon
      <3>5. CASE ~ckpt_file
        <4>1. disk.kind = "empty" /\ checkpt.mod_time[l] = 0
          BY <1>1, <1>2, <1>4, <3>5, Zenon DEF NoCheckpoint, Zeroed
        <4>2. file'[l].mtime # 0 /\ 0 <= file'[l].mtime
          <5>1. \A m \in 1 .. clock : m # 0 /\ 0 <= m
            OBVIOUS
          <5>2. clock \in 1 .. clock
            BY <1>11
          <5> QED BY <1>3, <3>2, <5>1, <5>2, Zenon
        <4>3. disk'.kind # "good"
          BY <1>3, <4>1, Zenon
        <4> QED BY <1>3, <2>1, <4>1, <4>2, <4>3, Zenon DEF Agrees, Current
      <3> QED BY <3>4, <3>5, Zenon
    <2>2. CASE k # l
      <3>1. ~Writing(k)' /\ ~Writing(k)
        BY <1>4, <1>6, <2>2, Zenon DEF Writing
      <3>2. file'[k] = file[k] /\ fd'[k] = fd[k] /\ left'[k] = left[k] /\ disk' = disk /\ checkpt' = checkpt
        BY <1>3, <2>2, Zenon
      <3>3. /\ disk.kind = "good" => Agrees(disk.ckpt, k)
            /\ Agrees(checkpt, k)
            /\ fd[k] # Closed => Current(checkpt, k) /\ (disk.kind = "good" => Current(disk.ckpt, k))
        BY <1>1, <1>4, <3>1, Zenon DEF Checkpoints
      <3>4. ASSUME NEW c
            PROVE  Agrees(c, k) => /\ file'[k].there /\ c.mod_time[k] = file'[k].mtime
                                       => c.offset[k] \in {left'[k][1], left'[k][2]}
        BY <3>2, Zenon DEF Agrees
      <3>5. ASSUME NEW c
            PROVE  Current(c, k) => /\ c.mod_time[k] <= file'[k].mtime
                                    /\ c.mod_time[k] = file'[k].mtime => c.offset[k] = left'[k][2]
        BY <3>1, <3>2, Zenon DEF Current
      <3>6. /\ disk'.kind = "good" => Agrees(disk.ckpt, k)'
            /\ Agrees(checkpt, k)'
        BY <3>2, <3>3, <3>4, Zenon DEF Agrees
      <3>7. fd'[k] # Closed => Current(checkpt, k)' /\ (disk'.kind = "good" => Current(disk.ckpt, k)')
        BY <3>1, <3>2, <3>3, <3>5, Zenon DEF Current
      <3> QED BY <3>1, <3>6, <3>7, Zenon
    <2> QED BY <2>1, <2>2, Zenon
  <1>21. ASSUME NEW k \in Logs PROVE FileState(k)' /\ Position(k)'
    BY <1>1, <1>3, <1>4, <1>7, <1>15, <1>16, Zenon DEF FileState, Position
  <1> QED BY <1>8, <1>9, <1>10, <1>18, <1>19, <1>20, <1>21, Zenon DEF LogInv

(* update_ckpt: the checkpoint knows where the log was left.                *)
LEMMA UpdateCkptInv == ASSUME LogInv, update_ckpt PROVE LogInv'
  <1> PICK l : l = Head(todo)
    BY Zenon
  <1>1. Types /\ Laps /\ Checkpoints /\ Times /\ NoCheckpoint /\ CopyOrder /\ AfterWrite
        /\ \A k \in Logs : FileState(k) /\ Position(k)
    BY Zenon DEF LogInv
  <1>2. /\ pc = "ckpt" /\ pc' = NextLog /\ todo' = Tail(todo) /\ failed \subseteq failed'
        /\ checkpt' = Updated(checkpt, l, file_offset, file[l].mtime)
        /\ disk' = Usable(checkpt') \/ (disk' = disk /\ "ckpt" \in failed')
        /\ UNCHANGED <<file, archive, clock, thres, fd, ckpt_file, archive_sequence_count, msg,
                       file_offset, next, first, left>>
    BY Zenon DEF update_ckpt, Updated, Fails
  <1>3. Copying /\ Running /\ \A k \in Logs : Writing(k) <=> k = l
    BY <1>2, Zenon DEF Copying, Running, Writing
  <1>4. l \in Logs /\ file_offset = left[l][2] /\ ckpt_file
    BY <1>1, <1>2, <1>3, CopyHead, Zenon DEF AfterWrite
  <1>5. /\ pc' \in {"copy", "idle", "end"} /\ Running' /\ (Copying' => todo' \in Seq(Logs))
        /\ StartOrder' /\ CopyOrder' /\ AfterWrite'
        /\ \A k \in Logs : ~Writing(k)' /\ Starts(k)'
    BY <1>2, <1>3, CopyTail, Zenon
  <1>6. /\ checkpt' \in Ckpts /\ checkpt'.mod_time[l] = file[l].mtime /\ checkpt'.offset[l] = file_offset
        /\ \A k \in Logs : k # l => checkpt'.mod_time[k] = checkpt.mod_time[k]
                                    /\ checkpt'.offset[k] = checkpt.offset[k]
    <2>1. checkpt \in Ckpts /\ file_offset \in Nat /\ file[l].mtime \in Nat
      BY <1>1, <1>4, Numbers, Zenon DEF Types
    <2> PICK c, o, m : c = checkpt /\ o = file_offset /\ m = file[l].mtime
      BY Zenon
    <2>2. c \in Ckpts /\ o \in Nat /\ m \in Nat /\ checkpt' = Updated(c, l, o, m)
      BY <1>2, <2>1, Zenon
    <2>3. IsUpdated(Updated(c, l, o, m), c, l, o, m)
      BY <1>4, <2>2, CkptUpdate, Zenon
    <2>4. IsUpdated(checkpt', c, l, o, m)
      BY <2>2, <2>3, Zenon
    <2> QED BY <2>4, Zenon DEF IsUpdated
  <1>7. /\ disk' \in [kind : {"empty", "short", "bad", "good"}, ckpt : Ckpts]
        /\ (disk'.kind = "good" /\ disk'.ckpt = checkpt') \/ (disk' = disk /\ "ckpt" \in failed')
    <2>1. disk \in [kind : {"empty", "short", "bad", "good"}, ckpt : Ckpts]
      BY <1>1, Zenon DEF Types
    <2>2. /\ Usable(checkpt').kind = "good" /\ Usable(checkpt').ckpt = checkpt'
          /\ Usable(checkpt') \in [kind : {"empty", "short", "bad", "good"}, ckpt : Ckpts]
      BY <1>6, CkptTypes, Zenon
    <2> QED BY <1>2, <2>1, <2>2, Zenon
  <1>8. pc' # "start"
    BY <1>5, Zenon
  <1>9. Types'
    <2>1. pc' \in {"down", "start", "idle", "copy", "wrap", "ckpt", "end"}
      BY <1>5, Zenon
    <2> QED BY <1>1, <1>2, <1>5, <1>6, <1>7, <1>8, <2>1, Zenon DEF Types
  <1>10. Laps'
    BY <1>1, <1>2, Zenon DEF Laps, InOrder
  <1>11. file[l].mtime <= clock
    <2>1. clock \in Nat /\ (IF file[l].there THEN file[l].mtime \in 1 .. clock ELSE file[l] = Missing)
      BY <1>1, <1>4, Zenon DEF FileState, Types
    <2> QED BY <2>1 DEF Missing
  <1>12. Times'
    <2>1. \A k \in Logs : checkpt'.mod_time[k] <= clock
      BY <1>1, <1>4, <1>6, <1>11, Zenon DEF Times
    <2> QED BY <1>1, <1>2, <1>7, <1>8, <2>1, Zenon DEF Times
  <1>13. NoCheckpoint'
    BY <1>2, <1>4, Zenon DEF NoCheckpoint
  <1>14. Checkpoints'
    <2> SUFFICES ASSUME "ckpt" \notin failed', NEW k \in Logs
                 PROVE  /\ disk'.kind = "good" => Agrees(disk.ckpt, k)'
                        /\ Agrees(checkpt, k)'
                        /\ fd'[k] # Closed =>
                              Current(checkpt, k)' /\ (disk'.kind = "good" => Current(disk.ckpt, k)')
      BY <1>5, Zenon DEF Checkpoints
    <2>1. disk'.ckpt = checkpt' /\ "ckpt" \notin failed
      BY <1>2, <1>7, Zenon
    <2>2. Agrees(checkpt, k)'
      BY <1>1, <1>2, <1>3, <1>4, <1>6, <2>1, Zenon DEF Checkpoints, Agrees
    <2>3. ASSUME fd[k] # Closed PROVE Current(checkpt, k)'
      <3>1. file[l].mtime <= file[l].mtime
        BY <1>1, <1>4, Numbers
      <3> QED BY <1>1, <1>2, <1>3, <1>4, <1>5, <1>6, <2>1, <2>3, <3>1, Zenon DEF Checkpoints, Current
    <2> QED BY <1>2, <2>1, <2>2, <2>3, Zenon DEF Agrees, Current
  <1>15. \A k \in Logs : FileState(k)' /\ Position(k)'
    BY <1>1, <1>2, <1>3, <1>5, Zenon DEF FileState, Position
  <1> QED BY <1>5, <1>9, <1>10, <1>12, <1>13, <1>14, <1>15, Zenon DEF LogInv

(* The end of hxsmsg: the files stay, but for a torn checkpoint.            *)
LEMMA GoneInv ==
    ASSUME LogInv, Gone,
           disk' = disk \/ \E kind \in {"short", "bad"} : disk' = Unusable(kind)
    PROVE  LogInv'
  <1>1. Types /\ Laps /\ Checkpoints /\ Times /\ \A l \in Logs : FileState(l)
    BY Zenon DEF LogInv
  <1>2. /\ pc' = "down" /\ todo' = <<>> /\ fd' = [l \in Logs |-> Closed]
        /\ checkpt' = Zero(thres) /\ archive_sequence_count' = 0 /\ file_offset' = 0
        /\ UNCHANGED <<file, archive, clock, thres, next, first, failed, left>>
    BY Zenon DEF Gone, history
  <1>3. ~Running' /\ ~Copying' /\ pc' \notin {"start", "wrap", "ckpt"}
    BY <1>2, Zenon DEF Running, Copying
  <1>4. /\ disk' \in [kind : {"empty", "short", "bad", "good"}, ckpt : Ckpts]
        /\ disk'.kind = "good" => disk' = disk
    <2>1. CASE disk' = disk
      BY <1>1, <2>1, Zenon DEF Types
    <2>2. ASSUME NEW kind \in {"short", "bad"}, disk' = Unusable(kind)
          PROVE  disk'.kind # "good" /\ disk' \in [kind : {"empty", "short", "bad", "good"}, ckpt : Ckpts]
      <3>1. kind \in {"empty", "short", "bad"} /\ kind # "good"
        BY <2>2, Zenon
      <3> QED BY <2>2, <3>1, CkptTypes, Zenon
    <2> QED BY <2>1, <2>2, Zenon
  <1>5. checkpt' \in Ckpts /\ \A l \in Logs : Zeroed(l)'
    <2>1. thres \in [Logs -> Nat]
      BY <1>1, Zenon DEF Types
    <2> QED BY <1>2, <2>1, CkptTypes, Zenon DEF Zeroed
  <1>6. Types'
    <2>1. /\ msg' \in [id : Nat, len : Nat, error : BOOLEAN, final : BOOLEAN]
          /\ ckpt_file' \in BOOLEAN
      <3>1. NoMsg \in [id : Nat, len : Nat, error : BOOLEAN, final : BOOLEAN]
        BY Zenon DEF NoMsg
      <3>2. msg' = NoMsg /\ ckpt_file' = FALSE
        BY Zenon DEF Gone
      <3> QED BY <3>1, <3>2, Zenon
    <2>2. fd' \in [Logs -> Nat \cup {Closed}] /\ file_offset' \in Nat /\ archive_sequence_count' \in Nat
      BY <1>2, Zenon
    <2>3. pc' \in {"down", "start", "idle", "copy", "wrap", "ckpt", "end"} /\ pc' # "start"
      BY <1>2, Zenon
    <2> QED BY <1>1, <1>2, <1>3, <1>4, <1>5, <2>1, <2>2, <2>3, Zenon DEF Types
  <1>7. StartOrder' /\ CopyOrder' /\ AfterWrite' /\ NoCheckpoint'
    BY <1>3, <1>5, Zenon DEF StartOrder, CopyOrder, AfterWrite, NoCheckpoint
  <1>8. Laps'
    BY <1>1, <1>2, Zenon DEF Laps, InOrder
  <1>9. Times'
    <2>1. \A l \in Logs : checkpt'.mod_time[l] <= clock
      <3>1. 0 <= clock
        BY <1>1 DEF Types
      <3> QED BY <1>5, <3>1, Zenon DEF Zeroed
    <2> QED BY <1>1, <1>2, <1>3, <1>4, <2>1, Zenon DEF Times
  <1>10. Checkpoints'
    BY <1>1, <1>2, <1>3, <1>4, Zenon DEF Checkpoints, Agrees
  <1>11. \A l \in Logs : FileState(l)' /\ Position(l)' /\ Starts(l)'
    BY <1>1, <1>2, <1>3, Zenon DEF FileState, Position, Starts
  <1> QED BY <1>6, <1>7, <1>8, <1>9, <1>10, <1>11, Zenon DEF LogInv

(* clean_up and the end of hxsmsg at any other point.                       *)
LEMMA CrashInv == ASSUME LogInv, clean_up \/ Crash PROVE LogInv'
  <1>1. Gone /\ (disk' = disk \/ \E kind \in {"short", "bad"} : disk' = Unusable(kind))
    BY Zenon DEF clean_up, Crash
  <1> QED BY <1>1, GoneInv, Zenon

(* Time passes.                                                             *)
LEMMA TickInv == ASSUME LogInv, Tick PROVE LogInv'
  <1>1. LogInv
    BY Zenon
  <1>2. /\ clock' = clock + 1 /\ pc # "start"
        /\ UNCHANGED <<file, disk, archive, pc, todo, thres, fd, ckpt_file, checkpt,
                       archive_sequence_count, msg, file_offset, next, first, failed, left>>
    BY Zenon DEF Tick, files, local, history
  <1>3. clock \in Nat \ {0} /\ clock' \in Nat \ {0} /\ \A n \in Nat : n <= clock => n <= clock'
    BY <1>1, <1>2 DEF LogInv, Types
  <1>4. \A n : n \in 1 .. clock => n \in 1 .. clock'
    BY <1>2, <1>3
  <1>5. Types'
    BY <1>1, <1>2, <1>3, Zenon DEF LogInv, Types, Copying
  <1>6. StartOrder' /\ CopyOrder' /\ Laps' /\ AfterWrite'
    BY <1>1, <1>2, Zenon DEF LogInv, StartOrder, CopyOrder, Copying, Laps, InOrder, AfterWrite
  <1>7. Checkpoints' /\ NoCheckpoint'
    BY <1>1, <1>2, Zenon DEF LogInv, Checkpoints, Agrees, Current, Writing, Running, NoCheckpoint, Zeroed, Pending
  <1>8. \A l \in Logs : FileState(l)' /\ Position(l)' /\ Starts(l)'
    BY <1>1, <1>2, <1>4, Zenon DEF LogInv, FileState, Position, Running, Starts
  <1>9. Times'
    <2>1. \A l \in Logs : checkpt.mod_time[l] \in Nat /\ disk.ckpt.mod_time[l] \in Nat
      BY <1>1, Numbers, Zenon DEF LogInv
    <2> QED BY <1>1, <1>2, <1>3, <2>1, Zenon DEF LogInv, Times
  <1> QED BY <1>5, <1>6, <1>7, <1>8, <1>9, Zenon DEF LogInv

(* Every step keeps the order of the logs.                                  *)
LEMMA NextLogInv == LogInv /\ [Next]_vars => LogInv'
  <1> SUFFICES ASSUME LogInv, [Next]_vars PROVE LogInv'
    BY Zenon
  <1>1. CASE UNCHANGED vars
    <2>1. UNCHANGED <<file, disk, archive, clock, pc, todo, thres, fd, ckpt_file, checkpt,
                      archive_sequence_count, msg, file_offset, next, first, failed, left>>
      BY <1>1, Zenon DEF vars, files, local, history
    <2>2. LogInv
      BY Zenon
    <2>3. Types' /\ StartOrder' /\ CopyOrder'
      BY <2>1, <2>2, Zenon DEF LogInv, Types, StartOrder, CopyOrder, Copying
    <2>7. Laps' /\ AfterWrite' /\ Times'
      BY <2>1, <2>2, Zenon DEF LogInv, Laps, InOrder, AfterWrite, Times
    <2>4. Checkpoints' /\ NoCheckpoint'
      BY <2>1, <2>2, Zenon DEF LogInv, Checkpoints, Agrees, Current, Writing, Running, NoCheckpoint, Zeroed, Pending
    <2>5. \A l \in Logs : FileState(l)' /\ Position(l)'
      BY <2>1, <2>2, Zenon DEF LogInv, FileState, Position, Running
    <2>6. \A l \in Logs : Starts(l)'
      BY <2>1, <2>2, Zenon DEF LogInv, Starts, Kept, Checked, Zeroed, Pending
    <2> QED BY <2>3, <2>4, <2>5, <2>6, <2>7, Zenon DEF LogInv
  <1>2. CASE Start
    BY <1>2, StartInv, Zenon
  <1>3. CASE OpenLogs
    BY <1>3, CheckCkptInv, RmCkptInv, SetFileOffsetsInv, RmFileInv, CheckTimeInv, Zenon DEF OpenLogs
  <1>4. CASE copy_message \/ write_fails
    BY <1>4, CopyMessageInv, WriteFailsInv, Zenon
  <1>5. CASE write_log \/ check_wrap \/ update_ckpt
    BY <1>5, WriteLogInv, CheckWrapInv, UpdateCkptInv, Zenon
  <1>6. CASE clean_up \/ Crash
    BY <1>6, CrashInv, Zenon
  <1>7. CASE Tick
    BY <1>7, TickInv, Zenon
  <1> QED BY <1>1, <1>2, <1>3, <1>4, <1>5, <1>6, <1>7, Zenon DEF Next

(* The invariant holds in every state.                                      *)
THEOREM LogsKeepOrder == Spec => []LogInv
  BY InitLogInv, NextLogInv, PTL DEF Spec

(* A log is positioned behind one lap of messages in the order of their     *)
(* arrival, whatever crashes and restarts there have been: write_log,       *)
(* check_wrap and set_file_offsets.                                         *)
THEOREM LogsInOrder == Spec => []LapInOrder
  <1>1. LogInv => LapInOrder
    <2> SUFFICES ASSUME LogInv, NEW l \in Logs, "ckpt" \notin failed, fd[l] # Closed, pc # "start"
                 PROVE  /\ fd[l] <= Len(file[l].data)
                        /\ \A i \in 2 .. fd[l] : file[l].data[i - 1] <= file[l].data[i]
      BY Zenon DEF LapInOrder
    <2>1. fd[l] = left[l][2]
      BY Zenon DEF LogInv, Position
    <2> QED BY <2>1, Zenon DEF LogInv, Laps, InOrder
  <1> QED BY <1>1, LogsKeepOrder, PTL

(* A restart continues a log that check_time has kept where it was left, or *)
(* one write before.                                                        *)
THEOREM RestartLosesOneMessage == Spec => []LosesOneMessage
  <1>1. LogInv => LosesOneMessage
    BY ContinuesLog, Zenon DEF LosesOneMessage
  <1> QED BY <1>1, LogsKeepOrder, PTL

(***************************************************************************)
(* The archives                                                            *)
(***************************************************************************)

(* A step after which the same messages have to be held, and still are.     *)
LEMMA KeepsHeld ==
    ASSUME Archived, Running, pc' # "start", failed \subseteq failed', first' = first, Stored' = Stored,
           "cp" \notin failed' => archive_sequence_count' <= Len(archive'),
           Archives /\ failed' \cap {"write", "cp"} = {} => \A m : Held(m) => Held(m)'
    PROVE  Archived'
  <1>1. failed' \cap {"write", "cp"} = {} => failed \cap {"write", "cp"} = {}
    BY Zenon
  <1>2. Archives /\ failed' \cap {"write", "cp"} = {} => \A m \in first .. Stored : Held(m)'
    BY <1>1, Zenon DEF Archived
  <1> QED BY <1>2, Zenon DEF Archived

(* The steps of start up and the end of hxsmsg.                             *)
LEMMA StartArchived ==
    ASSUME LogInv, Archived, Start \/ OpenLogs \/ clean_up \/ Crash PROVE Archived'
  <1> DEFINE Same == UNCHANGED <<archive, failed, archive_sequence_count, next>>
  <1>1. CASE Start
    <2>1. Same /\ pc' = "start" /\ first' = next
      BY <1>1, Zenon DEF Start, files
    <2>2. ~Running'
      BY <2>1, Zenon DEF Running
    <2> QED BY <2>1, <2>2, Zenon DEF Archived
  <1>2. CASE set_file_offsets
    <2>1. Same /\ pc = "start" /\ pc' = "idle" /\ first' = first
      BY <1>2, Zenon DEF set_file_offsets, Starting
    <2>2. first = next /\ pc' # "start"
      BY <2>1, Zenon DEF Archived
    <2>3. Stored' = next - 1 /\ next \in Nat
      BY <2>1, Zenon DEF Stored, LogInv, Types
    <2>4. first' .. Stored' = {}
      BY <2>1, <2>2, <2>3
    <2> QED BY <2>1, <2>2, <2>4, Zenon DEF Archived
  <1>3. CASE OpenLogs /\ ~set_file_offsets
    <2>1. Same /\ pc = "start" /\ pc' = pc /\ first' = first
      <3>1. CASE check_ckpt
        BY <3>1, Zenon DEF check_ckpt, Starting, history
      <3>2. CASE rm_ckpt
        BY <3>2, Zenon DEF rm_ckpt, Starting, history, local
      <3>3. ASSUME NEW l \in Logs, rm_file(l) PROVE Same /\ pc = "start" /\ pc' = pc /\ first' = first
        BY <3>3, Zenon DEF rm_file, Starting, local
      <3>4. ASSUME NEW l \in Logs, check_time(l) PROVE Same /\ pc = "start" /\ pc' = pc /\ first' = first
        BY <3>4, Zenon DEF check_time, Starting
      <3> QED BY <1>3, <3>1, <3>2, <3>3, <3>4, Zenon DEF OpenLogs
    <2>2. ~Running'
      BY <2>1, Zenon DEF Running
    <2> QED BY <2>1, <2>2, Zenon DEF Archived
  <1>4. CASE clean_up \/ Crash
    <2>1. /\ pc' = "down" /\ archive_sequence_count' = 0 /\ archive' = archive
      BY <1>4, Zenon DEF clean_up, Crash, Gone
    <2>2. ~Running' /\ pc' # "start"
      BY <2>1, Zenon DEF Running
    <2>3. 0 <= Len(archive)
      BY LenProperties DEF LogInv, Types
    <2> QED BY <2>1, <2>2, <2>3, Zenon DEF Archived
  <1> QED BY <1>1, <1>2, <1>3, <1>4, Zenon

(* The position of the message log in the main loop.                        *)
LEMMA MsgOpen ==
    ASSUME LogInv, Running
    PROVE  /\ "msg" \in Logs /\ "msg" \notin SaveLogs /\ fd["msg"] \in Nat /\ fd["msg"] # Closed
           /\ file["msg"].data \in Seq(Nat)
  <1>1. "msg" \in Logs /\ "msg" \notin SaveLogs
    BY Zenon DEF Logs, SaveLogs
  <1>2. fd["msg"] # Closed
    BY <1>1, Zenon DEF LogInv, Position
  <1> QED BY <1>1, <1>2, Numbers, Zenon DEF LogInv

(* copy_message: the message log is the first it is written to.             *)
LEMMA CopyMessageArchived == ASSUME LogInv, Archived, copy_message PROVE Archived'
  <1>1. /\ pc = "idle" /\ pc' = "copy" /\ next' = next + 1 /\ next \in Nat
        /\ UNCHANGED <<file, archive, fd, archive_sequence_count, first, failed>>
    BY Zenon DEF copy_message, files, local, history, LogInv, Types
  <1>2. Running
    BY <1>1, Zenon DEF Running
  <1>3. PICK error \in BOOLEAN : todo' = Written(error)
    BY LogAssumption, Zenon DEF copy_message
  <1>4. Head(todo') = "msg"
    BY <1>2, <1>3, MsgOpen, WrittenOrder, Zenon
  <1>5. Stored' = Stored
    BY <1>1, <1>4 DEF Stored
  <1>6. /\ pc' # "start" /\ failed \subseteq failed'
        /\ "cp" \notin failed' => archive_sequence_count' <= Len(archive')
    BY <1>1, Zenon DEF Archived
  <1>7. \A m : Held(m) => Held(m)'
    BY <1>1, Zenon DEF Held
  <1> QED BY <1>1, <1>2, <1>5, <1>6, <1>7, KeepsHeld, Zenon

(* write_fails: the message may be lost.                                    *)
LEMMA WriteFailsArchived == ASSUME LogInv, Archived, write_fails PROVE Archived'
  <1>1. /\ pc' \in {"copy", "idle", "end"} /\ failed' = failed \cup {"write"}
        /\ UNCHANGED <<archive, archive_sequence_count>>
    BY Zenon DEF write_fails, Fails, NextLog, files, local
  <1>2. pc' # "start" /\ failed' \cap {"write", "cp"} # {} /\ ("cp" \notin failed' => "cp" \notin failed)
    BY <1>1, Zenon
  <1> QED BY <1>1, <1>2, Zenon DEF Archived

(* write_log: the message is behind what was held.                          *)
LEMMA WriteLogArchived == ASSUME LogInv, Archived, write_log PROVE Archived'
  <1> PICK l : l = Head(todo)
    BY Zenon
  <1>1. Types /\ Copying /\ Running /\ pc # "ckpt"
    BY Zenon DEF LogInv, write_log, Copying, Running
  <1>2. l \in Logs /\ fd[l] \in Nat /\ msg.id = next - 1
    BY <1>1, CopyHead, Zenon
  <1>3. /\ pc = "copy" /\ pc' = "wrap" /\ failed \subseteq failed'
        /\ UNCHANGED <<archive, archive_sequence_count, msg, next, first>>
        /\ \A k \in Logs : k # l => file'[k] = file[k] /\ fd'[k] = fd[k]
    BY <1>1, <1>2, WriteEffect, Zenon
  <1>4. next \in Nat /\ first \in Nat /\ msg.id \in Nat /\ msg.len \in Nat /\ Stored' = next - 1
    BY <1>1, <1>3, Zenon DEF Types, Stored
  <1>5. /\ pc' # "start"
        /\ "cp" \notin failed' => archive_sequence_count' <= Len(archive')
    BY <1>3, Zenon DEF Archived
  <1>6. CASE l = "msg"
    <2>1. PICK n \in 1 .. msg.len :
             /\ file'[l] = [there |-> TRUE, data |-> Overwrite(file[l].data, fd[l], n), mtime |-> clock]
             /\ fd'[l] = fd[l] + n
      BY <1>1, <1>2, WriteEffect, Zenon
    <2>2. PICK data, d, o : data = file[l].data /\ d = Overwrite(data, o, n) /\ o = fd[l]
      BY Zenon
    <2>3. data \in Seq(Nat) /\ o \in Nat /\ n \in Nat \ {0}
      <3>1. data \in Seq(Nat)
        BY <1>1, <1>2, <2>2, Numbers, Zenon
      <3> QED BY <1>2, <1>4, <2>2, <3>1
    <2>4. IsWritten(Overwrite(data, o, n), data, o, n)
      BY <1>4, <2>3, OverwriteData, Zenon
    <2>5. IsWritten(d, data, o, n)
      BY <2>2, <2>4, Zenon
    <2>6. file'[l].data = d
      BY <2>1, <2>2
    <2>7. fd'[l] = o + n /\ fd[l] = o /\ file[l].data = data
      BY <2>1, <2>2, Zenon
    <2>8. o + 1 \in DOMAIN d /\ o + 1 <= o + n /\ d[o + 1] = next - 1
      BY <1>2, <2>3, <2>5 DEF IsWritten
    <2>9. ASSUME NEW i \in DOMAIN data, i <= o PROVE i \in DOMAIN d /\ i <= o + n /\ d[i] = data[i]
      <3>1. DOMAIN data = 1 .. Len(data) /\ Len(data) \in Nat
        BY <2>3, LenProperties, Zenon
      <3> QED BY <2>3, <2>5, <2>9, <3>1 DEF IsWritten
    <2>10. Held(next - 1)'
      BY <1>3, <1>6, <2>6, <2>7, <2>8, Zenon DEF Held
    <2>11. \A m : Held(m) => Held(m)'
      BY <1>3, <1>6, <2>6, <2>7, <2>9, Zenon DEF Held
    <2>12. Stored = next - 2
      BY <1>3, <1>6, Zenon DEF Stored
    <2>13. \A m \in first .. next - 1 : m \in first .. next - 2 \/ m = next - 1
      BY <1>4
    <2>14. failed' \cap {"write", "cp"} = {} => failed \cap {"write", "cp"} = {}
      BY <1>3, Zenon
    <2> QED BY <1>1, <1>3, <1>4, <1>5, <2>10, <2>11, <2>12, <2>13, <2>14, Zenon DEF Archived
  <1>7. CASE l # "msg"
    <2>1. Stored' = Stored
      BY <1>3, <1>4, <1>7, Zenon DEF Stored
    <2>2. \A m : Held(m) => Held(m)'
      BY <1>1, <1>3, <1>7, MsgOpen, Zenon DEF Held
    <2> QED BY <1>1, <1>3, <1>5, <2>1, <2>2, KeepsHeld, Zenon
  <1> QED BY <1>6, <1>7, Zenon

(* check_wrap: with archiving the whole lap is copied before it is          *)
(* overwritten, under a number that no earlier lap of this hxsmsg has.      *)
LEMMA CheckWrapArchived == ASSUME LogInv, Archived, check_wrap PROVE Archived'
  <1> PICK l : l = Head(todo)
    BY Zenon
  <1>1. /\ WrapEffect(l) /\ l \in Logs /\ pc = "wrap" /\ fd[l] \in Nat
    BY CheckWrapEffect, Zenon
  <1>2. Copying /\ Running /\ Types
    BY <1>1, Zenon DEF Copying, Running, LogInv
  <1>3. /\ "msg" \in Logs /\ "msg" \notin SaveLogs /\ fd["msg"] \in Nat /\ file["msg"].data \in Seq(Nat)
        /\ archive_sequence_count \in Nat /\ archive \in Seq(SUBSET Nat)
    BY <1>2, MsgOpen, Zenon DEF Types
  <1>4. /\ failed \subseteq failed' /\ UNCHANGED <<msg, next, first>>
        /\ IF ckpt_file THEN pc' = "ckpt" /\ todo' = todo ELSE pc' = NextLog /\ todo' = Tail(todo)
        /\ \A k \in Logs : k # l => file'[k] = file[k] /\ fd'[k] = fd[k]
        /\ file' \in [Logs -> [there : BOOLEAN, data : Seq(Nat), mtime : Nat]]
        /\ IsPrefixOf(file'[l].data, file[l].data, fd[l])
    BY <1>1, Zenon DEF WrapEffect
  <1>5. pc' # "start" /\ Stored' = Stored
    <2>1. Stored = next - 1
      BY <1>1, Zenon DEF Stored
    <2>2. pc' \in {"ckpt", "idle", "end"} \/ (pc' = "copy" /\ Head(todo') # "msg")
      <3>1. CASE ckpt_file
        BY <1>4, <3>1, Zenon
      <3>2. CASE ~ckpt_file
        <4>1. pc' \in {"copy", "idle", "end"} /\ (pc' = "copy" => Head(todo') # "msg")
          BY <1>2, <1>4, <3>2, CopyTail, Zenon
        <4> QED BY <4>1, Zenon
      <3> QED BY <3>1, <3>2, Zenon
    <2> QED BY <1>4, <2>1, <2>2, Zenon DEF Stored
  <1>6. CASE Met(l) /\ l \in Wraps /\ Wrap(l)
    <2>1. /\ \/ Archive /\ failed \subseteq failed'
             \/ Archives /\ "cp" \in failed'
      BY <1>6, Zenon DEF Wrap, Wrapped, Fails
    <2>2. CASE "cp" \in failed'
      <3>1. Archives /\ failed' \cap {"write", "cp"} = {} => \A m : Held(m) => Held(m)'
        BY <2>2, Zenon
      <3> QED BY <1>2, <1>4, <1>5, <2>2, <3>1, KeepsHeld, Zenon
    <2>3. CASE "cp" \notin failed' /\ ~Archives
      <3>1. UNCHANGED <<archive, archive_sequence_count>>
        BY <2>1, <2>3, Zenon DEF Archive
      <3>2. "cp" \notin failed' => archive_sequence_count' <= Len(archive')
        BY <1>4, <3>1, Zenon DEF Archived
      <3> QED BY <1>2, <1>4, <1>5, <2>3, <3>2, KeepsHeld, Zenon
    <2>4. CASE "cp" \notin failed' /\ Archives
      <3> PICK d, ids, n : d = file'["msg"].data /\ ids = Ids(d) /\ n = archive_sequence_count
        BY Zenon
      <3>1. archive' = Numbered(n, ids) /\ archive_sequence_count' = n + 1 /\ n \in Nat
        BY <1>3, <2>1, <2>4, Zenon DEF Archive
      <3>2. d \in Seq(Nat) /\ ids \in SUBSET Nat
        <4>1. d \in Seq(Nat)
          BY <1>3, <1>4, Zenon
        <4> QED BY <4>1 DEF Ids
      <3>3. n <= Len(archive) /\ Len(archive) \in Nat
        <4>1. n <= Len(archive)
          BY <1>4, <2>4, Zenon DEF Archived
        <4> QED BY <1>3, <4>1, LenProperties, Zenon
      <3>4. /\ Len(archive') >= n + 1 /\ archive'[n + 1] = ids
            /\ \A i \in 1 .. n : i <= Len(archive) => archive'[i] = archive[i]
        <4>1. /\ Len(Numbered(n, ids)) >= n + 1 /\ Numbered(n, ids)[n + 1] = ids
              /\ \A i \in 1 .. n : i <= Len(archive) => Numbered(n, ids)[i] = archive[i]
          BY <1>3, <3>1, <3>2, NumberedArchive, Zenon
        <4> QED BY <3>1, <4>1, Zenon
      <3>5. archive_sequence_count' <= Len(archive')
        <4>1. archive' \in Seq(SUBSET Nat)
          BY <1>1, Zenon DEF WrapEffect
        <4>2. Len(archive') \in Nat
          BY <4>1, LenProperties, Zenon
        <4> QED BY <3>1, <3>4, <4>2, Zenon
      <3>6. ASSUME NEW i \in DOMAIN file["msg"].data, i <= fd["msg"]
            PROVE  file["msg"].data[i] \in ids
        <4>1. CASE l = "msg"
          <5> PICK data, p : data = file["msg"].data /\ p = fd["msg"]
            BY Zenon
          <5>1. IsPrefixOf(d, data, p) /\ data \in Seq(Nat) /\ p \in Nat
            BY <1>3, <1>4, <4>1, Zenon
          <5>2. DOMAIN data = 1 .. Len(data) /\ DOMAIN d = 1 .. Len(d) /\ Len(d) \in Nat /\ Len(data) \in Nat
            BY <3>2, <5>1, LenProperties, Zenon
          <5>3. i \in 1 .. Len(d)
            BY <3>6, <5>1, <5>2 DEF IsPrefixOf
          <5>4. i \in DOMAIN d /\ d[i] = data[i]
            BY <5>1, <5>2, <5>3, Zenon DEF IsPrefixOf
          <5> QED BY <5>4, Zenon DEF Ids
        <4>2. CASE l # "msg"
          <5>1. d = file["msg"].data
            BY <1>3, <1>4, <4>2, Zenon
          <5> QED BY <5>1, Zenon DEF Ids
        <4> QED BY <4>1, <4>2, Zenon
      <3>7. /\ n + 1 \in 1 .. n + 1 /\ \A i \in 1 .. n : i \in 1 .. n + 1 /\ i <= Len(archive)
        BY <3>1, <3>3
      <3>8. ASSUME NEW m, Held(m) PROVE Held(m)'
        <4>1. CASE \E i \in DOMAIN file["msg"].data : i <= fd["msg"] /\ file["msg"].data[i] = m
          <5>1. m \in archive'[n + 1]
            BY <3>4, <3>6, <4>1, Zenon
          <5> QED BY <3>1, <3>7, <5>1, Zenon DEF Held
        <4>2. CASE \E i \in 1 .. n : m \in archive[i]
          BY <3>1, <3>4, <3>7, <4>2, Zenon DEF Held
        <4> QED BY <3>8, <4>1, <4>2, Zenon DEF Held
      <3> QED BY <1>2, <1>4, <1>5, <3>5, <3>8, KeepsHeld, Zenon
    <2> QED BY <2>2, <2>3, <2>4, Zenon
  <1>7. CASE ~(Met(l) /\ l \in Wraps /\ Wrap(l))
    <2>1. /\ UNCHANGED <<file, archive, archive_sequence_count, failed>>
          /\ fd' = IF Met(l) /\ l \in SaveLogs THEN [fd EXCEPT ![l] = Closed] ELSE fd
      BY <1>7, Zenon DEF check_wrap
    <2>2. fd'["msg"] = fd["msg"]
      <3>1. CASE l = "msg"
        BY <1>3, <2>1, <3>1, Zenon
      <3>2. CASE l # "msg"
        BY <1>3, <1>4, <3>2, Zenon
      <3> QED BY <3>1, <3>2, Zenon
    <2>3. \A m : Held(m) => Held(m)'
      BY <2>1, <2>2, Zenon DEF Held
    <2>4. "cp" \notin failed' => archive_sequence_count' <= Len(archive')
      BY <2>1, Zenon DEF Archived
    <2> QED BY <1>2, <1>4, <1>5, <2>3, <2>4, KeepsHeld, Zenon
  <1> QED BY <1>6, <1>7, Zenon

(* update_ckpt and the passing of time touch neither the message log nor    *)
(* the archives.                                                            *)
LEMMA OtherArchived ==
    ASSUME LogInv, Archived, update_ckpt \/ Tick PROVE Archived'
  <1>1. /\ UNCHANGED <<file, archive, fd, archive_sequence_count, next, first>>
        /\ failed \subseteq failed' /\ Running
    BY Zenon DEF update_ckpt, Tick, files, local, history, Fails, Running
  <1>2. pc' # "start" /\ Stored' = Stored
    <2>1. CASE update_ckpt
      <3>1. /\ pc = "ckpt" /\ pc' = NextLog /\ todo' = Tail(todo) /\ UNCHANGED <<msg, next, fd>>
        BY <2>1, Zenon DEF update_ckpt
      <3>2. Copying
        BY <3>1, Zenon DEF Copying
      <3>3. pc' \in {"copy", "idle", "end"} /\ (pc' = "copy" => Head(todo') # "msg")
        BY <3>1, <3>2, CopyTail, Zenon
      <3>4. pc # "copy" /\ pc' # "start"
        <4>1. "ckpt" # "copy" /\ "start" \notin {"copy", "idle", "end"}
          BY Zenon
        <4> QED BY <3>1, <3>3, <4>1, Zenon
      <3> QED BY <3>1, <3>3, <3>4, Zenon DEF Stored
    <2>2. CASE Tick
      BY <2>2, Zenon DEF Tick, Stored
    <2> QED BY <2>1, <2>2, Zenon
  <1>3. \A m : Held(m) => Held(m)'
    BY <1>1, Zenon DEF Held
  <1>4. "cp" \notin failed' => archive_sequence_count' <= Len(archive')
    BY <1>1, Zenon DEF Archived
  <1> QED BY <1>1, <1>2, <1>3, <1>4, KeepsHeld, Zenon

(* With archiving, every message of this hxsmsg is in the message log or in *)
(* one of its archives: check_wrap.                                         *)
THEOREM ArchivesKeepMessages == Spec => []ArchiveComplete
  <1>1. Init => Archived
    BY DEF Init, Archived, Running
  <1>2. LogInv /\ Archived /\ [Next]_vars => Archived'
    <2> SUFFICES ASSUME LogInv, Archived, [Next]_vars PROVE Archived'
      BY Zenon
    <2>1. CASE UNCHANGED vars
      <3>1. UNCHANGED <<file, archive, pc, todo, fd, archive_sequence_count, next, first, failed>>
        BY <2>1, Zenon DEF vars, files, local, history
      <3> QED BY <3>1, Zenon DEF Archived, Held, Stored, Running
    <2>2. CASE Start \/ OpenLogs \/ clean_up \/ Crash
      BY <2>2, StartArchived, Zenon
    <2>3. CASE copy_message \/ write_fails \/ write_log
      BY <2>3, CopyMessageArchived, WriteFailsArchived, WriteLogArchived, Zenon
    <2>4. CASE check_wrap \/ update_ckpt \/ Tick
      BY <2>4, CheckWrapArchived, OtherArchived, Zenon
    <2> QED BY <2>1, <2>2, <2>3, <2>4, Zenon DEF Next
  <1>3. LogInv /\ Archived => ArchiveComplete
    <2> SUFFICES ASSUME LogInv, Archived, Archives, pc = "idle", failed \cap {"write", "cp"} = {},
                        NEW m \in first .. next - 1
                 PROVE  m \in Ids(file["msg"].data) \cup UNION {archive[i] : i \in 1 .. archive_sequence_count}
      BY Zenon DEF ArchiveComplete
    <2>1. Stored = next - 1 /\ Running
      BY Zenon DEF Stored, Running
    <2>2. Held(m)
      BY <2>1, Zenon DEF Archived
    <2> QED BY <2>2, Zenon DEF Held, Ids
  <1> QED BY <1>1, <1>2, <1>3, LogsKeepOrder, PTL DEF Spec
=============================================================================
