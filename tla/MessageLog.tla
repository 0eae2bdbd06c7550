----------------------------- MODULE MessageLog -----------------------------
(***************************************************************************)
(* The log files of the message daemon hxsmsg.  Every message goes to the  *)
(* message log and an error also to the error log; both wrap at a size     *)
(* threshold.  The first part of each is also kept in a save log, which is *)
(* closed at its threshold.  When HTX was auto-started, a checkpoint file  *)
(* with the offset and the modification time of every log is written after *)
(* every write, and the next hxsmsg continues the logs from it.            *)
(*                                                                         *)
(* A file is the sequence of its bytes, a byte is the number of the        *)
(* message it belongs to.  hxsmsg may be killed between any two changes of *)
(* the files.                                                              *)
(***************************************************************************)
EXTENDS Integers, Sequences, FiniteSets

CONSTANTS
    Profiles,    \* the thresholds of the logs hxsmsg may be started with
    Lengths,     \* the lengths of messages
    Errors,      \* whether messages are errors
    UBSIZE,      \* the bytes of a block
    Wraps,       \* the logs that wrap
    Archives,    \* whether the message log is archived when a log wraps
    Failures,    \* the calls that may fail
    MaxMsgs, MaxTime,  \* bounds: messages, seconds
    MaxFailed          \* bound: the kinds of calls that fail in a behaviour

Logs == {"msg", "msg_save", "err", "err_save"}
SaveLogs == {"msg_save", "err_save"}

ASSUME LogAssumption ==
    /\ Profiles \subseteq [Logs -> Nat] /\ Profiles # {}
    /\ Lengths \subseteq Nat \ {0} /\ Errors \subseteq BOOLEAN
    /\ UBSIZE \in Nat \ {0}
    /\ Wraps \subseteq Logs \ SaveLogs
    /\ Archives \in BOOLEAN
    /\ Failures \subseteq {"write", "short", "trunc", "cp", "ckpt"}
    /\ MaxMsgs \in Nat /\ MaxTime \in Nat /\ MaxFailed \in Nat

VARIABLES
    file,      \* the log files
    disk,      \* the checkpoint file
    archive,   \* the archived message logs htxmsg.0, htxmsg.1 ...
    clock,     \* the time in seconds
    pc,        \* where hxsmsg is
    thres,     \* the thresholds in blocks
    todo,      \* what is left of open_logs or of copy_message
    fd,        \* the position in each log, Closed if it is not open
    ckpt_file, \* whether the checkpoint file is open
    checkpt,   \* the checkpoint structure
    msg,       \* the message being copied
    file_offset,            \* the local variable of write_log
    archive_sequence_count, \* the static variable of check_wrap
    next,      \* the number of the next message
    first,     \* history: the first message of this hxsmsg
    failed,    \* history: the calls that have failed
    left       \* history: the positions before and after the last write

files == <<file, disk, archive>>
local == <<thres, fd, ckpt_file, checkpt, archive_sequence_count>>
history == <<first, failed, left>>
vars == <<files, clock, pc, todo, local, msg, file_offset, next, history>>

Closed == -1
Missing == [there |-> FALSE, data |-> <<>>, mtime |-> 0]
Zero(t) == [thres |-> t, offset |-> [l \in Logs |-> 0],
            mod_time |-> [l \in Logs |-> 0]]
NoMsg == [id |-> 0, len |-> 0, error |-> FALSE, final |-> FALSE]

(* What can be read from the checkpoint file: nothing, fewer bytes than a   *)
(* structure, a structure with a wrong checksum, or a structure.            *)
Unusable(kind) == [kind |-> kind, ckpt |-> Zero(CHOOSE t \in Profiles : TRUE)]
Usable(c) == [kind |-> "good", ckpt |-> c]

Init ==
    /\ file = [l \in Logs |-> Missing]
    /\ disk = Unusable("empty") /\ archive = <<>>
    /\ clock = 1
    /\ pc = "down" /\ todo = <<>>
    /\ thres \in Profiles
    /\ fd = [l \in Logs |-> Closed] /\ ckpt_file = FALSE
    /\ checkpt = Zero(thres)
    /\ msg = NoMsg /\ file_offset = 0
    /\ archive_sequence_count = 0
    /\ next = 1
    /\ first = 1 /\ failed = {} /\ left = [l \in Logs |-> <<0, 0>>]

(***************************************************************************)
(* Start up: main, open_logs, check_logs, set_file_offsets.  `todo' lists  *)
(* the calls that are left, in the order of the code.  A call that fails   *)
(* ends hxsmsg, as does Crash.                                             *)
(***************************************************************************)
Each(op, ls) == [i \in DOMAIN ls |-> <<op, ls[i]>>]
Order == <<"err", "msg", "err_save", "msg_save">>

check_logs(t) ==
    LET Kept(l) == IF t[l] > 0 THEN <<<<"time", l>>>> ELSE <<>>
        Unkept(l) == IF t[l] = 0 THEN <<<<"rm", l>>>> ELSE <<>>
    IN  <<<<"ckpt", "none">>>> \o <<<<"time", "err">>>> \o Kept("err_save")
          \o <<<<"time", "msg">>>> \o Kept("msg_save")
          \o Unkept("err_save") \o Unkept("msg_save")

open_logs(auto, t) ==
    IF auto
    THEN check_logs(t) \o <<<<"open", "none">>>>
    ELSE <<<<"rmckpt", "none">>>> \o Each("rm", Order) \o <<<<"open", "none">>>>

(* htxd loads hxsmsg while no hxsmsg pid is known; child_death sleeps a     *)
(* second before it clears the pid of the one that ended.                   *)
Start ==
    /\ pc = "down" /\ clock < MaxTime
    /\ clock' = clock + 1
    /\ \E auto \in BOOLEAN, t \in Profiles :
         /\ thres' = t
         /\ todo' = open_logs(auto, t)
         /\ checkpt' = Zero(t)
    /\ pc' = "start"
    /\ first' = next
    /\ UNCHANGED <<files, fd, ckpt_file, archive_sequence_count, msg,
                   file_offset, next, failed, left>>

Starting(op, l) == pc = "start" /\ todo # <<>> /\ Head(todo) = <<op, l>>

RemoveLog(l) ==
    /\ file' = [file EXCEPT ![l] = Missing]
    /\ left' = [left EXCEPT ![l] = <<0, 0>>]

rm_file(l) ==
    /\ Starting("rm", l)
    /\ RemoveLog(l)
    /\ todo' = Tail(todo)
    /\ UNCHANGED <<disk, archive, clock, pc, local, msg, file_offset, next,
                   first, failed>>

rm_ckpt ==
    /\ Starting("rmckpt", "none")
    /\ disk' = Unusable("empty")
    /\ todo' = Tail(todo)
    /\ UNCHANGED <<file, archive, clock, pc, local, msg, file_offset, next,
                   history>>

(* The new structure is written where the read ended: only behind nothing   *)
(* does it become the contents of the file, which is cut to its size.       *)
Initialised(d) ==
    CASE d.kind = "empty" -> Usable(Zero(thres))
      [] d.kind = "short" -> Unusable("bad")
      [] OTHER -> d

check_ckpt ==
    /\ Starting("ckpt", "none")
    /\ ckpt_file' = TRUE
    /\ IF disk.kind = "good" /\ disk.ckpt.thres = thres
       THEN checkpt' = disk.ckpt /\ todo' = Tail(todo) /\ UNCHANGED disk
       ELSE /\ checkpt' = Zero(thres)
            /\ disk' = Initialised(disk)
            /\ todo' = Each("rm", Order) \o Tail(todo)
    /\ UNCHANGED <<file, archive, clock, pc, thres, fd, archive_sequence_count,
                   msg, file_offset, next, history>>

check_time(l) ==
    /\ Starting("time", l)
    /\ IF file[l].there /\ file[l].mtime = checkpt.mod_time[l]
       THEN UNCHANGED <<checkpt, file, left>>
       ELSE /\ checkpt' = [checkpt EXCEPT !.offset[l] = 0, !.mod_time[l] = 0]
            /\ RemoveLog(l)
    /\ todo' = Tail(todo)
    /\ UNCHANGED <<disk, archive, clock, pc, thres, fd, ckpt_file,
                   archive_sequence_count, msg, file_offset, next, first,
                   failed>>

(* A save log is opened when its threshold, in blocks, is above its offset, *)
(* in bytes.                                                                *)
Opens(l) == l \in SaveLogs => thres[l] > 0 /\ thres[l] > checkpt.offset[l]

open_file(l) ==
    IF Opens(l) /\ ~file[l].there
    THEN [there |-> TRUE, data |-> <<>>, mtime |-> clock]
    ELSE file[l]

set_file_offsets_to_end ==
    /\ Starting("open", "none")
    /\ file' = [l \in Logs |-> open_file(l)]
    /\ fd' = [l \in Logs |-> IF Opens(l) THEN Len(file[l].data) ELSE Closed]
    /\ left' = [l \in Logs |-> IF Opens(l) THEN <<fd'[l], fd'[l]>> ELSE left[l]]
    /\ todo' = <<>>
    /\ pc' = "idle"
    /\ UNCHANGED <<disk, archive, clock, thres, ckpt_file, checkpt,
                   archive_sequence_count, msg, file_offset, next, first,
                   failed>>

(* The logs are opened and, in an auto-start, positioned.  A file that has  *)
(* just been created and a missing one are the same to check_time, so the   *)
(* logs are opened in one step.                                             *)
set_file_offsets ==
    /\ Starting("open", "none")
    /\ file' = [l \in Logs |-> open_file(l)]
    /\ fd' = [l \in Logs |-> IF Opens(l) THEN checkpt.offset[l] ELSE Closed]
    /\ left' = [l \in Logs |-> IF Opens(l) THEN <<fd'[l], fd'[l]>> ELSE left[l]]
    /\ todo' = <<>>
    /\ pc' = "idle"
    /\ UNCHANGED <<disk, archive, clock, thres, ckpt_file, checkpt,
                   archive_sequence_count, msg, file_offset, next, first,
                   failed>>

(***************************************************************************)
(* The main loop: read_message and copy_message, with write_log,           *)
(* check_wrap and update_ckpt for every log that is open.                  *)
(***************************************************************************)
IfOpen(l) == IF fd[l] # Closed THEN <<l>> ELSE <<>>

Written(error) ==
    IfOpen("msg") \o IfOpen("msg_save")
      \o IF error THEN IfOpen("err") \o IfOpen("err_save") ELSE <<>>

copy_message ==
    /\ pc = "idle" /\ next <= MaxMsgs
    /\ \E n \in Lengths, error \in Errors, final \in BOOLEAN :
         /\ msg' = [id |-> next, len |-> n, error |-> error, final |-> final]
         /\ todo' = Written(error)
    /\ next' = next + 1
    /\ pc' = "copy"
    /\ UNCHANGED <<files, clock, local, file_offset, history>>

NextLog == IF Len(todo) > 1 THEN "copy" ELSE IF msg.final THEN "end" ELSE "idle"

(* n bytes of the message are written at offset o.                          *)
Overwrite(data, o, n) ==
    [i \in 1..(IF o + n > Len(data) THEN o + n ELSE Len(data)) |->
        IF i \in (o + 1)..(o + n) THEN msg.id
        ELSE IF i <= Len(data) THEN data[i] ELSE 0]

(* The data of a log is replaced, at the present time.                      *)
SetData(l, data) ==
    file' = [file EXCEPT ![l] = [there |-> TRUE, data |-> data, mtime |-> clock]]

Fails(call) ==
    /\ call \in Failures
    /\ failed' = failed \cup {call}
    /\ Cardinality(failed') <= MaxFailed

write_fails ==
    /\ pc = "copy" /\ Fails("write")
    /\ pc' = NextLog
    /\ todo' = Tail(todo)
    /\ UNCHANGED <<files, clock, local, msg, file_offset, next, first, left>>

write_log ==
    LET l == Head(todo) IN
    /\ pc = "copy"
    /\ \E n \in 1..msg.len :
         /\ IF n < msg.len THEN Fails("short") ELSE UNCHANGED failed
         /\ SetData(l, Overwrite(file[l].data, fd[l], n))
         /\ fd' = [fd EXCEPT ![l] = @ + n]
         /\ left' = [left EXCEPT ![l] = <<fd[l], fd[l] + n>>]
    /\ pc' = "wrap"
    /\ UNCHANGED <<disk, archive, clock, todo, thres, ckpt_file, checkpt,
                   archive_sequence_count, msg, file_offset, next, first>>

Ids(data) == {data[i] : i \in DOMAIN data}

(* cp htxmsg htxmsg.N, over an archive of that number.  The result of cp is *)
(* not looked at.                                                           *)
Numbered(n, ids) ==
    [i \in 1..(IF n < Len(archive) THEN Len(archive) ELSE n + 1) |->
        IF i = n + 1 THEN ids ELSE IF i <= Len(archive) THEN archive[i] ELSE {}]

Met(l) == fd[l] \div UBSIZE >= thres[l]

(* The checkpoint is written if its file is open.                           *)
Checkpoint ==
    IF ckpt_file THEN pc' = "ckpt" /\ UNCHANGED todo
    ELSE pc' = NextLog /\ todo' = Tail(todo)

(* Neither a failed ftruncate nor a failed cp keeps the log from wrapping.  *)
Truncate(l) == SetData(l, SubSeq(file[l].data, 1, fd[l]))

Archive_same_number ==
    IF Archives
    THEN /\ archive' = Numbered(archive_sequence_count, Ids(file'["msg"].data))
         /\ UNCHANGED archive_sequence_count
    ELSE UNCHANGED <<archive, archive_sequence_count>>

Archive ==
    IF Archives
    THEN /\ archive' = Numbered(archive_sequence_count, Ids(file'["msg"].data))
         /\ archive_sequence_count' = archive_sequence_count + 1
    ELSE UNCHANGED <<archive, archive_sequence_count>>

Wrapped(l) ==
    \/ Truncate(l) /\ Archive /\ UNCHANGED failed
    \/ Fails("trunc") /\ UNCHANGED file /\ Archive
    \/ /\ Archives /\ Fails("cp")
       /\ Truncate(l)
       /\ archive_sequence_count' = archive_sequence_count + 1
       /\ UNCHANGED archive

Wrap_keeps_offset(l) ==
    /\ Wrapped(l)
    /\ fd' = [fd EXCEPT ![l] = 0]
    /\ file_offset' = fd[l]
    /\ left' = [left EXCEPT ![l] = <<@[1], 0>>]

Wrap(l) ==
    /\ Wrapped(l)
    /\ fd' = [fd EXCEPT ![l] = 0]
    /\ file_offset' = 0
    /\ left' = [left EXCEPT ![l] = <<@[1], 0>>]

check_wrap ==
    LET l == Head(todo) IN
    /\ pc = "wrap"
    /\ \/ Met(l) /\ l \in Wraps /\ Wrap(l)
       \/ /\ ~(Met(l) /\ l \in Wraps)
          /\ fd' = IF Met(l) /\ l \in SaveLogs THEN [fd EXCEPT ![l] = Closed]
                   ELSE fd
          /\ file_offset' = fd[l]
          /\ UNCHANGED <<file, archive, archive_sequence_count, failed, left>>
    /\ Checkpoint
    /\ UNCHANGED <<disk, clock, thres, ckpt_file, checkpt, msg, next, first>>

update_ckpt ==
    LET l == Head(todo) IN
    /\ pc = "ckpt"
    /\ checkpt' = [checkpt EXCEPT !.offset[l] = file_offset,
                                  !.mod_time[l] = file[l].mtime]
    /\ \/ disk' = Usable(checkpt') /\ UNCHANGED failed
       \/ Fails("ckpt") /\ UNCHANGED disk
    /\ pc' = NextLog
    /\ todo' = Tail(todo)
    /\ UNCHANGED <<file, archive, clock, thres, fd, ckpt_file,
                   archive_sequence_count, msg, file_offset, next, first,
                   left>>

Gone ==
    /\ pc' = "down" /\ todo' = <<>>
    /\ fd' = [l \in Logs |-> Closed] /\ ckpt_file' = FALSE
    /\ checkpt' = Zero(thres) /\ archive_sequence_count' = 0
    /\ msg' = NoMsg /\ file_offset' = 0
    /\ UNCHANGED <<file, archive, clock, thres, next, history>>

clean_up == pc = "end" /\ Gone /\ UNCHANGED disk

(* The end of hxsmsg at any point: a signal, a failed start up, the end of  *)
(* the machine.  A write of the checkpoint may have been torn.              *)
WritesCkpt == pc = "ckpt" \/ Starting("ckpt", "none")

Crash ==
    /\ pc # "down"
    /\ Gone
    /\ \/ UNCHANGED disk
       \/ WritesCkpt /\ disk' = Unusable(IF disk.kind = "empty" THEN "short"
                                        ELSE "bad")

(* A second passes.  The time is read when a file is modified.              *)
Tick ==
    /\ pc \in {"copy", "wrap"} /\ clock < MaxTime
    /\ clock' = clock + 1
    /\ UNCHANGED <<files, pc, todo, local, msg, file_offset, next, history>>

OpenLogs ==
    \/ check_ckpt \/ rm_ckpt \/ set_file_offsets
    \/ \E l \in Logs : rm_file(l) \/ check_time(l)

Next ==
    \/ Start \/ OpenLogs
    \/ copy_message \/ write_fails \/ write_log \/ check_wrap \/ update_ckpt
    \/ clean_up \/ Crash \/ Tick

Spec == Init /\ [][Next]_vars
-----------------------------------------------------------------------------
(* What a log holds before its position is one lap of messages in the order *)
(* of their arrival, whatever crashes and restarts there have been:         *)
(* set_file_offsets never continues a log in the middle of another lap.     *)
LapInOrder ==
    \A l \in Logs :
      "ckpt" \notin failed /\ fd[l] # Closed /\ pc # "start" =>
        /\ fd[l] <= Len(file[l].data)
        /\ \A i \in 2..fd[l] : file[l].data[i - 1] <= file[l].data[i]

(* A restart continues a log that check_time has kept where it was left, or *)
(* one write before: a crash loses no more than the last message of a log   *)
(* that is not removed as a whole.                                          *)
LosesOneMessage ==
    \A l \in Logs :
      "ckpt" \notin failed /\ Starting("open", "none") /\ Opens(l) =>
        checkpt.offset[l] \in {left[l][1], left[l][2]}

(* With archiving, every message of this hxsmsg is in the message log or in *)
(* one of the archives of this hxsmsg: the copy of check_wrap is made       *)
(* before the next lap overwrites the log.                                  *)
ArchiveComplete ==
    Archives /\ pc = "idle" /\ "msg" \in Wraps
             /\ failed \cap {"write", "cp"} = {} =>
      first..(next - 1) \subseteq
        Ids(file["msg"].data)
          \cup UNION {archive[i] : i \in 1..archive_sequence_count}
=============================================================================
