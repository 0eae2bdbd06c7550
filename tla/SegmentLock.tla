----------------------------- MODULE SegmentLock -----------------------------
(***************************************************************************)
(* The segment lock of hxestorage, the disk exerciser.  Before a thread    *)
(* does I/O on the blocks flba..llba it locks them with seg_lock.  The     *)
(* blocks of the disk are divided among segment tables, each with its own  *)
(* mutex and condition variable; seg_lock enters the range in every table  *)
(* it touches, in ascending order, and sleeps while a table holds a range  *)
(* that overlaps.  seg_unlock removes the entries in the same order and    *)
(* wakes the sleepers of each table.                                       *)
(*                                                                         *)
(* All accesses to a table are made under its segment_mutex, so that what  *)
(* a thread does in one table is one step.  What the code leaves in place  *)
(* and never reads again (the range of an entry that is not in use, the    *)
(* range and the slots of a thread outside the lock) is cleared.           *)
(***************************************************************************)
EXTENDS Integers, FiniteSets

CONSTANTS
    Threads,       \* the I/O threads
    maxblk,        \* the last block of the device
    NumTables,     \* num_of_seg_tables
    IntMod,        \* the number of values of an int, 2^32
    MaxEntries,    \* MAX_THREADS + MAX_BWRC_THREADS
    Writers,       \* the threads whose rule asks for more writes than reads
    MaxBroken,     \* bound: how many of their additional writes may fail
    NoSlot

ASSUME SegmentAssumption ==
    /\ maxblk \in Nat
    /\ NumTables \in Nat \ {0}
    /\ IntMod \in Nat \ {0, 1}
    /\ MaxEntries \in Nat \ {0}
    /\ Writers \subseteq Threads
    /\ MaxBroken \in Nat
    /\ NoSlot \notin Nat

Lba == 0 .. maxblk
Tables == 0 .. NumTables - 1
Slots == 0 .. MaxEntries - 1

VARIABLES
    pc,                 \* where each thread is
    flba, llba,         \* the range each thread locks
    at,                 \* the table it is at
    mine,               \* seg_table_num and seg_table_index: its slot in each table
    seg_table,          \* seg_table_data of each table
    seg_table_entries,  \* the number of slots used so far in each table
    broken              \* how many writes of the nwrites_left loop have failed

vars == <<pc, flba, llba, at, mine, seg_table, seg_table_entries, broken>>
-----------------------------------------------------------------------------
(* segment_table_init: the limits of the tables.  The sizes and the running *)
(* sum are ints, the limits unsigned long longs.                            *)
ToInt(x) == LET m == x % IntMod IN IF 2 * m < IntMod THEN m ELSE m - IntMod

ToUnsigned(x) == IF x < 0 THEN x + IntMod * IntMod ELSE x

seg_table_size(i) ==
    ToInt((maxblk + 1) \div NumTables + (IF i < (maxblk + 1) % NumTables THEN 1 ELSE 0))

prev(i) ==
    LET rest == (maxblk + 1) % NumTables
    IN  ToInt(i * ((maxblk + 1) \div NumTables) + (IF i < rest THEN i ELSE rest))

LBA_lower_limit(i) == ToUnsigned(prev(i))

LBA_upper_limit(i) == ToUnsigned(ToInt(prev(i) + seg_table_size(i) - 1))

(* The device is small enough for the ints of segment_table_init.           *)
FitsInt == 2 * (maxblk + 1) < IntMod

(* The loop of seg_lock looks at table i for a range that begins at f, and  *)
(* it ends there when the range does.                                       *)
Looks(f, i) ==
    \/ f >= LBA_lower_limit(i) /\ f <= LBA_upper_limit(i)
    \/ f < LBA_lower_limit(i)

Ends(l, i) == l <= LBA_upper_limit(i)

(* The tables seg_lock enters.  seg_table_num has room for three and an end *)
(* mark; longer ranges overrun it and are left out.                         *)
Touched(f, l) == {i \in Tables : Looks(f, i) /\ \A j \in Tables : j < i /\ Looks(f, j) => ~Ends(l, j)}

Overlap(e, f, l) ==
    \/ e.flba < f /\ e.llba >= f
    \/ e.flba > f /\ e.flba <= l
    \/ e.flba = f
-----------------------------------------------------------------------------
(* exit(1) ends all threads.                                                *)
Running == \A u \in Threads : pc[u] # "exit"

Empty == [in_use |-> FALSE, flba |-> 0, llba |-> 0, tid |-> NoSlot]

Init ==
    /\ pc = [t \in Threads |-> "out"]
    /\ flba = [t \in Threads |-> 0]
    /\ llba = [t \in Threads |-> 0]
    /\ at = [t \in Threads |-> 0]
    /\ mine = [t \in Threads |-> [i \in Tables |-> NoSlot]]
    /\ seg_table = [i \in Tables |-> [j \in Slots |-> Empty]]
    /\ seg_table_entries = [i \in Tables |-> 0]
    /\ broken = 0

(* seg_lock is called: the arrays of the thread context are cleared.        *)
seg_lock(t, f, l) ==
    /\ pc[t] = "out" /\ Running
    /\ Cardinality(Touched(f, l)) < 4
    /\ pc' = [pc EXCEPT ![t] = "lock"]
    /\ flba' = [flba EXCEPT ![t] = f]
    /\ llba' = [llba EXCEPT ![t] = l]
    /\ at' = [at EXCEPT ![t] = 0]
    /\ mine' = [mine EXCEPT ![t] = [i \in Tables |-> NoSlot]]
    /\ UNCHANGED <<seg_table, seg_table_entries, broken>>

(* The loop of seg_lock goes on, or it ends, with the table of llba or the  *)
(* last one.                                                                *)
Advance(t, ends) ==
    IF ends \/ at[t] + 1 = NumTables
    THEN pc' = [pc EXCEPT ![t] = "io"] /\ at' = [at EXCEPT ![t] = 0]
    ELSE at' = [at EXCEPT ![t] = @ + 1] /\ UNCHANGED pc

(* Mutant: the loop continues with the same table.                          *)
Skip_stays(t) ==
    /\ pc[t] = "lock" /\ ~Looks(flba[t], at[t])
    /\ UNCHANGED vars

(* seg_lock passes over a table that lies below the range.                  *)
Skip(t) ==
    /\ pc[t] = "lock" /\ ~Looks(flba[t], at[t])
    /\ Advance(t, FALSE)
    /\ UNCHANGED <<flba, llba, mine, seg_table, seg_table_entries, broken>>

(* Mutant: only the entries with another first block are compared.          *)
match_found_inside(t) ==
    \E j \in Slots :
        /\ j < seg_table_entries[at[t]]
        /\ seg_table[at[t]][j].in_use
        /\ seg_table[at[t]][j].flba <= flba[t] /\ seg_table[at[t]][j].llba >= flba[t]

(* The scan of the table finds an entry that overlaps.                      *)
match_found(t) ==
    \E j \in Slots :
        /\ j < seg_table_entries[at[t]]
        /\ seg_table[at[t]][j].in_use
        /\ Overlap(seg_table[at[t]][j], flba[t], llba[t])

(* The range overlaps one already locked: pthread_cond_wait.                *)
Wait(t) ==
    /\ pc[t] = "lock" /\ Looks(flba[t], at[t]) /\ match_found(t)
    /\ pc' = [pc EXCEPT ![t] = "asleep"]
    /\ UNCHANGED <<flba, llba, at, mine, seg_table, seg_table_entries, broken>>

(* Mutant: a slot is never used again.                                      *)
Unused_append(i, j) == j = seg_table_entries[i]

(* The first unused slot is j, a new one if those used so far are in use.   *)
Unused(i, j) ==
    /\ j <= seg_table_entries[i]
    /\ ~seg_table[i][j].in_use
    /\ \A k \in Slots : k < j => seg_table[i][k].in_use

(* Mutant: the number of entries grows with every range.                    *)
Enter_counting(t, j) ==
    LET i == at[t]
    IN  /\ seg_table' = [seg_table EXCEPT ![i] = [@ EXCEPT ![j] =
               [in_use |-> TRUE, flba |-> flba[t], llba |-> llba[t], tid |-> t]]]
        /\ seg_table_entries' = [seg_table_entries EXCEPT ![i] = @ + 1]
        /\ mine' = [mine EXCEPT ![t] = [@ EXCEPT ![i] = j]]
        /\ Advance(t, Ends(llba[t], i))

(* The range is entered in slot j; the loop ends with the table of llba.    *)
Enter(t, j) ==
    LET i == at[t]
    IN  /\ seg_table' = [seg_table EXCEPT ![i] = [@ EXCEPT ![j] =
               [in_use |-> TRUE, flba |-> flba[t], llba |-> llba[t], tid |-> t]]]
        /\ seg_table_entries' = [seg_table_entries EXCEPT ![i] = IF j = @ THEN @ + 1 ELSE @]
        /\ mine' = [mine EXCEPT ![t] = [@ EXCEPT ![i] = j]]
        /\ Advance(t, Ends(llba[t], i))

(* No overlap: the range is entered.  When every slot is in use the program *)
(* exits.                                                                   *)
Take(t) ==
    /\ pc[t] = "lock" /\ Looks(flba[t], at[t]) /\ ~match_found(t)
    /\ IF \E j \in Slots : Unused(at[t], j)
       THEN \E j \in Slots : Unused(at[t], j) /\ Enter(t, j)
       ELSE pc' = [pc EXCEPT ![t] = "exit"] /\ UNCHANGED <<at, mine, seg_table, seg_table_entries>>
    /\ UNCHANGED <<flba, llba, broken>>

(* The operations return, with or without an error: seg_unlock is called.   *)
Done(t) ==
    /\ pc[t] = "io"
    /\ pc' = [pc EXCEPT ![t] = "unlock"]
    /\ UNCHANGED <<flba, llba, at, mine, seg_table, seg_table_entries, broken>>

(* A write of the nwrites_left loop fails: the loop is left before          *)
(* seg_unlock, and the thread goes on to its next operation.                *)
BreakOff(t) ==
    /\ pc[t] = "io" /\ t \in Writers /\ Running
    /\ broken < MaxBroken
    /\ pc' = [pc EXCEPT ![t] = "out"]
    /\ flba' = [flba EXCEPT ![t] = 0]
    /\ llba' = [llba EXCEPT ![t] = 0]
    /\ at' = [at EXCEPT ![t] = 0]
    /\ mine' = [mine EXCEPT ![t] = [i \in Tables |-> NoSlot]]
    /\ broken' = broken + 1
    /\ UNCHANGED <<seg_table, seg_table_entries>>

(* seg_unlock goes from table to table; after the last one it returns.      *)
Pass(t) ==
    /\ pc[t] = "unlock" /\ at[t] \in Tables /\ mine[t][at[t]] = NoSlot
    /\ at' = [at EXCEPT ![t] = @ + 1]
    /\ UNCHANGED <<pc, flba, llba, mine, seg_table, seg_table_entries, broken>>

Found(t) ==
    LET e == seg_table[at[t]][mine[t][at[t]]]
    IN  e.in_use /\ e.flba = flba[t] /\ e.llba = llba[t] /\ e.tid = t

(* Mutant: the sleepers are not woken.                                      *)
Release_silent(t) ==
    LET i == at[t]
    IN  /\ pc[t] = "unlock" /\ i \in Tables /\ mine[t][i] # NoSlot
        /\ seg_table' = [seg_table EXCEPT ![i] = [@ EXCEPT ![mine[t][i]] = Empty]]
        /\ mine' = [mine EXCEPT ![t] = [@ EXCEPT ![i] = NoSlot]]
        /\ at' = [at EXCEPT ![t] = i + 1]
        /\ UNCHANGED <<pc, flba, llba, seg_table_entries, broken>>

(* The entry is marked unused and the sleepers of the table are woken; an   *)
(* entry that is not the thread's makes the program exit.  (The fencepost   *)
(* a BWRC thread moves here is modelled in Storage.)                        *)
Release(t) ==
    LET i == at[t]
    IN  /\ pc[t] = "unlock" /\ i \in Tables /\ mine[t][i] # NoSlot
        /\ IF Found(t)
           THEN /\ seg_table' = [seg_table EXCEPT ![i] = [@ EXCEPT ![mine[t][i]] = Empty]]
                /\ mine' = [mine EXCEPT ![t] = [@ EXCEPT ![i] = NoSlot]]
                /\ pc' = [u \in Threads |-> IF pc[u] = "asleep" /\ at[u] = i THEN "lock" ELSE pc[u]]
                /\ at' = [at EXCEPT ![t] = i + 1]
           ELSE pc' = [pc EXCEPT ![t] = "exit"] /\ UNCHANGED <<at, mine, seg_table>>
        /\ UNCHANGED <<flba, llba, seg_table_entries, broken>>

Unlocked(t) ==
    /\ pc[t] = "unlock" /\ at[t] = NumTables
    /\ pc' = [pc EXCEPT ![t] = "out"]
    /\ flba' = [flba EXCEPT ![t] = 0]
    /\ llba' = [llba EXCEPT ![t] = 0]
    /\ at' = [at EXCEPT ![t] = 0]
    /\ UNCHANGED <<mine, seg_table, seg_table_entries, broken>>

Call(t) == \E f \in Lba, l \in Lba : f <= l /\ seg_lock(t, f, l)

Step(t) ==
    /\ Running
    /\ Skip(t) \/ Wait(t) \/ Take(t) \/ Done(t) \/ Pass(t) \/ Release(t) \/ Unlocked(t)

Next == \E t \in Threads : Call(t) \/ Step(t) \/ BreakOff(t)

Spec == Init /\ [][Next]_vars

(* A thread that is not asleep is scheduled again and again, and an         *)
(* operation on the disk returns.  A thread need not call seg_lock again.   *)
FairSpec == Spec /\ \A t \in Threads : WF_vars(Step(t))
-----------------------------------------------------------------------------
(* Table i is the table of block b.                                         *)
Home(i, b) == LBA_lower_limit(i) <= b /\ b <= LBA_upper_limit(i)

(* Every block has a table, and the tables follow one another.              *)
TablesCover ==
    /\ \A i \in Tables : LBA_lower_limit(i) \in Int /\ LBA_upper_limit(i) \in Int
    /\ \A b \in Lba : \E i \in Tables : Home(i, b)
    /\ \A i, k \in Tables : i < k => LBA_upper_limit(i) < LBA_lower_limit(k)

(* The types; in particular the number of entries in use stays within the   *)
(* table (seg_lock, seg_unlock).                                            *)
TypeOK ==
    /\ pc \in [Threads -> {"out", "lock", "asleep", "io", "unlock", "exit"}]
    /\ flba \in [Threads -> Lba] /\ llba \in [Threads -> Lba]
    /\ at \in [Threads -> 0 .. NumTables]
    /\ mine \in [Threads -> [Tables -> Slots \cup {NoSlot}]]
    /\ seg_table \in [Tables -> [Slots ->
           [in_use : BOOLEAN, flba : Lba, llba : Lba, tid : Threads \cup {NoSlot}]]]
    /\ seg_table_entries \in [Tables -> 0 .. MaxEntries]
    /\ broken \in 0 .. MaxBroken

(* Two threads never do I/O on a common block at the same time, although    *)
(* seg_lock takes the tables of a range one by one.                         *)
Exclusive ==
    \A t, u \in Threads :
        t # u /\ pc[t] = "io" /\ pc[u] = "io" => llba[t] < flba[u] \/ llba[u] < flba[t]

(* The thread u owns an entry of table i that overlaps the range of t, and  *)
(* it is awake or sleeps at a later table.                                  *)
HoldsUp(u, t, i) ==
    /\ mine[u][i] # NoSlot
    /\ Overlap(seg_table[i][mine[u][i]], flba[t], llba[t])
    /\ pc[u] # "asleep" \/ at[u] > i

(* "We are guaranteed to get a wakeup since the fact that another segment   *)
(* is locked means at least one one other thread is running": no thread     *)
(* sleeps in seg_lock without a thread that is going to wake it.            *)
AlwaysWoken ==
    \A t \in Threads : pc[t] = "asleep" => \E u \in Threads \ {t} : HoldsUp(u, t, at[t])

(* That holds as long as no write of the nwrites_left loop has failed.      *)
WakeupGuaranteed == broken = 0 /\ Running => AlwaysWoken

(* seg_unlock always finds the entry it removes, and the tables do not      *)
(* fill up: neither function takes its way out of the program.              *)
NeverExits == Cardinality(Threads) + MaxBroken <= MaxEntries => Running

(* Some thread obtains its segment whenever threads try to (as long as no   *)
(* write of the nwrites_left loop has failed).                              *)
SomeoneLocks ==
    (\E t \in Threads : pc[t] \in {"lock", "asleep"}) ~> (broken > 0 \/ \E t \in Threads : pc[t] = "io")

(* The blocks a thread has locked: a call of seg_lock takes effect when it  *)
(* returns, one of seg_unlock when it begins.                               *)
held == [t \in Threads |-> IF pc[t] = "io" THEN flba[t] .. llba[t] ELSE {}]

Abstract == INSTANCE RangeLock WITH Blocks <- Lba

(* The segment lock implements the lock on sets of blocks: no two threads   *)
(* are between seg_lock and seg_unlock with a block in common.              *)
IsRangeLock == Abstract!Spec
-----------------------------------------------------------------------------
(* The inductive invariant.  A slot a thread has noted is in use and holds  *)
(* the thread's range.                                                      *)
Owned ==
    \A t \in Threads, i \in Tables :
        mine[t][i] # NoSlot =>
            seg_table[i][mine[t][i]] = [in_use |-> TRUE, flba |-> flba[t], llba |-> llba[t], tid |-> t]

(* The ranges in use of a table do not overlap.                             *)
Apart ==
    \A i \in Tables, j, k \in Slots :
        j # k /\ seg_table[i][j].in_use /\ seg_table[i][k].in_use =>
            \/ seg_table[i][j].llba < seg_table[i][k].flba
            \/ seg_table[i][k].llba < seg_table[i][j].flba

(* Ranges are not empty; slots that were never used are not in use.         *)
Sound ==
    /\ \A t \in Threads : flba[t] <= llba[t]
    /\ \A i \in Tables, j \in Slots :
          /\ seg_table[i][j].flba <= seg_table[i][j].llba
          /\ seg_table[i][j].in_use => j < seg_table_entries[i]

(* The thread has noted a slot in table i if its range has a block there.   *)
Entered(t, i) == \A b \in flba[t] .. llba[t] : Home(i, b) => mine[t][i] # NoSlot

(* What a thread has noted, by where it is.                                 *)
Noted(t) ==
    /\ pc[t] = "out" => \A i \in Tables : mine[t][i] = NoSlot
    /\ pc[t] \in {"lock", "asleep"} =>
          /\ at[t] \in Tables
          /\ \A i \in Tables : IF i < at[t] THEN Entered(t, i) ELSE mine[t][i] = NoSlot
    /\ pc[t] = "asleep" => match_found(t)
    /\ pc[t] = "io" => at[t] = 0 /\ \A i \in Tables : Entered(t, i)
    /\ pc[t] = "unlock" => \A i \in Tables : i < at[t] => mine[t][i] = NoSlot

(* Without failed writes every range in use is noted by its thread.         *)
Traced ==
    broken = 0 => \A i \in Tables, j \in Slots :
        seg_table[i][j].in_use => seg_table[i][j].tid \in Threads /\ mine[seg_table[i][j].tid][i] = j

IInv == TypeOK /\ Owned /\ Apart /\ Sound /\ (\A t \in Threads : Noted(t)) /\ Traced

(* The slots of a table that are in use and noted by no thread: each is     *)
(* the trace of a failed write, and a failed write leaves at most one.      *)
Stale(i) == {j \in Slots : seg_table[i][j].in_use /\ \A t \in Threads : mine[t][i] # j}

StaleBounded == \A i \in Tables : Cardinality(Stale(i)) <= broken
=============================================================================
