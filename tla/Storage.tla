------------------------------ MODULE Storage ------------------------------
(***************************************************************************)
(* The storage exerciser hxestorage: main walks the stanzas of a rule      *)
(* file, creates the threads of each stanza and waits for those that read; *)
(* the threads of the oper BWRC write and verify a zone of the disk in the *)
(* background and move the fencepost of the zone, and the threads of the   *)
(* oper RC read and compare only what lies behind a fencepost.             *)
(*                                                                         *)
(* seg_lock and seg_unlock are taken as the lock on sets of blocks that    *)
(* SegmentLock is shown to implement.  Threads take thread_create_mutex    *)
(* only for steps that do not block, so it is held across steps by main    *)
(* alone (Holding).                                                        *)
(***************************************************************************)
EXTENDS Integers, Sequences, FiniteSets, FiniteSetsExt

CONSTANTS
  Writers,     \* indices 0 .. total_BWRC_threads - 1 of BWRC_threads_mem
  Readers,     \* contexts of the threads that are not BWRC
  RuleFiles,   \* the rule files the exerciser may be started with
  Lba,         \* the blocks of the disk
  MaxPass,     \* bound on the passes through a rule file
  MaxErr       \* bound on failing calls

Contexts == Writers \cup Readers

(* A rule file: its stanzas, in order, each with its threads and its       *)
(* parameter "skip = -n", and the parameters of every thread.              *)
ThreadRules == [starting_block : {"BOT", "TOP"}, direction : {"UP", "DOWN"},
                seek : {"SEQ", "RANDOM"}, min_blkno : Lba, max_blkno : Lba,
                num_blks : Lba \ {0}, num_oper : Nat]

ASSUME RulesAssumption ==
  /\ Lba \subseteq Nat /\ Lba = 0 .. Max(Lba)
  /\ Writers = 0 .. (Cardinality(Writers) - 1)
  /\ MaxPass \in Nat \ {0} /\ MaxErr \in Nat
  /\ Readers \cap Writers = {}
  /\ \A f \in RuleFiles :
       /\ f.rule \in [Contexts -> ThreadRules]
       /\ f.stanzas \in Seq([threads : Seq(Contexts), skip : Int]) \ {<<>>}

(***************************************************************************)
(* What the thread contexts are filled with.                               *)
(***************************************************************************)
range(s) == {s[i] : i \in 1 .. Len(s)}
is_only_BWRC_stanza(z) == range(z.threads) \subseteq Writers

(* The stanza a BWRC thread belongs to, and its number there.              *)
StanzaOf(f, w) == CHOOSE z \in range(f.stanzas) : w \in range(z.threads)
th_num(z, w) == (CHOOSE i \in 1 .. Len(z.threads) : z.threads[i] = w) - 1

(* A stanza of BWRC threads only is run as "section": every thread gets an *)
(* equal share of the blocks of the rule, the last one the rest as well.   *)
update_blkno(z, r, n) ==
  LET blks == r.max_blkno - r.min_blkno + 1
      k == Len(z.threads)
      per == blks \div k
      lo == n * per
  IN  [lo |-> lo,
       hi |-> lo + per - 1 + IF n = k - 1 THEN blks % k ELSE 0]

BWRC_zone(f, w) ==
  LET z == StanzaOf(f, w)
      r == f.rule[w]
  IN  IF is_only_BWRC_stanza(z) THEN update_blkno(z, r, th_num(z, w))
                                ELSE [lo |-> r.min_blkno, hi |-> r.max_blkno]

(* The zone a reader is confined to: the first one that holds its lower    *)
(* (going up) or upper end (going down), and its blocks cut to that zone.  *)
update_BWRC_zone(f, r) ==
  LET end == IF r.direction = "UP" THEN r.min_blkno ELSE r.max_blkno
      i == Min({w \in Writers : end \in BWRC_zone(f, w).lo .. BWRC_zone(f, w).hi})
      z == BWRC_zone(f, i)
  IN  IF r.direction = "UP"
      THEN [zone |-> i, lo |-> end, hi |-> Min({r.max_blkno, z.hi})]
      ELSE [zone |-> i, lo |-> Max({r.min_blkno, z.lo}), hi |-> end]

set_first_blk(r, lo, hi) ==
  LET blk == IF r.starting_block = "BOT" THEN lo ELSE hi
  IN  IF r.direction = "DOWN" /\ blk + r.num_blks - 1 > hi
      THEN blk - (blk + r.num_blks - hi - 1)
      ELSE blk

(* A mutation: the shortened transfer at the end is not counted.           *)
update_num_oper_whole(r, lo, hi, first) ==
  (IF r.starting_block = "TOP" THEN hi - lo + 1 ELSE hi - first + 1) \div r.num_blks

update_num_oper(r, lo, hi, first) ==
  LET rc == IF r.starting_block = "TOP" THEN hi - lo + 1 ELSE hi - first + 1
  IN  (rc \div r.num_blks) + IF rc % r.num_blks # 0 THEN 1 ELSE 0

(* num_oper is set to 0 in a stanza of BWRC threads only.                  *)
apply_rule_settings(f, c) ==
  LET r == f.rule[c]
      z == IF c \in Readers THEN update_BWRC_zone(f, r)
           ELSE [zone |-> c, lo |-> BWRC_zone(f, c).lo, hi |-> BWRC_zone(f, c).hi]
      first == set_first_blk(r, z.lo, z.hi)
      lap == c \in Writers /\ is_only_BWRC_stanza(StanzaOf(f, c))
  IN  [zone |-> z.zone, min_blkno |-> z.lo, max_blkno |-> z.hi, first_blk |-> first,
       num_oper |-> IF lap \/ r.num_oper = 0
                    THEN update_num_oper(r, z.lo, z.hi, first) ELSE r.num_oper]

tctx == [f \in RuleFiles |-> [c \in Contexts |-> apply_rule_settings(f, c)]]

(* A thread has blocks of its own (the code reports a rule that gives it   *)
(* none), and one that goes down has a whole transfer of them.             *)
Fits(f, c) ==
  LET t == tctx[f][c]
  IN  /\ t.min_blkno \in Nat /\ t.max_blkno \in Nat /\ t.min_blkno <= t.max_blkno
      /\ f.rule[c].direction = "DOWN" => f.rule[c].num_blks <= t.max_blkno - t.min_blkno + 1

(* A BWRC thread writes its zone from one end to the other.                *)
InOrder(f, w) ==
  /\ f.rule[w].seek = "SEQ"
  /\ f.rule[w].starting_block = IF f.rule[w].direction = "UP" THEN "BOT" ELSE "TOP"

(* The number of its operations is computed, and is that of one lap.       *)
WholeLap(f, w) == is_only_BWRC_stanza(StanzaOf(f, w)) \/ f.rule[w].num_oper = 0

(* A reader begins in a zone and reads more than the one block that a      *)
(* fencepost holds before its BWRC thread has written anything; at random  *)
(* it reads behind BWRC threads that go up, no more than they write.       *)
Follows(f, c) ==
  /\ tctx[f][c].zone \in Writers
  /\ f.rule[c].seek = "SEQ" => f.rule[c].num_blks > 1
  /\ f.rule[c].seek = "RANDOM" =>
       \A w \in Writers : f.rule[w].direction = "UP" /\ f.rule[c].num_blks <= f.rule[w].num_blks

(* "skip = n" runs a stanza in every n-th pass, "skip = -n" in the first   *)
(* pass and in every n-th; 1 and -1 leave out the even passes.             *)
Skipped(z, pass_no) ==
  \/ z.skip > 0 /\ (pass_no = 1 \/ pass_no % z.skip # 0 \/ (z.skip = 1 /\ pass_no % 2 = 0))
  \/ z.skip < 0 /\ pass_no # 1 /\ (pass_no % (-z.skip) # 0 \/ (z.skip = -1 /\ pass_no % 2 = 0))

(* A thread has one place in its stanza, a BWRC thread one in the file.    *)
Numbered(f) ==
  /\ \A z \in range(f.stanzas) : \A i, k \in 1 .. Len(z.threads) :
       z.threads[i] = z.threads[k] => i = k
  /\ \A i, k \in 1 .. Len(f.stanzas) :
       Writers \cap range(f.stanzas[i].threads) \cap range(f.stanzas[k].threads) # {} => i = k

(* The k-th stanza has a reader that starts when w has moved its           *)
(* fencepost, and the first pass runs it.                                  *)
Awaits(f, k, c, w) ==
  /\ ~Skipped(f.stanzas[k], 1) /\ c \in range(f.stanzas[k].threads)
  /\ f.rule[c].seek = "SEQ" /\ f.rule[c].num_blks > 1 /\ tctx[f][c].zone = w

(* A BWRC thread that the first two passes both start has such a reader in *)
(* its stanza or a later one.                                              *)
Awaited(f) ==
  \A i \in 1 .. Len(f.stanzas) : \A w \in Writers :
    w \in range(f.stanzas[i].threads) /\ ~Skipped(f.stanzas[i], 1) /\ ~Skipped(f.stanzas[i], 2) =>
      \E k \in i .. Len(f.stanzas) : \E c \in Readers : Awaits(f, k, c, w)

VARIABLES
  rules,        \* the rule file
  main,         \* where main is
  stanza,       \* number of the stanza, from 1
  pass,         \* read_rules_file_count
  todo,         \* threads of the stanza main has not created yet
  exit_flag,    \* exit_flag or int_signal_flag is 'Y'
  signal_flag,  \* signal_flag is 'Y'
  th,           \* where the thread of a context is
  ending,       \* how many threads of a context are past their last use of it
  cur,          \* blkno[0], num_blks, do_partial, oper_loop of a context, and
                \* for random_blkno the zone it draws from
  fence,        \* lba_fencepost
  held,         \* the blocks locked by seg_lock
  BWRC_threads_running, non_BWRC_threads_running,
  non_BWRC_mem, BWRC_mem,   \* is the memory of the contexts allocated?
  written,      \* the blocks a BWRC operation has written
  failed,       \* contexts one of whose operations failed
  errs          \* how many calls have failed

mainvars == <<main, stanza, pass, todo, non_BWRC_mem, BWRC_mem>>
flags == <<exit_flag, signal_flag>>
counts == <<BWRC_threads_running, non_BWRC_threads_running>>
disk == <<held, written, failed>>
vars == <<rules, mainvars, flags, th, ending, cur, fence, disk, counts, errs>>

rule(c) == rules.rule[c]
ctx(c) == tctx[rules][c]
Stopping == exit_flag \/ signal_flag
(* The context of a thread that is not running: only num_blks and          *)
(* do_partial of a BWRC context are used again.                            *)
Idle(n, p) == [blkno |-> 0, num_blks |-> n, do_partial |-> p, oper_loop |-> 0, draw |-> 0]
Populated(f, c) == Idle(f.rule[c].num_blks, 0)

initialize_fencepost(f, w) ==
  LET t == tctx[f][w]
      blk == IF f.rule[w].direction = "UP" THEN t.min_blkno ELSE t.max_blkno
  IN  [min_lba |-> blk, max_lba |-> blk, status |-> "F"]

Init ==
  /\ rules \in RuleFiles
  /\ main = "stanza" /\ stanza = 1 /\ pass = 1 /\ todo = <<>>
  /\ exit_flag = FALSE /\ signal_flag = FALSE
  /\ th = [c \in Contexts |-> "none"] /\ ending = [c \in Contexts |-> 0]
  /\ cur = [c \in Contexts |-> Populated(rules, c)]
  /\ fence = [w \in Writers |-> initialize_fencepost(rules, w)]
  /\ held = [c \in Contexts |-> {}]
  /\ BWRC_threads_running = 0 /\ non_BWRC_threads_running = 0
  /\ non_BWRC_mem = FALSE /\ BWRC_mem = TRUE
  /\ written = {} /\ failed = {} /\ errs = 0

(* The exerciser has ended, or has come to where the model ends.           *)
Alive == main \notin {"done", "died", "gaveup", "twice", "reread"}

(* main holds thread_create_mutex from the start of a stanza's creations   *)
(* to its next pthread_cond_wait.                                          *)
Holding == main = "create"

(***************************************************************************)
(* main                                                                    *)
(***************************************************************************)
(* A stanza is skipped, or its readers' contexts are allocated and filled  *)
(* and the mutex is taken for the creation of its threads.                 *)
RunStanza ==
  /\ main = "stanza"
  /\ LET z == rules.stanzas[stanza]
     IN  IF Skipped(z, pass)
         THEN main' = "next" /\ UNCHANGED <<todo, non_BWRC_mem, cur>>
         ELSE /\ main' = "create" /\ todo' = z.threads
              /\ non_BWRC_mem' = ~ is_only_BWRC_stanza(z)
              /\ cur' = [c \in Contexts |-> IF c \in Readers THEN Populated(rules, c)
                                                             ELSE cur[c]]
  /\ UNCHANGED <<rules, ending, stanza, pass, BWRC_mem, flags, th, fence, disk, counts, errs>>

(* The next thread is created and main waits on create_thread_cond_var for *)
(* it; a BWRC thread only if the status of its fencepost is 'F'.  A second *)
(* thread on a context in use leaves the model ("twice").                  *)
CreateThread ==
  /\ main = "create" /\ todo # <<>>
  /\ LET c == Head(todo)
     IN  IF c \in Writers /\ fence[c].status # "F"
         THEN todo' = Tail(todo) /\ UNCHANGED <<main, th>>
         ELSE IF th[c] # "none"
              THEN main' = "twice" /\ UNCHANGED <<todo, th>>
              ELSE main' = "creating" /\ th' = [th EXCEPT ![c] = "born"] /\ UNCHANGED todo
  /\ UNCHANGED <<rules, ending, stanza, pass, non_BWRC_mem, BWRC_mem, flags, cur, fence, disk, counts, errs>>

(* main is woken by the new thread and counts it.                          *)
CountThread ==
  /\ main = "created"
  /\ main' = "create" /\ todo' = Tail(todo)
  /\ IF Head(todo) \in Writers
     THEN BWRC_threads_running' = BWRC_threads_running + 1 /\ UNCHANGED non_BWRC_threads_running
     ELSE non_BWRC_threads_running' = non_BWRC_threads_running + 1 /\ UNCHANGED BWRC_threads_running
  /\ UNCHANGED <<rules, ending, stanza, pass, non_BWRC_mem, BWRC_mem, flags, th, cur, fence, disk, errs>>

(* do_oper_cond_var is broadcast; main waits for the readers unless the    *)
(* stanza has none.                                                        *)
StartThreads ==
  /\ main = "create" /\ todo = <<>>
  /\ th' = [c \in Contexts |-> IF th[c] = "waiting" THEN "ready" ELSE th[c]]
  /\ main' = IF is_only_BWRC_stanza(rules.stanzas[stanza]) THEN "next" ELSE "finishing"
  /\ UNCHANGED <<rules, ending, stanza, pass, todo, non_BWRC_mem, BWRC_mem, flags, cur, fence, disk, counts, errs>>

(* The readers have finished: their contexts are freed.                    *)
FreeContexts ==
  /\ main = "finished"
  /\ main' = "next" /\ non_BWRC_mem' = FALSE
  /\ UNCHANGED <<rules, ending, stanza, pass, todo, BWRC_mem, flags, th, cur, fence, disk, counts, errs>>

(* A flag ends the pass; after the pass signal 30 has the rule file read   *)
(* again, where the model ends, and a regular run starts the next pass     *)
(* unless it is to exit.                                                   *)
NextStanza ==
  /\ main = "next"
  /\ IF stanza < Len(rules.stanzas) /\ ~Stopping
     THEN main' = "stanza" /\ stanza' = stanza + 1 /\ UNCHANGED <<pass, flags>>
     ELSE /\ signal_flag' = FALSE
          /\ stanza' = 1
          /\ IF signal_flag /\ ~exit_flag
             THEN main' = "reread" /\ UNCHANGED <<pass, exit_flag>>
             ELSE IF pass < MaxPass /\ ~exit_flag
                  THEN main' = "stanza" /\ pass' = pass + 1 /\ UNCHANGED exit_flag
                  ELSE main' = "leaving" /\ exit_flag' = TRUE /\ UNCHANGED pass
  /\ UNCHANGED <<rules, ending, todo, non_BWRC_mem, BWRC_mem, th, cur, fence, disk, counts, errs>>

(* main waits a limited time for the BWRC threads and frees the contexts.  *)
(* When some still run it announces that a core may be generated, and the  *)
(* model ends.                                                             *)
Cleanup ==
  /\ main = "leaving" /\ BWRC_threads_running = 0
  /\ main' = "freed" /\ BWRC_mem' = FALSE
  /\ UNCHANGED <<rules, ending, stanza, pass, todo, non_BWRC_mem, flags, th, cur, fence, disk, counts, errs>>

GiveUp ==
  /\ main = "leaving" /\ BWRC_threads_running # 0
  /\ main' = "gaveup" /\ BWRC_mem' = FALSE
  /\ UNCHANGED <<rules, ending, stanza, pass, todo, non_BWRC_mem, flags, th, cur, fence, disk, counts, errs>>

Return ==
  /\ main = "freed"
  /\ main' = "done"
  /\ UNCHANGED <<rules, ending, stanza, pass, todo, non_BWRC_mem, BWRC_mem, flags, th, cur, fence, disk, counts, errs>>

(***************************************************************************)
(* Block numbers of sequential access.  A transfer that would leave the    *)
(* blocks of the thread is shortened (do_partial 1) or, when nothing is    *)
(* left, the thread starts again at its first block (do_partial 2).        *)
(***************************************************************************)
init_blkno(c, t) == [t EXCEPT !.blkno = ctx(c).first_blk]

(* A mutation: only the first block of a transfer is compared.             *)
wrap_first(c, t) ==
  IF rule(c).direction = "UP" THEN t.blkno > ctx(c).max_blkno
                              ELSE t.blkno < ctx(c).min_blkno

wrap(c, t) ==
  IF rule(c).direction = "UP" THEN t.blkno + t.num_blks - 1 > ctx(c).max_blkno
                              ELSE t.blkno < ctx(c).min_blkno

NothingLeft(c, t) ==
  IF rule(c).direction = "UP" THEN t.blkno > ctx(c).max_blkno
                              ELSE t.blkno + t.num_blks - 1 < ctx(c).min_blkno

do_boundary_check(c, t) ==
  IF ~wrap(c, t) THEN t
  ELSE IF NothingLeft(c, t) THEN [init_blkno(c, t) EXCEPT !.do_partial = 0]
  ELSE IF rule(c).direction = "UP"
       THEN [t EXCEPT !.do_partial = 1, !.num_blks = ctx(c).max_blkno - t.blkno + 1]
       ELSE [t EXCEPT !.do_partial = 1, !.num_blks = t.num_blks - (ctx(c).min_blkno - t.blkno),
                      !.blkno = ctx(c).min_blkno]

set_blkno(c, t) ==
  IF t.do_partial = 1
  THEN [init_blkno(c, t) EXCEPT !.do_partial = 0, !.num_blks = rule(c).num_blks]
  ELSE IF rule(c).direction = "UP" THEN [t EXCEPT !.blkno = t.blkno + t.num_blks]
                                   ELSE [t EXCEPT !.blkno = t.blkno - t.num_blks]

(* A mutation: the last block itself does not count.                       *)
Behind_strict(w, b, n) == b >= fence[w].min_lba /\ b + n - 1 < fence[w].max_lba

(* The n blocks from b lie behind the fencepost of w.                      *)
Behind(w, b, n) == b >= fence[w].min_lba /\ b + n - 1 <= fence[w].max_lba

(* A mutation: the check is left out.                                      *)
do_fencepost_check_none(c, t) == t

do_fencepost_check(c, t) ==
  IF Behind(ctx(c).zone, t.blkno, t.num_blks) THEN t ELSE init_blkno(c, t)

(* From the first to the last block, both unsigned: no blocks at block 0   *)
(* are the whole disk.                                                     *)
Segment(t) ==
  IF t.num_blks = 0 /\ t.blkno = 0 THEN Lba ELSE t.blkno .. (t.blkno + t.num_blks - 1)

(***************************************************************************)
(* A thread: execute_thread_context and execute_validation_test            *)
(***************************************************************************)
Goto(c, s) == th' = [th EXCEPT ![c] = s]

(* The thread tells main that it exists and waits for do_oper_cond_var.    *)
Announce(c) ==
  /\ th[c] = "born" /\ ~Holding
  /\ Goto(c, "waiting") /\ main' = "created"
  /\ UNCHANGED <<rules, ending, stanza, pass, todo, non_BWRC_mem, BWRC_mem, flags, cur, fence, disk, counts, errs>>

(* Woken by the broadcast it takes and releases the mutex.                 *)
Proceed(c) ==
  /\ th[c] = "ready" /\ ~Holding
  /\ Goto(c, "open")
  /\ UNCHANGED <<rules, ending, mainvars, flags, cur, fence, disk, counts, errs>>

(* A mutation: the fencepost is not marked as running.                     *)
OpenDisk_unmarked(c) ==
  /\ th[c] = "open"
  /\ Goto(c, IF c \in Readers /\ rule(c).seek = "SEQ" THEN "catchup" ELSE "top")
  /\ cur' = [cur EXCEPT ![c] = IF rule(c).seek = "SEQ" THEN init_blkno(c, @) ELSE @]
  /\ UNCHANGED <<rules, ending, mainvars, flags, fence, disk, counts, errs>>

(* The disk is opened and the first block set; a BWRC thread marks its     *)
(* fencepost as running, a sequential reader goes to wait for one.         *)
OpenDisk(c) ==
  /\ th[c] = "open"
  /\ Goto(c, IF c \in Readers /\ rule(c).seek = "SEQ" THEN "catchup" ELSE "top")
  /\ cur' = [cur EXCEPT ![c] = IF rule(c).seek = "SEQ" THEN init_blkno(c, @) ELSE @]
  /\ fence' = [w \in Writers |-> IF w = c THEN [fence[w] EXCEPT !.status = "R"] ELSE fence[w]]
  /\ UNCHANGED <<rules, ending, mainvars, flags, disk, counts, errs>>

(* The disk cannot be opened, or closed: the exerciser exits.              *)
OpenFails(c) ==
  /\ th[c] \in {"open", "close"} /\ errs < MaxErr
  /\ main' = "died" /\ errs' = errs + 1
  /\ UNCHANGED <<rules, ending, stanza, pass, todo, non_BWRC_mem, BWRC_mem, flags, th, cur, fence, disk, counts>>

(* The pattern cannot be read: the thread ends without having run.         *)
PatternFails(c) ==
  /\ th[c] = "open" /\ errs < MaxErr
  /\ Goto(c, "close") /\ errs' = errs + 1 /\ failed' = failed \cup {c}
  /\ UNCHANGED <<rules, ending, mainvars, flags, cur, fence, held, written, counts>>

(* A mutation: the wait does not look at exit_flag.                        *)
wait_for_fencepost_catchup_deaf(c) ==
  /\ th[c] = "catchup"
  /\ Behind(ctx(c).zone, ctx(c).first_blk, cur[c].num_blks)
  /\ Goto(c, "top")
  /\ UNCHANGED <<rules, ending, mainvars, flags, cur, fence, disk, counts, errs>>

wait_for_fencepost_catchup(c) ==
  /\ th[c] = "catchup"
  /\ exit_flag \/ Behind(ctx(c).zone, ctx(c).first_blk, cur[c].num_blks)
  /\ Goto(c, "top")
  /\ UNCHANGED <<rules, ending, mainvars, flags, cur, fence, disk, counts, errs>>

(* One turn of the loop over oper_loop, up to seg_lock.                    *)
Leave(c) ==
  /\ th[c] = "top" /\ (Stopping \/ cur[c].oper_loop >= ctx(c).num_oper)
  /\ Goto(c, "close")
  /\ UNCHANGED <<rules, ending, mainvars, flags, cur, fence, disk, counts, errs>>

NextBlocks(c) ==
  /\ th[c] = "top" /\ ~Stopping /\ cur[c].oper_loop < ctx(c).num_oper
  /\ IF rule(c).seek = "RANDOM"
     THEN Goto(c, "draw") /\ UNCHANGED cur
     ELSE /\ Goto(c, "lock")
          /\ LET t == do_boundary_check(c, cur[c])
             IN  cur' = [cur EXCEPT ![c] = IF c \in Readers THEN do_fencepost_check(c, t) ELSE t]
  /\ UNCHANGED <<rules, ending, mainvars, flags, fence, disk, counts, errs>>

(* Buffers cannot be allocated.                                            *)
AllocFails(c) ==
  /\ th[c] = (IF rule(c).seek = "SEQ" THEN "lock" ELSE "draw") /\ errs < MaxErr
  /\ Goto(c, "close") /\ errs' = errs + 1 /\ failed' = failed \cup {c}
  /\ UNCHANGED <<rules, ending, mainvars, flags, cur, fence, held, written, counts>>

(* random_blkno draws a fencepost until enough lies behind it or the       *)
(* exerciser is to exit, when fewer blocks are taken.                      *)
DrawZone(c, w) ==
  LET f == fence[w]
      n == cur[c].num_blks
      enough == f.min_lba # f.max_lba /\ f.max_lba - f.min_lba + 1 > n
  IN  /\ th[c] = "draw" /\ (enough \/ exit_flag)
      /\ cur' = [cur EXCEPT ![c] = [@ EXCEPT !.draw = w, !.blkno = f.min_lba,
                                    !.num_blks = IF enough THEN n ELSE f.max_lba - f.min_lba]]
      /\ Goto(c, "aim")
      /\ UNCHANGED <<rules, ending, mainvars, flags, fence, disk, counts, errs>>

(* The block is min_lba plus a remainder by a number computed from max_lba *)
(* and min_lba: the fencepost is read once more, its two reads of min_lba  *)
(* in either order, and may have moved.  A remainder by 0 ends the         *)
(* exerciser; a negative number is a huge one, as it is unsigned, and any  *)
(* block may come out.                                                     *)
DrawBlock(c) ==
  /\ th[c] = "aim"
  /\ LET f == fence[cur[c].draw]
         reads == {cur[c].blkno, f.min_lba}
     IN  \E base \in reads, low \in reads :
           LET m == f.max_lba - low - cur[c].num_blks + 1
           IN  IF m = 0
               THEN main' = "died" /\ UNCHANGED <<th, cur>>
               ELSE /\ \E x \in (IF m > 0 THEN 0 .. (m - 1) ELSE Lba) :
                         cur' = [cur EXCEPT ![c] = [@ EXCEPT !.draw = 0, !.blkno = base + x]]
                    /\ Goto(c, "lock") /\ UNCHANGED main
  /\ UNCHANGED <<rules, ending, stanza, pass, todo, non_BWRC_mem, BWRC_mem, flags, fence, disk, counts, errs>>

(* seg_lock waits until no other thread holds one of the blocks.           *)
LockBlocks(c) ==
  /\ th[c] = "lock"
  /\ \A d \in Contexts \ {c} : held[d] \cap Segment(cur[c]) = {}
  /\ held' = [held EXCEPT ![c] = Segment(cur[c])]
  /\ Goto(c, "io")
  /\ UNCHANGED <<rules, ending, mainvars, flags, cur, fence, written, failed, counts, errs>>

(* seg_unlock releases the blocks and moves the fencepost of a BWRC        *)
(* thread, also when the operations failed.                                *)
seg_unlock(c) ==
  /\ held' = [held EXCEPT ![c] = {}]
  /\ fence' = [w \in Writers |->
                 IF w # c THEN fence[w]
                 ELSE IF rule(c).direction = "UP"
                 THEN [fence[w] EXCEPT !.max_lba = cur[c].blkno + cur[c].num_blks - 1]
                 ELSE [fence[w] EXCEPT !.min_lba = cur[c].blkno]]

(* The operations succeed, and the next block is set.                      *)
Transfer(c) ==
  /\ th[c] = "io"
  /\ written' = IF c \in Writers THEN written \cup Segment(cur[c]) ELSE written
  /\ seg_unlock(c)
  /\ LET t == [cur[c] EXCEPT !.oper_loop = @ + 1]
     IN  cur' = [cur EXCEPT ![c] = IF rule(c).seek = "SEQ" THEN set_blkno(c, t) ELSE t]
  /\ Goto(c, "top")
  /\ UNCHANGED <<rules, ending, mainvars, flags, failed, counts, errs>>

TransferFails(c) ==
  /\ th[c] = "io" /\ errs < MaxErr
  /\ errs' = errs + 1 /\ failed' = failed \cup {c}
  /\ seg_unlock(c)
  /\ Goto(c, "close")
  /\ UNCHANGED <<rules, ending, mainvars, flags, cur, written, counts>>

(* The disk is closed and the fencepost marked as finished; of the context *)
(* the thread reads no more than oper, which never changes.                *)
CloseDisk(c) ==
  /\ th[c] = "close"
  /\ fence' = [w \in Writers |-> IF w = c THEN [fence[w] EXCEPT !.status = "F"] ELSE fence[w]]
  /\ cur' = [cur EXCEPT ![c] = IF c \in Writers THEN Idle(@.num_blks, @.do_partial)
                                                ELSE Populated(rules, c)]
  /\ Goto(c, "none") /\ ending' = [ending EXCEPT ![c] = @ + 1]
  /\ UNCHANGED <<rules, mainvars, flags, disk, counts, errs>>

(* A mutation: the first reader to end wakes main.                         *)
EndThread_first(c) ==
  /\ ending[c] > 0 /\ ~Holding
  /\ ending' = [ending EXCEPT ![c] = @ - 1]
  /\ IF c \in Writers
     THEN /\ BWRC_threads_running' = BWRC_threads_running - 1
          /\ UNCHANGED <<main, non_BWRC_threads_running>>
     ELSE /\ non_BWRC_threads_running' = non_BWRC_threads_running - 1
          /\ main' = IF main = "finishing" THEN "finished" ELSE main
          /\ UNCHANGED BWRC_threads_running
  /\ UNCHANGED <<rules, stanza, pass, todo, non_BWRC_mem, BWRC_mem, flags, th, cur, fence, disk, errs>>

(* The thread takes itself out of its count; the last reader wakes main.   *)
EndThread(c) ==
  /\ ending[c] > 0 /\ ~Holding
  /\ ending' = [ending EXCEPT ![c] = @ - 1]
  /\ IF c \in Writers
     THEN /\ BWRC_threads_running' = BWRC_threads_running - 1
          /\ UNCHANGED <<main, non_BWRC_threads_running>>
     ELSE /\ non_BWRC_threads_running' = non_BWRC_threads_running - 1
          /\ main' = IF non_BWRC_threads_running' = 0 /\ main = "finishing" THEN "finished" ELSE main
          /\ UNCHANGED BWRC_threads_running
  /\ UNCHANGED <<rules, stanza, pass, todo, non_BWRC_mem, BWRC_mem, flags, th, cur, fence, disk, errs>>

(***************************************************************************)
(* The handlers of SIGTERM and SIGINT, and of signal 30.                   *)
(***************************************************************************)
SIGTERM_hdl ==
  /\ Alive /\ ~exit_flag
  /\ exit_flag' = TRUE
  /\ UNCHANGED <<rules, ending, mainvars, signal_flag, th, cur, fence, disk, counts, errs>>

sig_function ==
  /\ Alive /\ ~signal_flag
  /\ signal_flag' = TRUE
  /\ UNCHANGED <<rules, ending, mainvars, exit_flag, th, cur, fence, disk, counts, errs>>

MainStep ==
  \/ RunStanza \/ CreateThread \/ CountThread \/ StartThreads \/ FreeContexts
  \/ NextStanza \/ Cleanup \/ GiveUp \/ Return

ThreadStep(c) ==
  /\ Alive
  /\ \/ Announce(c) \/ Proceed(c) \/ OpenDisk(c) \/ wait_for_fencepost_catchup(c)
     \/ Leave(c) \/ NextBlocks(c) \/ (\E w \in Writers : DrawZone(c, w)) \/ DrawBlock(c)
     \/ LockBlocks(c) \/ Transfer(c) \/ CloseDisk(c) \/ EndThread(c)

Fails(c) == Alive /\ (OpenFails(c) \/ PatternFails(c) \/ AllocFails(c) \/ TransferFails(c))

Next ==
  \/ MainStep
  \/ \E c \in Contexts : ThreadStep(c) \/ Fails(c)
  \/ SIGTERM_hdl \/ sig_function

Spec == Init /\ [][Next]_vars

(* The operating system schedules every thread of the process.             *)
FairSpec == Spec /\ WF_vars(MainStep) /\ \A c \in Contexts : WF_vars(ThreadStep(c))

(***************************************************************************)
(* Properties                                                              *)
(***************************************************************************)
(* Memory of a thread context is freed only when its thread is past the    *)
(* last use of it, or main has given up waiting: the last reader wakes     *)
(* main, and the count of BWRC threads tells when they are gone.           *)
ContextsAllocated ==
  \A c \in Contexts : (th[c] # "none" \/ ending[c] > 0) /\ main # "gaveup" =>
    IF c \in Readers THEN non_BWRC_mem ELSE BWRC_mem

(* Up to the second pass, and as long as no call has failed, main does not *)
(* start a second thread on the context of a running one: it looks at the  *)
(* status of the fencepost, which the thread sets to 'R' only after it has *)
(* been started, but the readers of the first pass end after that.         *)
OneThreadPerContext == main = "twice" => errs > 0 \/ pass > 2

(* A reader compares only blocks that have been written, unless a BWRC     *)
(* thread failed: the fencepost it was checked against may since have been *)
(* moved, also back, by another lap.  Not so for a reader at random behind *)
(* a BWRC thread that goes down (see DrawBlock).                           *)
ComparesWritten ==
  \A c \in Readers : th[c] = "io" /\ failed \cap Writers = {} =>
    cur[c].blkno .. (cur[c].blkno + cur[c].num_blks - 1) \subseteq written

(* A BWRC thread that has done all its operations has written its whole    *)
(* zone and left the fencepost around it, whatever its direction and a     *)
(* shortened last transfer, unless one of its operations failed.           *)
LapCoversZone ==
  \A w \in Writers :
    th[w] \in {"top", "close"} /\ cur[w].oper_loop >= ctx(w).num_oper /\ w \notin failed =>
      LET zone == ctx(w).min_blkno .. ctx(w).max_blkno
      IN  zone \subseteq written /\ fence[w].min_lba .. fence[w].max_lba = zone

(* A sequential thread stays inside its blocks, through shortened          *)
(* transfers, new laps and the fencepost check.                            *)
StaysInside ==
  \A c \in Contexts : th[c] \in {"lock", "io"} /\ rule(c).seek = "SEQ" =>
    /\ cur[c].num_blks >= 1
    /\ Segment(cur[c]) \subseteq ctx(c).min_blkno .. ctx(c).max_blkno

(* A main that waits for its readers is woken, unless a call has failed or *)
(* signal 30 has stopped the BWRC threads: readers wait for a fencepost    *)
(* that a BWRC thread must move, and both wait for each other's blocks.    *)
ReadersFinish ==
  (main = "finishing") ~> (main # "finishing" \/ errs > 0 \/ signal_flag)

(* SIGTERM or SIGINT ends the exerciser, wherever its threads are.         *)
ExitEnds == exit_flag ~> ~Alive
=============================================================================
