----------------------------- MODULE MCStorage -----------------------------
(***************************************************************************)
(* Small rule files for Storage: a disk of 6 blocks, cut into zones of 3   *)
(* or taken as one of 5, and transfers of 2, so that the last transfer of  *)
(* a lap is a shortened one.                                               *)
(***************************************************************************)
EXTENDS Storage

CONSTANTS r1, r2

MCReaders == {r1, r2}
MCLba == 0 .. 5

Bwrc(dir, start, hi) ==
  [starting_block |-> start, direction |-> dir, seek |-> "SEQ", min_blkno |-> 0, max_blkno |-> hi,
   num_blks |-> 2, num_oper |-> 0]
Rc(dir, start, seek, lo, hi, n, opers) ==
  [starting_block |-> start, direction |-> dir, seek |-> seek, min_blkno |-> lo, max_blkno |-> hi,
   num_blks |-> n, num_oper |-> opers]

Up(hi) == Bwrc("UP", "BOT", hi)
Down(hi) == Bwrc("DOWN", "TOP", hi)
UpReader == Rc("UP", "BOT", "SEQ", 1, 3, 2, 3)
DownReader == Rc("DOWN", "TOP", "SEQ", 0, 3, 2, 2)
RandomReader(n) == Rc("UP", "BOT", "RANDOM", 0, 4, n, 1)

Z(threads, skip) == [threads |-> threads, skip |-> skip]

(* A BWRC thread run with "skip = s", then readers; the second BWRC thread *)
(* belongs to a stanza that the passes of the model leave out.             *)
Background(s, readers) == <<Z(<<0>>, s), Z(readers, 0), Z(<<1>>, 9)>>
(* Two zones, the upper one written downwards.                             *)
TwoZones(readers) == <<Z(<<0, 1>>, -3), Z(readers, 0)>>
(* BWRC thread and readers in one stanza.                                  *)
Together(readers) == <<Z(<<0>> \o readers, 0), Z(<<1>>, 9)>>

File(stanzas, w0, w1, one, two) ==
  [stanzas |-> stanzas,
   rule |-> [c \in {0, 1, r1, r2} |->
              CASE c = 0 -> w0 [] c = 1 -> w1 [] c = r1 -> one [] c = r2 -> two]]

(* Sequential readers in the direction of the BWRC thread and against it,  *)
(* also while a second lap moves the fencepost back; a reader at random    *)
(* behind a fencepost that moves up.                                       *)
Main == {File(Background(0, <<r1>>), Up(4), Up(4), UpReader, UpReader),
         File(Background(-3, <<r1, r2>>), Down(4), Up(4), DownReader, UpReader),
         File(TwoZones(<<r1>>), Up(5), Down(5), Rc("DOWN", "TOP", "SEQ", 1, 5, 2, 2), UpReader),
         File(Together(<<r1>>), Down(4), Up(4), UpReader, UpReader),
         File(Background(-3, <<r1>>), Up(4), Up(4), RandomReader(2), UpReader)}

(* They are rule files of the kind the theorems about Storage assume.      *)
ASSUME Sensible ==
  \A f \in RuleFiles :
    /\ \A c \in Contexts : Fits(f, c)
    /\ \A w \in Writers : InOrder(f, w) /\ WholeLap(f, w)
    /\ \A c \in Readers : Follows(f, c)
    /\ Numbered(f) /\ Awaited(f)
=============================================================================
