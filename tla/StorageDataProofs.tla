------------------------- MODULE StorageDataProofs -------------------------
(***************************************************************************)
(* Proofs about what the storage exerciser writes, reads and compares, on  *)
(* top of where its threads are.                                           *)
(***************************************************************************)
EXTENDS StorageProofs

(***************************************************************************)
(* What has been written, for BWRC threads that write in order.            *)
(***************************************************************************)
Inside(e) == e.min_lba .. e.max_lba

(* The fencepost of a BWRC thread lies in its zone.                        *)
Fenced(f, w, e) ==
  IF Upward(f, w) THEN e.min_lba = Low(f, w) /\ e.max_lba \in Low(f, w) .. High(f, w)
                  ELSE e.max_lba = High(f, w) /\ e.min_lba \in Low(f, w) .. High(f, w)

(* What the thread has come over has been written, and is what lies behind *)
(* its fencepost.                                                          *)
Wrote(f, w, s, t, e, W) ==
  /\ e.min_lba = e.max_lba \/ Inside(e) \subseteq W
  /\ s \notin Busy => t.do_partial = 0
  /\ s \in Busy /\ t.do_partial = 1 =>
       IF Upward(f, w) THEN t.blkno + t.num_blks - 1 = High(f, w) ELSE t.blkno = Low(f, w)
  /\ s \in Moving \cup Busy =>
       IF Upward(f, w) THEN Low(f, w) .. (t.blkno - 1) \subseteq W
                       ELSE (t.blkno + t.num_blks) .. High(f, w) \subseteq W

(* How far it is in its lap, and where the fencepost is at the end.        *)
Lap(f, w, s, t, e, W) ==
  LET n == tctx[f][w].num_oper
      k == t.oper_loop
  IN  /\ s \notin Moving \cup Busy \cup {"close"} => k = 0
      /\ s \in Moving /\ k < n =>
           IF Upward(f, w) THEN t.blkno = Low(f, w) + k * Whole(f, w)
                           ELSE t.blkno + Whole(f, w) - 1 = High(f, w) - k * Whole(f, w)
      /\ s \in Busy =>
           /\ k < n
           /\ IF Upward(f, w) THEN t.blkno = Low(f, w) + k * Whole(f, w)
                              ELSE t.blkno + t.num_blks - 1 = High(f, w) - k * Whole(f, w)
      /\ s \in Moving \cup {"close"} /\ k >= n =>
           e.min_lba = Low(f, w) /\ e.max_lba = High(f, w) /\ Inside(e) \subseteq W

Writes(f, w, s, t, e, W) == Wrote(f, w, s, t, e, W) /\ (WholeLap(f, w) => Lap(f, w, s, t, e, W))

WriterInv(w) ==
  /\ Fenced(rules, w, fence[w])
  /\ w \notin failed => Writes(rules, w, th[w], cur[w], fence[w], written)

WriteInv == \A w \in Writers : WriterInv(w)

(* The settings of such a thread.                                          *)
Orderly(f, w) ==
  /\ Sane(f, w) /\ f.rule[w].seek = "SEQ"
  /\ IF Upward(f, w) THEN First(f, w) = Low(f, w) ELSE First(f, w) + Whole(f, w) - 1 = High(f, w)
  /\ WholeLap(f, w) =>
       /\ tctx[f][w].num_oper \in Nat
       /\ \A j \in Nat : j < tctx[f][w].num_oper <=> j * Whole(f, w) < High(f, w) - Low(f, w) + 1

AllInOrder == \A f \in RuleFiles : \A w \in Writers : InOrder(f, w)

(* Division with a remainder.                                              *)
LEMMA Division ==
  ASSUME NEW m \in Nat, NEW n \in Nat \ {0}
  PROVE  m \div n \in Nat /\ m % n \in Nat /\ m = n * (m \div n) + (m % n) /\ m % n < n
  OBVIOUS

(* A product grows with a factor.                                          *)
LEMMA ProductMonotone ==
  ASSUME NEW n \in Nat, NEW i \in Int, NEW j \in Int, i <= j
  PROVE  i * n \in Int /\ j * n \in Int /\ i * n <= j * n
  <1>1. j - i \in Nat
    OBVIOUS
  <1>2. (j - i) * n \in Nat
    BY <1>1
  <1>3. j * n = i * n + (j - i) * n
    OBVIOUS
  <1> QED BY <1>2, <1>3

(* update_num_oper counts the transfers that begin inside the zone.        *)
LEMMA CountsTransfers ==
  ASSUME NEW m \in Nat, NEW n \in Nat \ {0}, NEW q \in Nat,
         q = (m \div n) + IF m % n # 0 THEN 1 ELSE 0
  PROVE  \A j \in Nat : j < q <=> j * n < m
  <1> PICK d : d = m \div n
    BY Zenon
  <1> PICK r : r = m % n
    BY Zenon
  <1>1. d \in Nat /\ r \in Nat /\ m = n * d + r /\ r < n
    BY Division, Zenon
  <1>2. m = d * n + r
    BY <1>1
  <1>3. q = IF r # 0 THEN d + 1 ELSE d
    BY <1>1
  <1> SUFFICES ASSUME NEW j \in Nat PROVE j < q <=> j * n < m
    BY Zenon
  <1>4. j * n \in Int /\ d * n \in Int
    BY <1>1
  <1>5. CASE j <= d - 1
    <2>1. j * n <= (d - 1) * n
      BY <1>1, <1>5, ProductMonotone
    <2>2. (d - 1) * n = d * n - n
      BY <1>1
    <2>3. (d - 1) * n \in Int
      BY <1>1
    <2>4. j * n <= d * n - n
      BY <2>1, <2>2, Zenon
    <2> QED BY ONLY <1>1, <1>2, <1>3, <1>4, <1>5, <2>4, n \in Nat \ {0}, j \in Nat
  <1>6. CASE j = d
    <2>1. j * n = d * n
      BY <1>6, Zenon
    <2> QED BY ONLY <1>1, <1>2, <1>3, <1>4, <1>6, <2>1, n \in Nat \ {0}, j \in Nat
  <1>7. CASE j >= d + 1
    <2>1. (d + 1) * n <= j * n
      BY <1>1, <1>7, ProductMonotone
    <2>2. (d + 1) * n = d * n + n
      BY <1>1
    <2>3. d * n + n <= j * n
      BY <2>1, <2>2, Zenon
    <2> QED BY ONLY <1>1, <1>2, <1>3, <1>4, <1>7, <2>3, n \in Nat \ {0}, j \in Nat
  <1> QED BY <1>1, <1>5, <1>6, <1>7

(* The settings of a BWRC thread that writes in order.                     *)
LEMMA OrderlySettings ==
  ASSUME NEW f \in RuleFiles, NEW w \in Writers, Fits(f, w), InOrder(f, w)
  PROVE  Orderly(f, w)
  <1>1. w \in Contexts
    BY Zenon DEF Contexts
  <1>2. Sane(f, w)
    BY <1>1, Settings, Zenon
  <1>3. tctx[f][w] = apply_rule_settings(f, w)
    BY <1>1, Zenon DEF tctx
  <1>4. First(f, w) = set_first_blk(f.rule[w], Low(f, w), High(f, w))
    BY <1>3 DEF First, Low, High, apply_rule_settings
  <1>5. /\ Low(f, w) \in Nat /\ High(f, w) \in Nat /\ Low(f, w) <= High(f, w) /\ Whole(f, w) \in Nat \ {0}
        /\ First(f, w) \in Int
    BY <1>2 DEF Sane
  <1>6. IF Upward(f, w) THEN First(f, w) = Low(f, w) ELSE First(f, w) + Whole(f, w) - 1 = High(f, w)
    <2>1. f.rule[w] \in ThreadRules
      BY <1>1, RulesAssumption, Zenon
    <2>2. f.rule[w].direction \in {"UP", "DOWN"}
      BY <2>1, Zenon DEF ThreadRules
    <2> QED BY <1>4, <1>5, <2>2 DEF InOrder, Upward, set_first_blk, Whole
  <1>7. ASSUME WholeLap(f, w)
        PROVE  /\ tctx[f][w].num_oper \in Nat
               /\ \A j \in Nat : j < tctx[f][w].num_oper <=> j * Whole(f, w) < High(f, w) - Low(f, w) + 1
    <2>1. w \notin Readers
      BY RulesAssumption, Zenon
    <2> PICK q : q = tctx[f][w].num_oper
      BY Zenon
    <2>2. q = update_num_oper(f.rule[w], Low(f, w), High(f, w), First(f, w))
      BY <1>3, <1>7, <2>1 DEF apply_rule_settings, WholeLap, Low, High, First
    <2> PICK m : m = High(f, w) - Low(f, w) + 1
      BY Zenon
    <2>3. m = IF f.rule[w].starting_block = "TOP" THEN High(f, w) - Low(f, w) + 1
                                                  ELSE High(f, w) - First(f, w) + 1
      BY <1>6, Zenon DEF InOrder, Upward
    <2>4. q = (m \div Whole(f, w)) + IF m % Whole(f, w) # 0 THEN 1 ELSE 0
      BY <2>2, <2>3, Zenon DEF update_num_oper, Whole
    <2>5. m \in Nat
      BY <1>5
    <2>6. m \div Whole(f, w) \in Nat
      BY <1>5, <2>5, Division, Zenon
    <2>7. q \in Nat
      BY <2>4, <2>6
    <2>8. \A j \in Nat : j < q <=> j * Whole(f, w) < m
      BY <1>5, <2>4, <2>5, <2>7, CountsTransfers, Zenon
    <2> QED BY <2>7, <2>8, Zenon
  <1> QED BY <1>2, <1>6, <1>7, Zenon DEF Orderly, InOrder

(* More may be written, and the status of the fencepost may change.        *)
LEMMA WritesMore ==
  ASSUME NEW f, NEW w, NEW s, NEW t, NEW e, NEW W, Writes(f, w, s, t, e, W),
         NEW d, d.min_lba = e.min_lba, d.max_lba = e.max_lba, NEW V, W \subseteq V
  PROVE  Writes(f, w, s, t, d, V)
  <1>1. Inside(d) = Inside(e)
    BY Zenon DEF Inside
  <1>2. \A S : S \subseteq W => S \subseteq V
    BY Zenon
  <1>3. Wrote(f, w, s, t, d, V)
    BY <1>1, <1>2, Zenon DEF Writes, Wrote
  <1>4. Lap(f, w, s, t, e, W) => Lap(f, w, s, t, d, V)
    BY <1>1, <1>2, Zenon DEF Lap
  <1> QED BY <1>3, <1>4, Zenon DEF Writes

(* A thread that has not begun, or has nothing more to do.                 *)
LEMMA WritesAway ==
  ASSUME NEW f, NEW w, NEW s, NEW t, NEW e, NEW W, Writes(f, w, s, t, e, W), NEW z,
         \/ s \notin Moving \cup Busy \cup {"close"} /\ z \notin Moving \cup Busy \cup {"close"}
         \/ s \in Moving /\ z \in {"top", "close"}
         \/ s \in Busy /\ z \in Busy
  PROVE  Writes(f, w, z, t, e, W)
  <1>1. "top" \in Moving /\ "top" \notin Busy /\ "close" \notin Busy /\ "close" \notin Moving
    BY Zenon DEF Moving, Busy
  <1>2. s \in Moving => s \notin Busy /\ s # "close"
    BY Zenon DEF Moving, Busy
  <1>3. s \in Busy => s \notin Moving /\ s # "close"
    BY Zenon DEF Moving, Busy
  <1>4. z \in Busy => z \notin Moving /\ z # "close"
    BY Zenon DEF Moving, Busy
  <1>5. Wrote(f, w, z, t, e, W)
    BY <1>1, <1>2, <1>3, <1>4, Zenon DEF Writes, Wrote
  <1>6. Lap(f, w, s, t, e, W) => Lap(f, w, z, t, e, W)
    BY <1>1, <1>2, <1>3, <1>4, Zenon DEF Lap
  <1> QED BY <1>5, <1>6, Zenon DEF Writes

(* The thread starts at its first block.                                   *)
LEMMA OpenWrites ==
  ASSUME NEW f, NEW w, Orderly(f, w), NEW t \in Positions, NEW e, NEW W,
         Writes(f, w, "open", t, e, W), Pos(f, w, "open", t),
         NEW u, IsSet(u, t, First(f, w), t.num_blks, t.do_partial)
  PROVE  Writes(f, w, "top", u, e, W)
  <1>1. /\ "top" \in Moving /\ "top" \notin Busy /\ "top" # "close" /\ "open" \notin Busy
        /\ "open" \notin Moving /\ "open" # "close"
    BY Zenon DEF Moving, Busy
  <1>2. t.do_partial = 0
    BY <1>1, Zenon DEF Writes, Wrote
  <1>3. t.num_blks = Whole(f, w)
    BY <1>2, Zenon DEF Pos, Orderly
  <1>4. u.do_partial = 0 /\ u.num_blks = Whole(f, w) /\ u.blkno = First(f, w) /\ u.oper_loop = t.oper_loop
    BY <1>2, <1>3, Zenon DEF IsSet
  <1>5. /\ Whole(f, w) \in Nat \ {0} /\ Low(f, w) \in Nat /\ High(f, w) \in Nat /\ First(f, w) \in Int
        /\ Low(f, w) <= High(f, w)
    BY DEF Orderly, Sane
  <1>6. /\ Upward(f, w) => First(f, w) = Low(f, w)
        /\ ~Upward(f, w) => First(f, w) + Whole(f, w) - 1 = High(f, w)
    BY Zenon DEF Orderly
  <1>7. /\ Upward(f, w) => Low(f, w) .. (u.blkno - 1) = {}
        /\ ~Upward(f, w) => (u.blkno + u.num_blks) .. High(f, w) = {}
    BY <1>4, <1>5, <1>6
  <1>8. \A S : S = {} => S \subseteq W
    BY Zenon
  <1>9. Wrote(f, w, "top", u, e, W)
    BY <1>1, <1>4, <1>7, <1>8, Zenon DEF Writes, Wrote
  <1>10. ASSUME WholeLap(f, w) PROVE Lap(f, w, "top", u, e, W)
    <2> PICK n : n = tctx[f][w].num_oper
      BY Zenon
    <2>1. u.oper_loop = 0
      BY <1>1, <1>4, <1>10, Zenon DEF Writes, Lap
    <2>2. n \in Nat /\ \A j \in Nat : j < n <=> j * Whole(f, w) < High(f, w) - Low(f, w) + 1
      BY <1>10, Zenon DEF Orderly
    <2>3. 0 * Whole(f, w) = 0 /\ 0 < n
      BY <1>5, <2>2
    <2>4. /\ Upward(f, w) => u.blkno = Low(f, w) + 0 * Whole(f, w)
          /\ ~Upward(f, w) => u.blkno + Whole(f, w) - 1 = High(f, w) - 0 * Whole(f, w)
      BY <1>4, <1>5, <1>6, <2>3
    <2>5. ~(0 >= n)
      BY <2>2, <2>3
    <2> QED BY <1>1, <2>1, <2>3, <2>4, <2>5, Zenon DEF Lap
  <1> QED BY <1>9, <1>10, Zenon DEF Writes

(* In its lap the thread is inside its zone.                               *)
LEMMA LapInside ==
  ASSUME NEW f, NEW w, Orderly(f, w), WholeLap(f, w), NEW k \in Nat, NEW n, n = tctx[f][w].num_oper
  PROVE  /\ k * Whole(f, w) \in Nat /\ (k + 1) * Whole(f, w) = k * Whole(f, w) + Whole(f, w)
         /\ k < n => Low(f, w) + k * Whole(f, w) <= High(f, w)
         /\ k + 1 < n => Low(f, w) + k * Whole(f, w) + Whole(f, w) <= High(f, w)
         /\ k + 1 >= n => Low(f, w) + k * Whole(f, w) + Whole(f, w) > High(f, w)
  <1>1. Whole(f, w) \in Nat \ {0} /\ Low(f, w) \in Nat /\ High(f, w) \in Nat
    BY Zenon DEF Orderly, Sane
  <1>2. n \in Nat /\ \A j \in Nat : j < n <=> j * Whole(f, w) < High(f, w) - Low(f, w) + 1
    BY Zenon DEF Orderly
  <1>3. k * Whole(f, w) \in Nat /\ (k + 1) * Whole(f, w) = k * Whole(f, w) + Whole(f, w)
    BY <1>1
  <1>4. k + 1 \in Nat
    OBVIOUS
  <1>5. /\ k < n <=> k * Whole(f, w) < High(f, w) - Low(f, w) + 1
        /\ k + 1 < n <=> (k + 1) * Whole(f, w) < High(f, w) - Low(f, w) + 1
    BY <1>2, <1>4, Zenon
  <1>6. /\ k < n <=> k * Whole(f, w) < High(f, w) - Low(f, w) + 1
        /\ k + 1 < n <=> k * Whole(f, w) + Whole(f, w) < High(f, w) - Low(f, w) + 1
    BY <1>3, <1>5, Zenon
  <1> PICK x : x = k * Whole(f, w)
    BY Zenon
  <1>7. /\ k < n => Low(f, w) + x <= High(f, w)
        /\ k + 1 < n => Low(f, w) + x + Whole(f, w) <= High(f, w)
        /\ k + 1 >= n => Low(f, w) + x + Whole(f, w) > High(f, w)
    BY <1>1, <1>2, <1>3, <1>6
  <1> QED BY <1>3, <1>7, Zenon

(* The thread cuts a transfer or starts again.                             *)
LEMMA BoundaryWrites ==
  ASSUME NEW w \in Contexts, Orderly(rules, w), NEW t \in Positions, NEW e, NEW W,
         Writes(rules, w, "top", t, e, W), Pos(rules, w, "top", t),
         t.oper_loop < tctx[rules][w].num_oper, NEW u, u = do_boundary_check(w, t)
  PROVE  Writes(rules, w, "lock", u, e, W)
  <1> PICK f : f = rules
    BY Zenon
  <1>1. /\ "top" \in Moving /\ "top" \notin Busy /\ "top" # "close" /\ "lock" \in Busy
        /\ "lock" \notin Moving /\ "lock" # "close"
    BY Zenon DEF Moving, Busy
  <1>2. t.do_partial = 0
    BY <1>1, Zenon DEF Writes, Wrote
  <1>3. t.num_blks = Whole(f, w)
    BY <1>2, Zenon DEF Pos, Orderly
  <1>4. /\ Whole(f, w) \in Nat \ {0} /\ Low(f, w) \in Nat /\ High(f, w) \in Nat /\ First(f, w) \in Int
        /\ Low(f, w) <= High(f, w) /\ Sane(rules, w)
    BY DEF Orderly, Sane
  <1>5. t.num_blks \in Int /\ t.blkno \in Int /\ t.oper_loop \in Nat
    BY Zenon DEF Positions
  <1>6. /\ Upward(f, w) => First(f, w) = Low(f, w)
        /\ ~Upward(f, w) => First(f, w) + Whole(f, w) - 1 = High(f, w)
    BY Zenon DEF Orderly
  <1>7. /\ Upward(f, w) => Low(f, w) .. (t.blkno - 1) \subseteq W
        /\ ~Upward(f, w) => (t.blkno + t.num_blks) .. High(f, w) \subseteq W
    BY <1>1, Zenon DEF Writes, Wrote
  <1>8. /\ ~wrap(w, t) => u = t
        /\ wrap(w, t) /\ NothingLeft(w, t) => IsSet(u, t, First(f, w), t.num_blks, 0)
        /\ wrap(w, t) /\ ~NothingLeft(w, t) /\ Upward(f, w) =>
             IsSet(u, t, t.blkno, High(f, w) - t.blkno + 1, 1)
        /\ wrap(w, t) /\ ~NothingLeft(w, t) /\ ~Upward(f, w) =>
             IsSet(u, t, Low(f, w), t.num_blks - (Low(f, w) - t.blkno), 1)
    BY <1>4, BoundaryIs, Zenon
  <1>9. u.oper_loop = t.oper_loop
    BY <1>8, Zenon DEF IsSet
  <1>10. \A S : S = {} => S \subseteq W
    BY Zenon
  <1>11. /\ u.do_partial = 1 =>
              /\ Upward(f, w) => u.blkno + u.num_blks - 1 = High(f, w)
              /\ ~Upward(f, w) => u.blkno = Low(f, w)
         /\ Upward(f, w) => u.blkno = t.blkno \/ (u.blkno = Low(f, w) /\ t.blkno > High(f, w))
         /\ ~Upward(f, w) => \/ u.blkno + u.num_blks = t.blkno + t.num_blks
                             \/ /\ u.blkno + u.num_blks = High(f, w) + 1
                                /\ t.blkno + t.num_blks - 1 < Low(f, w)
    <2>1. CASE ~wrap(w, t)
      BY <1>2, <1>8, <2>1
    <2>2. CASE wrap(w, t) /\ NothingLeft(w, t)
      <3>1. u.blkno = First(f, w) /\ u.num_blks = t.num_blks /\ u.do_partial = 0
        BY <1>8, <2>2, Zenon DEF IsSet
      <3> QED BY <1>3, <1>4, <1>5, <1>6, <2>2, <3>1, Leaves
    <2>3. CASE wrap(w, t) /\ ~NothingLeft(w, t) /\ Upward(f, w)
      <3>1. u.blkno = t.blkno /\ u.num_blks = High(f, w) - t.blkno + 1
        BY <1>8, <2>3, Zenon DEF IsSet
      <3> QED BY <1>4, <1>5, <2>3, <3>1
    <2>4. CASE wrap(w, t) /\ ~NothingLeft(w, t) /\ ~Upward(f, w)
      <3>1. u.blkno = Low(f, w) /\ u.num_blks = t.num_blks - (Low(f, w) - t.blkno)
        BY <1>8, <2>4, Zenon DEF IsSet
      <3> QED BY <1>4, <1>5, <2>4, <3>1
    <2> QED BY <2>1, <2>2, <2>3, <2>4, Zenon
  <1>12. u.blkno \in Int /\ u.num_blks \in Int
    BY <1>8, <1>5, Zenon DEF IsSet, Positions
  <1>13. /\ Upward(f, w) => Low(f, w) .. (u.blkno - 1) \subseteq W
         /\ ~Upward(f, w) => (u.blkno + u.num_blks) .. High(f, w) \subseteq W
    <2>1. (Low(f, w) .. (Low(f, w) - 1)) = {} /\ ((High(f, w) + 1) .. High(f, w)) = {}
      BY <1>4
    <2> QED BY <1>7, <1>10, <1>11, <2>1, Zenon
  <1>14. Wrote(f, w, "lock", u, e, W)
    BY <1>1, <1>11, <1>13, Zenon DEF Writes, Wrote
  <1>15. ASSUME WholeLap(f, w) PROVE Lap(f, w, "lock", u, e, W)
    <2> PICK n : n = tctx[f][w].num_oper
      BY Zenon
    <2> PICK k : k = t.oper_loop
      BY Zenon
    <2>1. k < n /\ k \in Nat
      BY <1>5, Zenon
    <2>2. k * Whole(f, w) \in Nat /\ Low(f, w) + k * Whole(f, w) <= High(f, w)
      BY <1>15, <2>1, LapInside, Zenon
    <2>3. /\ Upward(f, w) => t.blkno = Low(f, w) + k * Whole(f, w)
          /\ ~Upward(f, w) => t.blkno + Whole(f, w) - 1 = High(f, w) - k * Whole(f, w)
      BY <1>1, <1>15, <2>1, Zenon DEF Writes, Lap
    <2>4. /\ Upward(f, w) => u.blkno = Low(f, w) + k * Whole(f, w)
          /\ ~Upward(f, w) => u.blkno + u.num_blks - 1 = High(f, w) - k * Whole(f, w)
      BY <1>3, <1>4, <1>5, <1>11, <1>12, <2>2, <2>3
    <2> QED BY <1>1, <1>9, <2>1, <2>4, Zenon DEF Lap
  <1> QED BY <1>14, <1>15, Zenon DEF Writes

(* What seg_unlock makes of the fencepost of a BWRC thread.                *)
Advanced(f, w, t, e, d) ==
  IF Upward(f, w) THEN d.min_lba = e.min_lba /\ d.max_lba = t.blkno + t.num_blks - 1
                  ELSE d.max_lba = e.max_lba /\ d.min_lba = t.blkno

(* It lies in the zone.                                                    *)
LEMMA AdvancedFence ==
  ASSUME NEW f, NEW w, Orderly(f, w), NEW t \in Positions, Pos(f, w, "io", t),
         NEW e, Fenced(f, w, e), NEW d, Advanced(f, w, t, e, d)
  PROVE  Fenced(f, w, d)
  <1>1. "io" \in Busy
    BY Zenon DEF Busy
  <1>2. /\ t.num_blks \in 1 .. Whole(f, w) /\ Low(f, w) <= t.blkno
        /\ t.blkno + t.num_blks - 1 <= High(f, w)
    BY <1>1, Zenon DEF Pos, Orderly
  <1>3. Whole(f, w) \in Nat \ {0} /\ Low(f, w) \in Nat /\ High(f, w) \in Nat /\ t.blkno \in Int
    BY Zenon DEF Orderly, Sane, Positions
  <1> QED BY <1>2, <1>3 DEF Fenced, Advanced

(* One more operation is counted.                                          *)
Counted(x, t) ==
  /\ x \in Positions /\ x.oper_loop = t.oper_loop + 1 /\ x.blkno = t.blkno
  /\ x.num_blks = t.num_blks /\ x.do_partial = t.do_partial

(* The blocks up to it have been written, and the thread goes on.          *)
LEMMA TransferWrites ==
  ASSUME NEW w \in Contexts, Orderly(rules, w), NEW t \in Positions, NEW e, NEW W,
         Writes(rules, w, "io", t, e, W), Pos(rules, w, "io", t), Fenced(rules, w, e),
         NEW d, Advanced(rules, w, t, e, d), NEW x, Counted(x, t)
  PROVE  /\ Inside(d) \subseteq W \cup Segment(t)
         /\ Writes(rules, w, "top", set_blkno(w, x), d, W \cup Segment(t))
  <1> PICK f : f = rules
    BY Zenon
  <1> PICK V : V = W \cup Segment(t)
    BY Zenon
  <1> PICK u : u = set_blkno(w, x)
    BY Zenon
  <1> x \in Positions /\ x.oper_loop = t.oper_loop + 1 /\ x.blkno = t.blkno
      /\ x.num_blks = t.num_blks /\ x.do_partial = t.do_partial
    BY Zenon DEF Counted
  <1>1. /\ "top" \in Moving /\ "top" \notin Busy /\ "top" # "close" /\ "io" \in Busy
        /\ "io" \notin Moving /\ "io" # "close"
    BY Zenon DEF Moving, Busy
  <1>2. /\ t.num_blks \in 1 .. Whole(f, w) /\ Low(f, w) <= t.blkno
        /\ t.blkno + t.num_blks - 1 <= High(f, w) /\ (t.do_partial = 0 => t.num_blks = Whole(f, w))
    BY <1>1, Zenon DEF Pos, Orderly
  <1>3. /\ Whole(f, w) \in Nat \ {0} /\ Low(f, w) \in Nat /\ High(f, w) \in Nat /\ First(f, w) \in Int
        /\ Low(f, w) <= High(f, w) /\ Sane(rules, w)
    BY DEF Orderly, Sane
  <1>4. t.num_blks \in Int /\ t.blkno \in Int /\ t.oper_loop \in Nat /\ t.do_partial \in {0, 1}
    BY Zenon DEF Positions
  <1>5. /\ Upward(f, w) => First(f, w) = Low(f, w)
        /\ ~Upward(f, w) => First(f, w) + Whole(f, w) - 1 = High(f, w)
    BY Zenon DEF Orderly
  <1>6. /\ Upward(f, w) => Low(f, w) .. (t.blkno - 1) \subseteq W
        /\ ~Upward(f, w) => (t.blkno + t.num_blks) .. High(f, w) \subseteq W
        /\ t.do_partial = 1 =>
             IF Upward(f, w) THEN t.blkno + t.num_blks - 1 = High(f, w) ELSE t.blkno = Low(f, w)
    BY <1>1, Zenon DEF Writes, Wrote
  <1>7. V = W \cup (t.blkno .. (t.blkno + t.num_blks - 1))
    <2>1. t.num_blks # 0
      BY <1>2, <1>3
    <2> QED BY <2>1, Zenon DEF Segment
  <1>8. /\ Upward(f, w) => d.min_lba = Low(f, w) /\ d.max_lba = t.blkno + t.num_blks - 1
        /\ ~Upward(f, w) => d.max_lba = High(f, w) /\ d.min_lba = t.blkno
    BY Zenon DEF Advanced, Fenced
  <1>9. Inside(d) \subseteq V
    BY <1>2, <1>3, <1>4, <1>6, <1>7, <1>8 DEF Inside
  <1>10. /\ t.do_partial = 1 => IsSet(u, x, First(f, w), Whole(f, w), 0)
         /\ t.do_partial = 0 =>
              IsSet(u, x, IF Upward(f, w) THEN x.blkno + x.num_blks ELSE x.blkno - x.num_blks, x.num_blks, 0)
    BY <1>3, NextIs, Zenon
  <1>11. /\ u.do_partial = 0 /\ u.oper_loop = t.oper_loop + 1
         /\ t.do_partial = 1 => u.blkno = First(f, w) /\ u.num_blks = Whole(f, w)
         /\ t.do_partial = 0 =>
              /\ u.num_blks = t.num_blks
              /\ Upward(f, w) => u.blkno = t.blkno + t.num_blks
              /\ ~Upward(f, w) => u.blkno = t.blkno - t.num_blks
    <2>1. t.do_partial = 1 \/ t.do_partial = 0
      BY <1>4, Zenon
    <2> QED BY <1>10, <2>1, Zenon DEF IsSet
  <1>12. /\ Upward(f, w) => Low(f, w) .. (u.blkno - 1) \subseteq V
         /\ ~Upward(f, w) => (u.blkno + u.num_blks) .. High(f, w) \subseteq V
    <2>1. CASE t.do_partial = 1
      BY <1>3, <1>5, <1>11, <2>1
    <2>2. CASE t.do_partial = 0
      <3>1. /\ Upward(f, w) => Low(f, w) .. (u.blkno - 1) = Inside(d)
            /\ ~Upward(f, w) => (u.blkno + u.num_blks) .. High(f, w) = Inside(d)
        <4>1. Upward(f, w) => u.blkno - 1 = d.max_lba
          BY <1>4, <1>8, <1>11, <2>2
        <4>2. ~Upward(f, w) => u.blkno + u.num_blks = d.min_lba
          BY <1>4, <1>8, <1>11, <2>2
        <4> QED BY <1>8, <4>1, <4>2, Zenon DEF Inside
      <3> QED BY <1>9, <3>1, Zenon
    <2> QED BY <1>4, <2>1, <2>2, Zenon
  <1>13. Wrote(f, w, "top", u, d, V)
    BY <1>1, <1>9, <1>11, <1>12, Zenon DEF Wrote
  <1>14. ASSUME WholeLap(f, w) PROVE Lap(f, w, "top", u, d, V)
    <2> PICK n : n = tctx[f][w].num_oper
      BY Zenon
    <2> PICK k : k = t.oper_loop
      BY Zenon
    <2> PICK y : y = k * Whole(f, w)
      BY Zenon
    <2>1. /\ k < n /\ (Upward(f, w) => t.blkno = Low(f, w) + y)
          /\ ~Upward(f, w) => t.blkno + t.num_blks - 1 = High(f, w) - y
      BY <1>1, <1>14, Zenon DEF Writes, Lap
    <2>2. /\ y \in Nat
          /\ k + 1 < n => Low(f, w) + y + Whole(f, w) <= High(f, w)
          /\ k + 1 >= n => Low(f, w) + y + Whole(f, w) > High(f, w)
      BY <1>4, <1>14, LapInside, Zenon
    <2>3. (k + 1) * Whole(f, w) = y + Whole(f, w)
      BY <1>4, <1>14, LapInside, Zenon
    <2>4. k + 1 < n =>
            IF Upward(f, w) THEN u.blkno = Low(f, w) + (y + Whole(f, w))
                            ELSE u.blkno + Whole(f, w) - 1 = High(f, w) - (y + Whole(f, w))
      BY ONLY <1>2, <1>3, <1>4, <1>6, <1>11, <2>1, <2>2
    <2>5. k + 1 >= n => d.min_lba = Low(f, w) /\ d.max_lba = High(f, w)
      BY ONLY <1>2, <1>3, <1>4, <1>6, <1>8, <2>1, <2>2
    <2>6. /\ u.oper_loop < n =>
              IF Upward(f, w) THEN u.blkno = Low(f, w) + u.oper_loop * Whole(f, w)
                              ELSE u.blkno + Whole(f, w) - 1 = High(f, w) - u.oper_loop * Whole(f, w)
          /\ u.oper_loop >= n => d.min_lba = Low(f, w) /\ d.max_lba = High(f, w)
      BY <1>11, <2>4, <2>5, <2>3, Zenon
    <2> QED BY <1>1, <1>9, <2>6, Zenon DEF Lap
  <1> QED BY <1>9, <1>13, <1>14, Zenon DEF Writes

-----------------------------------------------------------------------------
(* What a step of one thread leaves to the others.                         *)
Others(c) ==
  /\ rules' = rules /\ exit_flag' = exit_flag
  /\ \A d \in Contexts : d # c => th'[d] = th[d] /\ cur'[d] = cur[d]
  /\ \A w \in Writers : w # c => fence'[w] = fence[w]
  /\ written \subseteq written' /\ failed \subseteq failed'

(* Every step of a thread is such a step.                                  *)
LEMMA StepOthers ==
  ASSUME Shape, PosInv, NEW c \in Contexts, ThreadStep(c) \/ Fails(c)
  PROVE  Others(c)
  <1>1. rules' = rules /\ exit_flag' = exit_flag
    BY Zenon DEF ThreadStep, Fails, flags, Announce, Proceed, OpenDisk, wait_for_fencepost_catchup, Leave, NextBlocks,
                 DrawZone, DrawBlock, LockBlocks, Transfer, CloseDisk, EndThread, OpenFails, PatternFails,
                 AllocFails, TransferFails
  <1>2. th' = th \/ \E z : Goto(c, z)
    BY Zenon DEF ThreadStep, Fails, Announce, Proceed, OpenDisk, wait_for_fencepost_catchup, Leave, NextBlocks,
                 DrawZone, DrawBlock, LockBlocks, Transfer, CloseDisk, EndThread, OpenFails, PatternFails,
                 AllocFails, TransferFails
  <1>3. cur' = cur \/ \E u : cur' = [cur EXCEPT ![c] = u]
    BY Zenon DEF ThreadStep, Fails, Announce, Proceed, OpenDisk, wait_for_fencepost_catchup, Leave, NextBlocks,
                 DrawZone, DrawBlock, LockBlocks, Transfer, CloseDisk, EndThread, OpenFails, PatternFails,
                 AllocFails, TransferFails
  <1>4. \/ fence' = fence \/ seg_unlock(c)
        \/ \E z : fence' = [w \in Writers |-> IF w = c THEN [fence[w] EXCEPT !.status = z] ELSE fence[w]]
    BY Zenon DEF ThreadStep, Fails, Announce, Proceed, OpenDisk, wait_for_fencepost_catchup, Leave, NextBlocks,
                 DrawZone, DrawBlock, LockBlocks, Transfer, CloseDisk, EndThread, OpenFails, PatternFails,
                 AllocFails, TransferFails
  <1>5. /\ written' = written \/ written' = written \cup Segment(cur[c])
        /\ failed' = failed \/ failed' = failed \cup {c}
    BY Zenon DEF ThreadStep, Fails, disk, Announce, Proceed, OpenDisk, wait_for_fencepost_catchup, Leave, NextBlocks,
                 DrawZone, DrawBlock, LockBlocks, Transfer, CloseDisk, EndThread, OpenFails, PatternFails,
                 AllocFails, TransferFails
  <1>6. \A d \in Contexts : d # c => th'[d] = th[d]
    BY <1>2, Zenon DEF Goto, Shape
  <1>7. \A d \in Contexts : d # c => cur'[d] = cur[d]
    BY <1>3, Zenon DEF PosInv
  <1>8. \A w \in Writers : w # c => fence'[w] = fence[w]
    BY <1>4, Zenon DEF seg_unlock
  <1>9. written \subseteq written' /\ failed \subseteq failed'
    BY <1>5, Zenon
  <1> QED BY <1>1, <1>6, <1>7, <1>8, <1>9, Zenon DEF Others

(* Only its place and its ends say where a fencepost is.                   *)
LEMMA SameFence ==
  ASSUME NEW f, NEW w, NEW e, Fenced(f, w, e), NEW d, d.min_lba = e.min_lba, d.max_lba = e.max_lba
  PROVE  Fenced(f, w, d)
  BY Zenon DEF Fenced

(* So such a step keeps what is said of the other BWRC threads.            *)
LEMMA OneWrites ==
  ASSUME WriteInv, NEW c \in Contexts, Others(c), c \in Writers => WriterInv(c)'
  PROVE  WriteInv'
  <1> SUFFICES ASSUME NEW w \in Writers, w # c PROVE WriterInv(w)'
    BY Zenon DEF WriteInv
  <1>1. w \in Contexts
    BY Zenon DEF Contexts
  <1>2. rules' = rules /\ th'[w] = th[w] /\ cur'[w] = cur[w] /\ fence'[w] = fence[w]
    BY <1>1, Zenon DEF Others
  <1>3. Fenced(rules, w, fence[w]) /\ (w \notin failed => Writes(rules, w, th[w], cur[w], fence[w], written))
    BY Zenon DEF WriteInv, WriterInv
  <1>4. w \notin failed' => w \notin failed
    BY Zenon DEF Others
  <1>5. w \notin failed' => Writes(rules, w, th[w], cur[w], fence[w], written')
    BY <1>3, <1>4, WritesMore, Zenon DEF Others
  <1> QED BY <1>2, <1>3, <1>5, Zenon DEF WriterInv

(* A BWRC thread moves on without a change of its context.                 *)
LEMMA MoveWriter ==
  ASSUME Shape, PosInv, NEW w \in Writers, WriterInv(w), rules' = rules, cur' = cur, fence' = fence,
         written' = written, failed' = failed, NEW z, Goto(w, z),
         \/ th[w] \notin Moving \cup Busy \cup {"close"} /\ z \notin Moving \cup Busy \cup {"close"}
         \/ th[w] \in Moving /\ z \in {"top", "close"}
         \/ th[w] \in Busy /\ z \in Busy
  PROVE  WriterInv(w)'
  <1>1. th'[w] = z
    BY Zenon DEF Goto, Shape, Contexts
  <1>2. w \notin failed => Writes(rules, w, z, cur[w], fence[w], written)
    BY WritesAway, Zenon DEF WriterInv
  <1> QED BY <1>1, <1>2, Zenon DEF WriterInv

(* The steps that change nothing but its place.                            *)
LEMMA StepsWriter ==
  ASSUME Shape, PosInv, NEW w \in Writers, WriterInv(w),
         Announce(w) \/ Proceed(w) \/ wait_for_fencepost_catchup(w) \/ Leave(w) \/ LockBlocks(w)
  PROVE  WriterInv(w)'
  <1>1. rules' = rules /\ cur' = cur /\ fence' = fence /\ written' = written /\ failed' = failed
    BY Zenon DEF Announce, Proceed, wait_for_fencepost_catchup, Leave, LockBlocks, disk
  <1>2. CASE th[w] \in {"born", "ready"} /\ \E z \in {"waiting", "open"} : Goto(w, z)
    <2>1. PICK z \in {"waiting", "open"} : Goto(w, z)
      BY <1>2, Zenon
    <2>2. th[w] \notin Moving \cup Busy \cup {"close"} /\ z \notin Moving \cup Busy \cup {"close"}
      BY <1>2, Zenon DEF Moving, Busy
    <2> QED BY <1>1, <2>1, <2>2, MoveWriter, Zenon
  <1>3. CASE th[w] \in Moving /\ \E z \in {"top", "close"} : Goto(w, z)
    BY <1>1, <1>3, MoveWriter, Zenon
  <1>4. CASE th[w] = "lock" /\ Goto(w, "io")
    <2>1. th[w] \in Busy /\ "io" \in Busy
      BY <1>4, Zenon DEF Busy
    <2> QED BY <1>1, <1>4, <2>1, MoveWriter, Zenon
  <1>5. /\ Announce(w) \/ Proceed(w) => th[w] \in {"born", "ready"} /\ \E z \in {"waiting", "open"} : Goto(w, z)
        /\ LockBlocks(w) => th[w] = "lock" /\ Goto(w, "io")
    BY Zenon DEF Announce, Proceed, LockBlocks
  <1>6. wait_for_fencepost_catchup(w) \/ Leave(w) => th[w] \in {"catchup", "top"} /\ \E z \in {"top", "close"} : Goto(w, z)
    BY Zenon DEF wait_for_fencepost_catchup, Leave
  <1> QED BY <1>2, <1>3, <1>4, <1>5, <1>6, Zenon DEF Moving

(* The position of a BWRC thread.                                          *)
LEMMA WriterPos ==
  ASSUME PosInv, NEW w \in Writers
  PROVE  w \in Contexts /\ cur[w] \in Positions /\ Pos(rules, w, th[w], cur[w]) /\ fence[w] \in Fenceposts
  <1>1. w \in Contexts /\ cur[w] \in Positions /\ fence[w] \in Fenceposts
    BY Zenon DEF PosInv, Contexts
  <1> QED BY <1>1, Zenon DEF PosInv

(* It opens the disk.                                                      *)
LEMMA OpenWriter ==
  ASSUME Shape, PosInv, NEW w \in Writers, Orderly(rules, w), WriterInv(w), OpenDisk(w)
  PROVE  WriterInv(w)'
  <1> PICK t : t = cur[w]
    BY Zenon
  <1> PICK u : u = init_blkno(w, t)
    BY Zenon
  <1>1. w \in Contexts /\ t \in Positions /\ Pos(rules, w, th[w], t)
    BY WriterPos, Zenon
  <1>2. w \notin Readers /\ rule(w).seek = "SEQ"
    BY RulesAssumption, Names, Zenon DEF Orderly
  <1>3. /\ th[w] = "open" /\ rules' = rules /\ Goto(w, "top") /\ cur' = [cur EXCEPT ![w] = u]
        /\ written' = written /\ failed' = failed
        /\ fence' = [v \in Writers |-> IF v = w THEN [fence[v] EXCEPT !.status = "R"] ELSE fence[v]]
    BY <1>2, Zenon DEF OpenDisk, disk
  <1>4. th'[w] = "top" /\ cur'[w] = u
    BY <1>1, <1>3, Zenon DEF Goto, Shape, PosInv
  <1>5. fence'[w].min_lba = fence[w].min_lba /\ fence'[w].max_lba = fence[w].max_lba
    <2>1. "R" \in {"F", "R"}
      BY Zenon
    <2> QED BY <1>3, <2>1, MarkFence, Zenon
  <1>6. IsSet(u, t, First(rules, w), t.num_blks, t.do_partial)
    BY <1>1, Names, SetBlkno, Zenon DEF init_blkno, Orderly, Sane
  <1>7. w \notin failed => Writes(rules, w, "top", u, fence'[w], written)
    <2>1. w \notin failed => Writes(rules, w, "top", u, fence[w], written)
      BY <1>1, <1>3, <1>6, OpenWrites, Zenon DEF WriterInv
    <2>2. written \subseteq written
      BY Zenon
    <2> QED BY <1>5, <2>1, <2>2, WritesMore, Zenon
  <1>8. Fenced(rules, w, fence'[w])
    BY <1>5, SameFence, Zenon DEF WriterInv
  <1> QED BY <1>3, <1>4, <1>7, <1>8, Zenon DEF WriterInv

(* It goes on to its next blocks.                                          *)
LEMMA NextWriter ==
  ASSUME Shape, PosInv, NEW w \in Writers, Orderly(rules, w), WriterInv(w), NextBlocks(w)
  PROVE  WriterInv(w)'
  <1> PICK t : t = cur[w]
    BY Zenon
  <1> PICK u : u = do_boundary_check(w, t)
    BY Zenon
  <1>1. w \in Contexts /\ t \in Positions /\ Pos(rules, w, th[w], t)
    BY WriterPos, Zenon
  <1>2. w \notin Readers /\ rule(w).seek = "SEQ"
    BY RulesAssumption, Names, Zenon DEF Orderly
  <1>3. rule(w).seek # "RANDOM"
    BY <1>2, Zenon
  <1>4. /\ th[w] = "top" /\ rules' = rules /\ Goto(w, "lock") /\ cur' = [cur EXCEPT ![w] = u]
        /\ written' = written /\ failed' = failed /\ fence' = fence /\ t.oper_loop < ctx(w).num_oper
    BY <1>2, <1>3, Zenon DEF NextBlocks, disk
  <1>5. th'[w] = "lock" /\ cur'[w] = u
    BY <1>1, <1>4, Zenon DEF Goto, Shape, PosInv
  <1>6. w \notin failed => Writes(rules, w, "lock", u, fence[w], written)
    BY <1>1, <1>4, BoundaryWrites, Zenon DEF WriterInv, ctx
  <1> QED BY <1>4, <1>5, <1>6, Zenon DEF WriterInv

(* What seg_unlock does to its fencepost.                                  *)
LEMMA UnlockAdvances ==
  ASSUME PosInv, NEW w \in Writers, seg_unlock(w)
  PROVE  Advanced(rules, w, cur[w], fence[w], fence'[w])
  <1>1. fence[w] \in Fenceposts
    BY WriterPos, Zenon
  <1>2. fence'[w] = IF Upward(rules, w) THEN [fence[w] EXCEPT !.max_lba = cur[w].blkno + cur[w].num_blks - 1]
                                        ELSE [fence[w] EXCEPT !.min_lba = cur[w].blkno]
    BY Names, Zenon DEF seg_unlock
  <1> QED BY <1>1, <1>2, Zenon DEF Advanced, Fenceposts

(* Its operations succeed: what lies behind its fencepost is written.      *)
LEMMA TransferWriter ==
  ASSUME Shape, PosInv, NEW w \in Writers, Orderly(rules, w), WriterInv(w), Transfer(w)
  PROVE  /\ WriterInv(w)'
         /\ w \notin failed => Inside(fence'[w]) \subseteq written'
  <1> PICK t : t = cur[w]
    BY Zenon
  <1> PICK x : x = [t EXCEPT !.oper_loop = @ + 1]
    BY Zenon
  <1> PICK u : u = set_blkno(w, x)
    BY Zenon
  <1>1. w \in Contexts /\ t \in Positions /\ Pos(rules, w, th[w], t)
    BY WriterPos, Zenon
  <1>2. rule(w).seek = "SEQ"
    BY Names, Zenon DEF Orderly
  <1>3. /\ th[w] = "io" /\ rules' = rules /\ Goto(w, "top") /\ cur' = [cur EXCEPT ![w] = u]
        /\ written' = written \cup Segment(t) /\ failed' = failed /\ seg_unlock(w)
    BY <1>2, Zenon DEF Transfer
  <1>4. th'[w] = "top" /\ cur'[w] = u
    BY <1>1, <1>3, Zenon DEF Goto, Shape, PosInv
  <1>5. Counted(x, t)
    BY <1>1 DEF Positions, Counted
  <1>6. Advanced(rules, w, t, fence[w], fence'[w])
    BY <1>3, UnlockAdvances, Zenon
  <1>7. Fenced(rules, w, fence'[w])
    BY <1>1, <1>3, <1>6, AdvancedFence, Zenon DEF WriterInv
  <1>8. w \notin failed => Inside(fence'[w]) \subseteq written' /\ Writes(rules, w, "top", u, fence'[w], written')
    <2> SUFFICES ASSUME w \notin failed
                 PROVE  Inside(fence'[w]) \subseteq written' /\ Writes(rules, w, "top", u, fence'[w], written')
      BY Zenon
    <2>1. Writes(rules, w, "io", t, fence[w], written) /\ Pos(rules, w, "io", t) /\ Fenced(rules, w, fence[w])
      BY <1>1, <1>3, Zenon DEF WriterInv
    <2>2. written' = written \cup Segment(t)
      BY <1>3, Zenon
    <2> QED BY ONLY <1>1, <1>5, <1>6, <2>1, <2>2, u = set_blkno(w, x), Orderly(rules, w), TransferWrites, Zenon
  <1> QED BY <1>3, <1>4, <1>7, <1>8, Zenon DEF WriterInv

(* A call of it fails.                                                     *)
LEMMA FailWriter ==
  ASSUME Shape, PosInv, NEW w \in Writers, Orderly(rules, w), WriterInv(w),
         PatternFails(w) \/ AllocFails(w) \/ TransferFails(w)
  PROVE  WriterInv(w)' /\ w \in failed'
  <1>1. rules' = rules /\ failed' = failed \cup {w}
    BY Zenon DEF PatternFails, AllocFails, TransferFails
  <1>2. fence' = fence \/ (th[w] = "io" /\ seg_unlock(w))
    BY Zenon DEF PatternFails, AllocFails, TransferFails
  <1>3. Fenced(rules, w, fence'[w])
    BY <1>2, WriterPos, UnlockAdvances, AdvancedFence, Zenon DEF WriterInv
  <1> QED BY <1>1, <1>3, Zenon DEF WriterInv

(* It closes the disk.                                                     *)
LEMMA CloseWriter ==
  ASSUME Shape, PosInv, NEW w \in Writers, Orderly(rules, w), WriterInv(w), CloseDisk(w)
  PROVE  WriterInv(w)'
  <1> PICK t : t = cur[w]
    BY Zenon
  <1> PICK u : u = Idle(t.num_blks, t.do_partial)
    BY Zenon
  <1>1. w \in Contexts /\ t \in Positions
    BY WriterPos, Zenon
  <1>2. /\ th[w] = "close" /\ rules' = rules /\ Goto(w, "none") /\ cur' = [cur EXCEPT ![w] = u]
        /\ written' = written /\ failed' = failed
        /\ fence' = [v \in Writers |-> IF v = w THEN [fence[v] EXCEPT !.status = "F"] ELSE fence[v]]
    BY Zenon DEF CloseDisk, disk
  <1>3. th'[w] = "none" /\ cur'[w] = u
    BY <1>1, <1>2, Zenon DEF Goto, Shape, PosInv
  <1>4. fence'[w].min_lba = fence[w].min_lba /\ fence'[w].max_lba = fence[w].max_lba
    <2>1. "F" \in {"F", "R"}
      BY Zenon
    <2> QED BY <1>2, <2>1, MarkFence, Zenon
  <1>5. u.do_partial = t.do_partial /\ u.oper_loop = 0
    <2>1. u = [blkno |-> 0, num_blks |-> t.num_blks, do_partial |-> t.do_partial, oper_loop |-> 0, draw |-> 0]
      BY Zenon DEF Idle
    <2> QED BY <2>1
  <1>6. "none" \notin Moving /\ "none" \notin Busy /\ "none" # "close" /\ "close" \notin Busy
    BY Zenon DEF Moving, Busy
  <1>7. w \notin failed => Writes(rules, w, "none", u, fence[w], written)
    <2>1. w \notin failed => Wrote(rules, w, "none", u, fence[w], written)
      BY <1>2, <1>5, <1>6, Zenon DEF WriterInv, Writes, Wrote
    <2>2. Lap(rules, w, "none", u, fence[w], written)
      BY <1>5, <1>6, Zenon DEF Lap
    <2> QED BY <2>1, <2>2, Zenon DEF Writes
  <1>8. w \notin failed => Writes(rules, w, "none", u, fence'[w], written)
    <2>1. written \subseteq written
      BY Zenon
    <2> QED BY <1>4, <1>7, <2>1, WritesMore, Zenon
  <1>9. Fenced(rules, w, fence'[w])
    BY <1>4, SameFence, Zenon DEF WriterInv
  <1> QED BY <1>2, <1>3, <1>8, <1>9, Zenon DEF WriterInv

(* The steps of a thread.                                                  *)
LEMMA ThreadWrites ==
  ASSUME Shape, Alive, PosInv, \A w \in Writers : Orderly(rules, w), WriteInv,
         NEW c \in Contexts, ThreadStep(c) \/ Fails(c)
  PROVE  WriteInv'
  <1>1. Others(c)
    BY StepOthers, Zenon
  <1> SUFFICES ASSUME c \in Writers PROVE WriterInv(c)'
    BY <1>1, OneWrites, Zenon
  <1>2. Orderly(rules, c) /\ WriterInv(c) /\ Pos(rules, c, th[c], cur[c])
    BY WriterPos, Zenon DEF WriteInv
  <1>3. CASE EndThread(c) \/ OpenFails(c)
    <2>1. UNCHANGED <<rules, th, cur, fence, written, failed>>
      BY <1>3, Zenon DEF EndThread, OpenFails, disk
    <2> QED BY <1>2, <2>1, Zenon DEF WriterInv
  <1>4. ~DrawBlock(c) /\ \A w \in Writers : ~DrawZone(c, w)
    <2>1. rules.rule[c].seek # "RANDOM"
      BY <1>2, Zenon DEF Orderly
    <2>2. th[c] # "draw" /\ th[c] # "aim"
      BY <1>2, <2>1, Zenon DEF Pos
    <2> QED BY <2>2, Zenon DEF DrawZone, DrawBlock
  <1> QED BY <1>2, <1>3, <1>4, StepsWriter, OpenWriter, NextWriter, TransferWriter, FailWriter, CloseWriter, Zenon
             DEF ThreadStep, Fails

(* The steps of main: new threads, and the start of those that wait.       *)
LEMMA MainWrites ==
  ASSUME Shape, Accounts, PosInv, WriteInv, MainStep
  PROVE  WriteInv'
  <1>1. rules' = rules /\ fence' = fence /\ written' = written /\ failed' = failed
    BY Zenon DEF MainStep, RunStanza, CreateThread, CountThread, StartThreads, FreeContexts, NextStanza, Cleanup,
                 GiveUp, Return, disk
  <1> SUFFICES ASSUME NEW w \in Writers PROVE WriterInv(w)'
    BY Zenon DEF WriteInv
  <1>2. WriterInv(w) /\ w \in Contexts
    BY WriterPos, Zenon DEF WriteInv
  <1>3. cur'[w] = cur[w]
    <2>1. CASE cur' = [c \in Contexts |-> IF c \in Readers THEN Populated(rules, c) ELSE cur[c]]
      <3>1. w \notin Readers
        BY RulesAssumption, Zenon
      <3> QED BY <1>2, <2>1, <3>1, Zenon
    <2>2. cur' = cur \/ cur' = [c \in Contexts |-> IF c \in Readers THEN Populated(rules, c) ELSE cur[c]]
      BY Zenon DEF MainStep, RunStanza, CreateThread, CountThread, StartThreads, FreeContexts, NextStanza, Cleanup,
                   GiveUp, Return
    <2> QED BY <2>1, <2>2, Zenon
  <1>4. CASE th'[w] = th[w]
    BY <1>1, <1>2, <1>3, <1>4, Zenon DEF WriterInv
  <1>5. CASE th[w] \in {"none", "waiting"} /\ th'[w] \in {"born", "ready"}
    <2>1. th[w] \notin Moving \cup Busy \cup {"close"} /\ th'[w] \notin Moving \cup Busy \cup {"close"}
      BY <1>5, Zenon DEF Moving, Busy
    <2>2. w \notin failed => Writes(rules, w, th'[w], cur[w], fence[w], written)
      BY <1>2, <2>1, WritesAway, Zenon DEF WriterInv
    <2> QED BY <1>1, <1>2, <1>3, <2>2, Zenon DEF WriterInv
  <1>6. \/ th' = th \/ (todo # <<>> /\ th[Head(todo)] = "none" /\ Goto(Head(todo), "born"))
        \/ th' = [c \in Contexts |-> IF th[c] = "waiting" THEN "ready" ELSE th[c]]
    BY Zenon DEF MainStep, RunStanza, CreateThread, CountThread, StartThreads, FreeContexts, NextStanza, Cleanup,
                 GiveUp, Return, Goto
  <1>7. th'[w] = th[w] \/ (th[w] \in {"none", "waiting"} /\ th'[w] \in {"born", "ready"})
    BY <1>2, <1>6, Zenon DEF Goto, Shape
  <1> QED BY <1>4, <1>5, <1>7, Zenon

(* At the start nothing has been written.                                  *)
LEMMA InitWrites ==
  ASSUME Init, PosInv, \A w \in Writers : Orderly(rules, w)
  PROVE  WriteInv
  <1> SUFFICES ASSUME NEW w \in Writers PROVE WriterInv(w)
    BY Zenon DEF WriteInv
  <1>1. w \in Contexts /\ Low(rules, w) \in Nat /\ High(rules, w) \in Nat /\ Low(rules, w) <= High(rules, w)
    BY WriterPos DEF Orderly, Sane
  <1>2. th[w] = "none" /\ cur[w] = Populated(rules, w) /\ fence[w] = initialize_fencepost(rules, w)
    BY <1>1, Zenon DEF Init
  <1> PICK b : b = IF Upward(rules, w) THEN Low(rules, w) ELSE High(rules, w)
    BY Zenon
  <1>3. fence[w] = [min_lba |-> b, max_lba |-> b, status |-> "F"]
    BY <1>2, Zenon DEF initialize_fencepost, Low, High, Upward
  <1>4. fence[w].min_lba = b /\ fence[w].max_lba = b
    BY <1>3
  <1>5. Fenced(rules, w, fence[w])
    BY <1>1, <1>4 DEF Fenced
  <1>6. cur[w].do_partial = 0 /\ cur[w].oper_loop = 0
    <2>1. cur[w] = [blkno |-> 0, num_blks |-> Whole(rules, w), do_partial |-> 0, oper_loop |-> 0, draw |-> 0]
      BY <1>2, Zenon DEF Populated, Idle, Whole
    <2> QED BY <2>1
  <1>7. "none" \notin Moving /\ "none" \notin Busy /\ "none" # "close"
    BY Zenon DEF Moving, Busy
  <1>8. Wrote(rules, w, "none", cur[w], fence[w], written)
    BY <1>4, <1>6, <1>7, Zenon DEF Wrote
  <1>9. Lap(rules, w, "none", cur[w], fence[w], written)
    BY <1>6, <1>7, Zenon DEF Lap
  <1> QED BY <1>2, <1>5, <1>8, <1>9, Zenon DEF WriterInv, Writes

(* The settings of the BWRC threads in every state.                        *)
LEMMA AllOrderly == ASSUME AllFit, AllInOrder, Shape PROVE \A w \in Writers : Orderly(rules, w)
  <1>1. \A w \in Writers : w \in Contexts
    BY Zenon DEF Contexts
  <1> QED BY <1>1, OrderlySettings, Zenon DEF AllFit, AllInOrder, Shape

(* main takes a step only while it runs.                                   *)
LEMMA MainAlive == ASSUME MainStep PROVE Alive
  <1>1. main \in {"stanza", "create", "created", "finished", "next", "leaving", "freed"}
    BY Zenon DEF MainStep, RunStanza, CreateThread, CountThread, StartThreads, FreeContexts,
                 NextStanza, Cleanup, GiveUp, Return
  <1> QED BY ONLY <1>1, Zenon DEF Alive

(* What has been written is right in every state.                          *)
LEMMA WriteInvariant == ASSUME AllFit, AllInOrder PROVE Spec => []WriteInv
  <1>1. Init /\ AllocInv /\ PosInv => WriteInv
    BY AllOrderly, InitWrites, Zenon DEF AllocInv
  <1>2. AllocInv /\ PosInv /\ WriteInv /\ [Next]_vars => WriteInv'
    <2> SUFFICES ASSUME AllocInv, PosInv, WriteInv, [Next]_vars PROVE WriteInv'
      BY Zenon
    <2>1. Shape /\ \A w \in Writers : Orderly(rules, w)
      BY AllOrderly, Zenon DEF AllocInv
    <2>2. CASE UNCHANGED vars \/ SIGTERM_hdl \/ sig_function
      <3>1. UNCHANGED <<rules, th, cur, fence, written, failed>>
        BY <2>2, Zenon DEF vars, SIGTERM_hdl, sig_function, disk
      <3> QED BY <3>1, Zenon DEF WriteInv, WriterInv
    <2>3. CASE MainStep
      BY <2>1, <2>3, MainAlive, MainWrites, Zenon DEF AllocInv
    <2>4. ASSUME NEW c \in Contexts, ThreadStep(c) \/ Fails(c) PROVE WriteInv'
      <3>1. Alive
        BY <2>4, Zenon DEF ThreadStep, Fails
      <3> QED BY <2>1, <2>4, <3>1, ThreadWrites, Zenon
    <2> QED BY <2>2, <2>3, <2>4, Zenon DEF Next
  <1> QED BY <1>1, <1>2, AllocInvariant, PosInvariant, PTL DEF Spec

(* A BWRC thread that writes its zone from one end to the other, as often  *)
(* as update_num_oper says, has written all of it at the end of its loop   *)
(* and left the fencepost around it: for any zone, transfer size and       *)
(* direction, whether or not the transfers fill the zone, in the first lap *)
(* and in every later one.                                                 *)
THEOREM LapsCoverZones ==
  ASSUME \A f \in RuleFiles : \A c \in Contexts : Fits(f, c),
         \A f \in RuleFiles : \A w \in Writers : InOrder(f, w) /\ WholeLap(f, w)
  PROVE  Spec => []LapCoversZone
  <1>1. AllFit /\ AllInOrder
    BY Zenon DEF AllFit, AllInOrder
  <1>2. AllocInv /\ WriteInv => LapCoversZone
    <2> SUFFICES ASSUME AllocInv, WriteInv, NEW w \in Writers, th[w] \in {"top", "close"},
                        cur[w].oper_loop >= ctx(w).num_oper, w \notin failed
                 PROVE  LET zone == ctx(w).min_blkno .. ctx(w).max_blkno
                        IN  zone \subseteq written /\ fence[w].min_lba .. fence[w].max_lba = zone
      BY Zenon DEF LapCoversZone
    <2>1. WholeLap(rules, w) /\ Writes(rules, w, th[w], cur[w], fence[w], written)
      BY Zenon DEF AllocInv, Shape, WriteInv, WriterInv
    <2>2. th[w] \in Moving \cup {"close"}
      BY Zenon DEF Moving
    <2>3. /\ fence[w].min_lba = Low(rules, w) /\ fence[w].max_lba = High(rules, w)
          /\ Inside(fence[w]) \subseteq written
      BY <2>1, <2>2, Zenon DEF Writes, Lap, ctx
    <2> QED BY <2>3, Names, Zenon DEF Inside
  <1> QED BY <1>1, <1>2, AllocInvariant, WriteInvariant, PTL

-----------------------------------------------------------------------------
(***************************************************************************)
(* What the readers compare.                                               *)
(***************************************************************************)
NoneFailed == failed \cap Writers = {}

(* The blocks of a reader at work have been written.                       *)
ReadsWritten(s, t, W) == s \in Busy => t.blkno .. (t.blkno + t.num_blks - 1) \subseteq W

(* A sequential reader that has waited for its fencepost can start again   *)
(* at any time, and whatever lies behind the fencepost has been written.   *)
CaughtUp(f, c, s, e, W) ==
  s \in {"top"} \cup Busy =>
    First(f, c) .. (First(f, c) + Whole(f, c) - 1) \subseteq W /\ Inside(e) \subseteq W

(* The blocks that a reader at random is about to take fit behind the      *)
(* fencepost, wherever it has been moved since the zone was drawn.         *)
Aims(f, t, e, W) ==
  /\ t.blkno = e.min_lba /\ t.num_blks <= High(f, t.draw) - Low(f, t.draw) + 1
  /\ t.num_blks >= 1 => Inside(e) \subseteq W /\ e.min_lba + t.num_blks - 1 <= e.max_lba

Sequential(c) == rules.rule[c].seek = "SEQ"

ReaderInv(c) ==
  /\ Sequential(c) /\ th[c] \notin {"top", "close"} \cup Busy => cur[c].num_blks = Whole(rules, c)
  /\ NoneFailed =>
       /\ ReadsWritten(th[c], cur[c], written)
       /\ Sequential(c) /\ ~exit_flag => CaughtUp(rules, c, th[c], fence[tctx[rules][c].zone], written)
       /\ th[c] = "aim" => Aims(rules, cur[c], fence[cur[c].draw], written)

ReadInv == \A c \in Readers : ReaderInv(c)

(* How a fencepost moves: it stays, or what lies behind it is written; one *)
(* that goes up keeps a whole transfer or reaches the end.                 *)
FenceMoves(f, w, e, d, V) ==
  \/ d.min_lba = e.min_lba /\ d.max_lba = e.max_lba
  \/ /\ Inside(d) \subseteq V
     /\ Upward(f, w) => /\ d.min_lba = e.min_lba
                        /\ d.max_lba = High(f, w) \/ Low(f, w) + Whole(f, w) - 1 <= d.max_lba

(* A move of the fencepost leaves a reader where it may go on.             *)
LEMMA CaughtUpKept ==
  ASSUME NEW f, NEW c, NEW s, NEW e, NEW W, CaughtUp(f, c, s, e, W), NEW w, NEW d, NEW V, W \subseteq V,
         FenceMoves(f, w, e, d, V)
  PROVE  CaughtUp(f, c, s, d, V)
  <1>1. \A S : S \subseteq W => S \subseteq V
    BY Zenon
  <1>2. d.min_lba = e.min_lba /\ d.max_lba = e.max_lba => Inside(d) = Inside(e)
    BY Zenon DEF Inside
  <1> QED BY <1>1, <1>2, Zenon DEF CaughtUp, FenceMoves

(* And one at random with its blocks behind it.                            *)
LEMMA AimsKept ==
  ASSUME NEW f, NEW t \in Positions, NEW e, NEW W, Aims(f, t, e, W), NEW d, NEW V, W \subseteq V,
         FenceMoves(f, t.draw, e, d, V), Sane(f, t.draw), Upward(f, t.draw),
         Fenced(f, t.draw, e), Fenced(f, t.draw, d), t.num_blks <= Whole(f, t.draw)
  PROVE  Aims(f, t, d, V)
  <1> PICK w : w = t.draw
    BY Zenon
  <1>1. Inside(e) \subseteq W => Inside(e) \subseteq V
    BY Zenon
  <1>2. d.min_lba = e.min_lba /\ d.max_lba = e.max_lba => Inside(d) = Inside(e)
    BY Zenon DEF Inside
  <1>3. Low(f, w) \in Nat /\ High(f, w) \in Nat /\ Whole(f, w) \in Nat /\ t.num_blks \in Int
    BY Zenon DEF Sane, Positions
  <1>4. /\ e.min_lba = Low(f, w) /\ e.max_lba \in Low(f, w) .. High(f, w)
        /\ d.min_lba = Low(f, w) /\ d.max_lba \in Low(f, w) .. High(f, w)
    BY Zenon DEF Fenced
  <1>5. \/ d.min_lba = e.min_lba /\ d.max_lba = e.max_lba
        \/ Inside(d) \subseteq V /\ (d.max_lba = High(f, w) \/ Low(f, w) + Whole(f, w) - 1 <= d.max_lba)
    BY Zenon DEF FenceMoves
  <1>6. t.num_blks >= 1 => Inside(d) \subseteq V
    BY <1>1, <1>2, <1>5, Zenon DEF Aims
  <1>7. t.num_blks >= 1 => d.min_lba + t.num_blks - 1 <= d.max_lba
    BY <1>3, <1>4, <1>5 DEF Aims
  <1>8. t.blkno = d.min_lba /\ t.num_blks <= High(f, w) - Low(f, w) + 1
    BY <1>4, Zenon DEF Aims
  <1> QED BY <1>6, <1>7, <1>8, Zenon DEF Aims

(* A step moves the fenceposts so, as long as no BWRC thread fails.        *)
LEMMA FenceStep ==
  ASSUME Shape, PosInv, WriteInv, \A w \in Writers : Orderly(rules, w),
         NEW c \in Contexts, ThreadStep(c) \/ Fails(c), NoneFailed', NEW w \in Writers
  PROVE  FenceMoves(rules, w, fence[w], fence'[w], written')
  <1>1. Others(c) /\ Orderly(rules, w) /\ WriterInv(w)
    BY StepOthers, Zenon DEF WriteInv
  <1>2. w \notin failed' /\ w \notin failed
    BY <1>1, Zenon DEF NoneFailed, Others
  <1>3. CASE fence'[w] = fence[w]
    BY <1>3, Zenon DEF FenceMoves
  <1>4. CASE w = c /\ (OpenDisk(c) \/ CloseDisk(c))
    <2>1. "F" \in {"F", "R"} /\ "R" \in {"F", "R"}
      BY Zenon
    <2>2. PICK z \in {"F", "R"} :
            fence' = [v \in Writers |-> IF v = c THEN [fence[v] EXCEPT !.status = z] ELSE fence[v]]
      BY <1>4, <2>1, Zenon DEF OpenDisk, CloseDisk
    <2>3. fence'[w].min_lba = fence[w].min_lba /\ fence'[w].max_lba = fence[w].max_lba
      BY <2>2, MarkFence, Zenon
    <2> QED BY <2>3, Zenon DEF FenceMoves
  <1>5. CASE w = c /\ Transfer(c)
    <2>1. Inside(fence'[w]) \subseteq written'
      BY <1>1, <1>2, <1>5, TransferWriter, Zenon
    <2>2. th[w] = "io" /\ Advanced(rules, w, cur[w], fence[w], fence'[w])
      BY <1>5, UnlockAdvances, Zenon DEF Transfer
    <2>3. "io" \in Busy
      BY Zenon DEF Busy
    <2>4. cur[w] \in Positions /\ Pos(rules, w, "io", cur[w]) /\ Writes(rules, w, "io", cur[w], fence[w], written)
      BY <1>1, <1>2, <2>2, WriterPos, Zenon DEF WriterInv
    <2>5. /\ Low(rules, w) <= cur[w].blkno /\ (cur[w].do_partial = 0 => cur[w].num_blks = Whole(rules, w))
          /\ cur[w].do_partial \in {0, 1} /\ cur[w].blkno \in Int /\ cur[w].num_blks \in Int
      BY <1>1, <2>3, <2>4, Zenon DEF Pos, Orderly, Positions
    <2>6. Upward(rules, w) /\ cur[w].do_partial = 1 => cur[w].blkno + cur[w].num_blks - 1 = High(rules, w)
      BY <2>3, <2>4, Zenon DEF Writes, Wrote
    <2>7. Low(rules, w) \in Int /\ High(rules, w) \in Int /\ Whole(rules, w) \in Int
      BY <1>1 DEF Orderly, Sane
    <2>8. Upward(rules, w) =>
            /\ fence'[w].min_lba = fence[w].min_lba
            /\ fence'[w].max_lba = cur[w].blkno + cur[w].num_blks - 1
      BY <2>2, Zenon DEF Advanced
    <2>9. Upward(rules, w) =>
            \/ fence'[w].max_lba = High(rules, w)
            \/ Low(rules, w) + Whole(rules, w) - 1 <= fence'[w].max_lba
      BY <2>5, <2>6, <2>7, <2>8
    <2> QED BY <2>1, <2>8, <2>9, Zenon DEF FenceMoves
  <1>6. w = c => ~PatternFails(c) /\ ~AllocFails(c) /\ ~TransferFails(c)
    BY <1>1, <1>2, FailWriter, Zenon
  <1>7. \/ w # c \/ fence' = fence \/ OpenDisk(c) \/ CloseDisk(c) \/ Transfer(c)
    BY <1>6, Zenon DEF ThreadStep, Fails, Announce, Proceed, wait_for_fencepost_catchup, Leave, NextBlocks,
                       DrawZone, DrawBlock, LockBlocks, EndThread, OpenFails
  <1> QED BY <1>1, <1>3, <1>4, <1>5, <1>7, Zenon DEF Others

-----------------------------------------------------------------------------
(* The settings of a reader.                                               *)
Following(f, c) ==
  /\ c \in Contexts /\ c \notin Writers /\ Sane(f, c) /\ tctx[f][c].zone \in Writers
  /\ f.rule[c].seek = "SEQ" => Whole(f, c) > 1
  /\ f.rule[c].seek = "RANDOM" => \A w \in Writers : Upward(f, w) /\ Whole(f, c) <= Whole(f, w)

(* What a step of main or of another thread leaves to a reader.            *)
LEMMA KeepsReader ==
  ASSUME PosInv, WriteInv, WriteInv', \A w \in Writers : Orderly(rules, w),
         NEW c \in Readers, Following(rules, c), ReaderInv(c), rules' = rules, th'[c] = th[c], cur'[c] = cur[c],
         written \subseteq written', failed \subseteq failed', exit_flag => exit_flag',
         NoneFailed' => \A w \in Writers : FenceMoves(rules, w, fence[w], fence'[w], written')
  PROVE  ReaderInv(c)'
  <1> PICK z : z = tctx[rules][c].zone
    BY Zenon
  <1> PICK t : t = cur[c]
    BY Zenon
  <1>1. c \in Contexts /\ z \in Writers
    BY Zenon DEF Following
  <1>2. Sequential(c)' <=> Sequential(c)
    BY Zenon DEF Sequential
  <1>3. ASSUME NoneFailed'
        PROVE  /\ ReadsWritten(th[c], t, written')
               /\ Sequential(c) /\ ~exit_flag' => CaughtUp(rules, c, th[c], fence'[z], written')
               /\ th[c] = "aim" => Aims(rules, t, fence'[t.draw], written')
    <2>1. NoneFailed
      BY <1>3, Zenon DEF NoneFailed
    <2>2. ReadsWritten(th[c], t, written')
      BY <2>1, Zenon DEF ReaderInv, ReadsWritten
    <2>3. Sequential(c) /\ ~exit_flag' => CaughtUp(rules, c, th[c], fence'[z], written')
      <3>1. Sequential(c) /\ ~exit_flag' => CaughtUp(rules, c, th[c], fence[z], written)
        BY <2>1, Zenon DEF ReaderInv
      <3>2. FenceMoves(rules, z, fence[z], fence'[z], written')
        BY <1>1, <1>3, Zenon
      <3> QED BY <3>1, <3>2, CaughtUpKept, Zenon
    <2>4. ASSUME th[c] = "aim" PROVE Aims(rules, t, fence'[t.draw], written')
      <3>1. t.draw \in Writers /\ Pos(rules, c, "aim", t)
        BY <1>1, <2>4, Zenon DEF PosInv
      <3>2. t \in Positions /\ rules.rule[c].seek \in {"SEQ", "RANDOM"}
        BY <1>1, Zenon DEF PosInv, Following, Sane
      <3>3. rules.rule[c].seek = "RANDOM" /\ t.num_blks <= Whole(rules, c)
        BY <3>1, <3>2, Zenon DEF Pos
      <3>4. Aims(rules, t, fence[t.draw], written)
        BY <2>1, <2>4, Zenon DEF ReaderInv
      <3>5. FenceMoves(rules, t.draw, fence[t.draw], fence'[t.draw], written')
        BY <1>3, <3>1, Zenon
      <3>6. Sane(rules, t.draw) /\ Upward(rules, t.draw) /\ Whole(rules, c) <= Whole(rules, t.draw)
        BY <3>1, <3>3, Zenon DEF Orderly, Following
      <3>7. Fenced(rules, t.draw, fence[t.draw]) /\ Fenced(rules, t.draw, fence'[t.draw])
        BY <3>1, Zenon DEF WriteInv, WriterInv
      <3>8. t.num_blks <= Whole(rules, t.draw)
        <4>1. t.num_blks \in Int /\ Whole(rules, c) \in Int /\ Whole(rules, t.draw) \in Int
          BY <3>2, <3>6 DEF Positions, Following, Sane
        <4> QED BY <3>3, <3>6, <4>1
      <3> QED BY <3>2, <3>4, <3>5, <3>6, <3>7, <3>8, AimsKept, Zenon
    <2> QED BY <2>2, <2>3, <2>4, Zenon
  <1> QED BY <1>2, <1>3, Zenon DEF ReaderInv

(* A reader moves to a place where nothing is said of its blocks.          *)
LEMMA AwayReader ==
  ASSUME NEW c \in Readers, rules' = rules, th'[c] \notin Busy \cup {"aim"},
         Sequential(c) => th'[c] # "top" /\ (th'[c] # "close" => cur'[c].num_blks = Whole(rules, c))
  PROVE  ReaderInv(c)'
  <1>1. Sequential(c)' <=> Sequential(c)
    BY Zenon DEF Sequential
  <1>2. th'[c] \notin Busy /\ th'[c] # "aim"
    BY Zenon
  <1>3. Sequential(c) => th'[c] \notin {"top"} \cup Busy
    BY <1>2, Zenon
  <1> QED BY <1>1, <1>2, <1>3, Zenon DEF ReaderInv, ReadsWritten, CaughtUp

(* The position of a reader.                                               *)
LEMMA ReaderPos ==
  ASSUME PosInv, NEW c \in Contexts
  PROVE  cur[c] \in Positions /\ Pos(rules, c, th[c], cur[c])
  <1>1. cur[c] \in Positions
    BY Zenon DEF PosInv
  <1> QED BY <1>1, Zenon DEF PosInv

(* The steps by which a reader begins and ends.                            *)
LEMMA StepsReader ==
  ASSUME Shape, PosInv, NEW c \in Readers, Following(rules, c), ReaderInv(c),
         Announce(c) \/ Proceed(c) \/ Leave(c) \/ PatternFails(c) \/ AllocFails(c) \/ TransferFails(c)
  PROVE  ReaderInv(c)'
  <1>1. rules' = rules /\ cur' = cur /\ c \in Contexts
    BY Zenon DEF Announce, Proceed, Leave, PatternFails, AllocFails, TransferFails, Following
  <1>2. \/ th[c] = "born" /\ Goto(c, "waiting")
        \/ th[c] = "ready" /\ Goto(c, "open")
        \/ Goto(c, "close")
    BY Zenon DEF Announce, Proceed, Leave, PatternFails, AllocFails, TransferFails
  <1>3. \/ th[c] \in {"born", "ready"} /\ th'[c] \in {"waiting", "open"}
        \/ th'[c] = "close"
    BY <1>1, <1>2, Zenon DEF Goto, Shape
  <1>4. th'[c] \notin Busy \cup {"aim"} /\ th'[c] # "top"
    BY <1>3, Zenon DEF Busy
  <1>5. th'[c] # "close" => th[c] \notin {"top", "close"} \cup Busy
    BY <1>3, Zenon DEF Busy
  <1>6. Sequential(c) /\ th'[c] # "close" => cur'[c].num_blks = Whole(rules, c)
    BY <1>1, <1>5, Zenon DEF ReaderInv
  <1> QED BY <1>1, <1>4, <1>6, AwayReader, Zenon

(* It opens the disk, and closes it.                                       *)
LEMMA OpenReader ==
  ASSUME Shape, PosInv, NEW c \in Readers, Following(rules, c), ReaderInv(c), OpenDisk(c)
  PROVE  ReaderInv(c)'
  <1> PICK t : t = cur[c]
    BY Zenon
  <1>1. c \in Contexts /\ t \in Positions
    BY ReaderPos, Zenon DEF Following
  <1>2. /\ th[c] = "open" /\ rules' = rules
        /\ Goto(c, IF Sequential(c) THEN "catchup" ELSE "top")
        /\ cur' = [cur EXCEPT ![c] = IF Sequential(c) THEN init_blkno(c, t) ELSE t]
    BY Zenon DEF OpenDisk, Sequential, rule
  <1>3. th'[c] = IF Sequential(c) THEN "catchup" ELSE "top"
    BY <1>1, <1>2, Zenon DEF Goto, Shape
  <1>4. th'[c] \notin Busy \cup {"aim"} /\ (Sequential(c) => th'[c] # "top")
    BY <1>3, Zenon DEF Busy
  <1>5. ASSUME Sequential(c) PROVE cur'[c].num_blks = Whole(rules, c)
    <2> PICK u : u = init_blkno(c, t)
      BY Zenon
    <2>1. cur'[c] = u
      BY <1>1, <1>2, <1>5, Zenon DEF PosInv
    <2>2. IsSet(u, t, First(rules, c), t.num_blks, t.do_partial)
      BY <1>1, Names, SetBlkno, Zenon DEF init_blkno, Following, Sane
    <2>3. th[c] \notin {"top", "close"} \cup Busy
      BY <1>2, Zenon DEF Busy
    <2>4. t.num_blks = Whole(rules, c)
      BY <1>5, <2>3, Zenon DEF ReaderInv
    <2> QED BY <2>1, <2>2, <2>4, Zenon DEF IsSet
  <1> QED BY <1>2, <1>4, <1>5, AwayReader, Zenon

(* It closes the disk.                                                     *)
LEMMA CloseReader ==
  ASSUME Shape, PosInv, NEW c \in Readers, Following(rules, c), ReaderInv(c), CloseDisk(c)
  PROVE  ReaderInv(c)'
  <1>1. c \in Contexts /\ c \notin Writers
    BY Zenon DEF Following
  <1> PICK u : u = Populated(rules, c)
    BY Zenon
  <1>2. rules' = rules /\ Goto(c, "none") /\ cur' = [cur EXCEPT ![c] = u]
    BY <1>1, Zenon DEF CloseDisk
  <1>3. th'[c] = "none" /\ cur'[c] = u
    BY <1>1, <1>2, Zenon DEF Goto, Shape, PosInv
  <1>4. u.num_blks = Whole(rules, c)
    <2>1. u = [blkno |-> 0, num_blks |-> Whole(rules, c), do_partial |-> 0, oper_loop |-> 0, draw |-> 0]
      BY Zenon DEF Populated, Idle, Whole
    <2> QED BY <2>1
  <1>5. th'[c] \notin Busy \cup {"aim"} /\ th'[c] # "top"
    BY <1>3, Zenon DEF Busy
  <1> QED BY <1>2, <1>3, <1>4, <1>5, AwayReader, Zenon

(* A reader at work moves to another place, with another context.          *)
LEMMA WorksReader ==
  ASSUME NEW c \in Readers, Following(rules, c), NEW s \in {"top", "aim"} \cup Busy, NEW u,
         rules' = rules, exit_flag' = exit_flag, failed' = failed, written' = written, th'[c] = s, cur'[c] = u,
         \A w \in Writers : fence'[w] = fence[w],
         s = "aim" => ~Sequential(c) /\ u.draw \in Writers,
         NoneFailed =>
           /\ ReadsWritten(s, u, written)
           /\ Sequential(c) /\ ~exit_flag => CaughtUp(rules, c, s, fence[tctx[rules][c].zone], written)
           /\ s = "aim" => Aims(rules, u, fence[u.draw], written)
  PROVE  ReaderInv(c)'
  <1>1. (Sequential(c)' <=> Sequential(c)) /\ (NoneFailed' <=> NoneFailed)
    BY Zenon DEF Sequential, NoneFailed
  <1>2. fence'[tctx[rules][c].zone] = fence[tctx[rules][c].zone]
    BY Zenon DEF Following
  <1>3. Sequential(c) => s \in {"top", "close"} \cup Busy
    BY Zenon
  <1>4. s = "aim" => fence'[u.draw] = fence[u.draw]
    BY Zenon
  <1> QED BY <1>1, <1>2, <1>3, <1>4, Zenon DEF ReaderInv

(* It has waited until its first blocks lie behind the fencepost.          *)
LEMMA CatchupReader ==
  ASSUME Shape, PosInv, WriteInv, NEW c \in Readers, Following(rules, c), ReaderInv(c), Others(c),
         \A w \in Writers : Orderly(rules, w), wait_for_fencepost_catchup(c)
  PROVE  ReaderInv(c)'
  <1> PICK z : z = tctx[rules][c].zone
    BY Zenon
  <1> PICK e : e = fence[z]
    BY Zenon
  <1>1. c \in Contexts /\ c \notin Writers /\ z \in Writers
    BY Zenon DEF Following
  <1>2. /\ th[c] = "catchup" /\ (exit_flag \/ Behind(z, First(rules, c), cur[c].num_blks)) /\ Goto(c, "top")
        /\ cur' = cur /\ written' = written /\ failed' = failed
    BY Names, Zenon DEF wait_for_fencepost_catchup, ctx, disk
  <1>3. th'[c] = "top" /\ "top" \notin Busy /\ "top" # "aim"
    BY <1>1, <1>2, Zenon DEF Goto, Shape, Busy
  <1>4. ASSUME NoneFailed, Sequential(c), ~exit_flag PROVE CaughtUp(rules, c, "top", e, written)
    <2>1. cur[c].num_blks = Whole(rules, c)
      <3>1. th[c] \notin {"top", "close"} \cup Busy
        BY <1>2, Zenon DEF Busy
      <3> QED BY <1>4, <3>1, Zenon DEF ReaderInv
    <2>2. First(rules, c) >= e.min_lba /\ First(rules, c) + Whole(rules, c) - 1 <= e.max_lba
      BY <1>2, <1>4, <2>1, Zenon DEF Behind
    <2>3. First(rules, c) \in Int /\ Whole(rules, c) \in Int /\ Whole(rules, c) > 1
      BY <1>4 DEF Following, Sane, Sequential
    <2>4. e.min_lba \in Int /\ e.max_lba \in Int
      BY <1>1, WriterPos, Zenon DEF Fenceposts
    <2>5. e.min_lba # e.max_lba
      BY <2>2, <2>3, <2>4
    <2>6. Inside(e) \subseteq written
      <3>1. z \notin failed
        BY <1>1, <1>4, Zenon DEF NoneFailed
      <3> QED BY <1>1, <2>5, <3>1, Zenon DEF WriteInv, WriterInv, Writes, Wrote
    <2>7. First(rules, c) .. (First(rules, c) + Whole(rules, c) - 1) \subseteq Inside(e)
      BY <2>2, <2>3, <2>4 DEF Inside
    <2> QED BY <2>6, <2>7, Zenon DEF CaughtUp
  <1>5. ReadsWritten("top", cur[c], written)
    BY <1>3, Zenon DEF ReadsWritten
  <1>6. rules' = rules /\ exit_flag' = exit_flag /\ \A w \in Writers : fence'[w] = fence[w]
    BY <1>1, Zenon DEF Others
  <1>7. "top" \in {"top", "aim"} \cup Busy /\ cur'[c] = cur[c]
    BY <1>2, Zenon
  <1> QED BY <1>2, <1>3, <1>4, <1>5, <1>6, <1>7, WorksReader, Zenon

(* It goes on behind the fencepost, or starts again.                       *)
LEMMA NextReader ==
  ASSUME Shape, PosInv, NEW c \in Readers, Following(rules, c), ReaderInv(c), Others(c), NextBlocks(c)
  PROVE  ReaderInv(c)'
  <1> PICK z : z = tctx[rules][c].zone
    BY Zenon
  <1> PICK e : e = fence[z]
    BY Zenon
  <1> PICK t : t = cur[c]
    BY Zenon
  <1>1. c \in Contexts /\ c \notin Writers /\ z \in Writers /\ Sane(rules, c)
    BY Zenon DEF Following
  <1>2. t \in Positions /\ th[c] = "top" /\ Pos(rules, c, "top", t) /\ ~exit_flag /\ rules' = rules
    BY <1>1, ReaderPos, Zenon DEF NextBlocks, Stopping
  <1>3. CASE rule(c).seek = "RANDOM"
    <2>1. Goto(c, "draw")
      BY <1>3, Zenon DEF NextBlocks
    <2>2. th'[c] = "draw" /\ ~Sequential(c)
      BY <1>1, <1>3, <2>1, Zenon DEF Goto, Shape, Sequential, rule
    <2>3. th'[c] \notin Busy \cup {"aim"}
      BY <2>2, Zenon DEF Busy
    <2> QED BY <1>2, <2>2, <2>3, AwayReader, Zenon
  <1>4. CASE rule(c).seek # "RANDOM"
    <2> PICK v : v = do_boundary_check(c, t)
      BY Zenon
    <2> PICK u : u = do_fencepost_check(c, v)
      BY Zenon
    <2>1. /\ Goto(c, "lock") /\ cur' = [cur EXCEPT ![c] = u] /\ written' = written /\ failed' = failed
      BY <1>4, Zenon DEF NextBlocks, disk
    <2>2. rules.rule[c].seek = "SEQ"
      BY <1>1, <1>4, Names, Zenon DEF Sane
    <2>3. th'[c] = "lock" /\ cur'[c] = u /\ "lock" \in Busy /\ "lock" # "aim"
      BY <1>1, <2>1, Zenon DEF Goto, Shape, Busy, PosInv
    <2>4. v \in Positions /\ Pos(rules, c, "lock", v)
      BY <1>1, <1>2, <2>2, BoundaryPos, Zenon
    <2>5. ASSUME NoneFailed
          PROVE  ReadsWritten("lock", u, written) /\ CaughtUp(rules, c, "lock", e, written)
      <3>1. First(rules, c) .. (First(rules, c) + Whole(rules, c) - 1) \subseteq written /\ Inside(e) \subseteq written
        <4>1. th[c] \in {"top"} \cup Busy
          BY <1>2, Zenon
        <4> QED BY <1>2, <2>2, <2>5, <4>1, Zenon DEF ReaderInv, CaughtUp, Sequential
      <3>2. /\ v.num_blks \in Int /\ v.num_blks <= Whole(rules, c) /\ First(rules, c) \in Int /\ Whole(rules, c) \in Int
            /\ v.blkno \in Int
        <4>1. v.num_blks \in 1 .. Whole(rules, c)
          BY <2>2, <2>4, Zenon DEF Pos
        <4> QED BY <1>1, <2>4, <4>1 DEF Sane, Positions
      <3>3. CASE Behind(z, v.blkno, v.num_blks)
        <4>1. u = v
          BY <3>3, Zenon DEF do_fencepost_check, ctx
        <4>2. v.blkno >= e.min_lba /\ v.blkno + v.num_blks - 1 <= e.max_lba
          BY <3>3, Zenon DEF Behind
        <4>3. e.min_lba \in Int /\ e.max_lba \in Int
          BY <1>1, WriterPos, Zenon DEF Fenceposts
        <4>4. v.blkno .. (v.blkno + v.num_blks - 1) \subseteq Inside(e)
          <5>1. PICK b, n, x, y : b = v.blkno /\ n = v.num_blks /\ x = e.min_lba /\ y = e.max_lba
            BY Zenon
          <5>2. b \in Int /\ n \in Int /\ x \in Int /\ y \in Int /\ b >= x /\ b + n - 1 <= y
            BY <3>2, <4>2, <4>3, <5>1, Zenon
          <5>3. b .. (b + n - 1) \subseteq x .. y
            BY ONLY <5>2
          <5> QED BY <5>1, <5>3, Zenon DEF Inside
        <4> QED BY <3>1, <4>1, <4>4, Zenon DEF ReadsWritten, CaughtUp
      <3>4. CASE ~Behind(z, v.blkno, v.num_blks)
        <4>1. u = [v EXCEPT !.blkno = First(rules, c)]
          BY <3>4, Zenon DEF do_fencepost_check, ctx, init_blkno, First
        <4>2. IsSet(u, v, First(rules, c), v.num_blks, v.do_partial)
          BY <2>4, <3>2, <4>1, SetBlkno, Zenon
        <4>3. u.blkno = First(rules, c) /\ u.num_blks = v.num_blks
          BY <4>2, Zenon DEF IsSet
        <4>4. u.blkno .. (u.blkno + u.num_blks - 1) \subseteq First(rules, c) .. (First(rules, c) + Whole(rules, c) - 1)
          BY <3>2, <4>3
        <4> QED BY <3>1, <4>4, Zenon DEF ReadsWritten, CaughtUp
      <3> QED BY <3>3, <3>4, Zenon
    <2>6. exit_flag' = exit_flag /\ \A w \in Writers : fence'[w] = fence[w]
      BY <1>1, Zenon DEF Others
    <2>7. "lock" \in {"top", "aim"} \cup Busy
      BY <2>3, Zenon
    <2> QED BY <1>2, <2>1, <2>3, <2>5, <2>6, <2>7, WorksReader, Zenon
  <1> QED BY <1>3, <1>4, Zenon

(* It draws a zone in which enough has been written.                       *)
LEMMA DrawZoneReader ==
  ASSUME Shape, PosInv, WriteInv, NEW c \in Readers, Following(rules, c), Others(c),
         \A w \in Writers : Orderly(rules, w), NEW w \in Writers, DrawZone(c, w)
  PROVE  ReaderInv(c)'
  <1> PICK t : t = cur[c]
    BY Zenon
  <1> PICK e : e = fence[w]
    BY Zenon
  <1> PICK lo : lo = e.min_lba
    BY Zenon
  <1> PICK hi : hi = e.max_lba
    BY Zenon
  <1> PICK n : n = IF lo # hi /\ hi - lo + 1 > t.num_blks THEN t.num_blks ELSE hi - lo
    BY Zenon
  <1> PICK v : v = [t EXCEPT !.draw = w]
    BY Zenon
  <1> PICK x : x = [v EXCEPT !.blkno = lo]
    BY Zenon
  <1> PICK u : u = [x EXCEPT !.num_blks = n]
    BY Zenon
  <1>1. /\ c \in Contexts /\ c \notin Writers /\ t \in Positions /\ th[c] = "draw" /\ Pos(rules, c, "draw", t)
        /\ Sane(rules, c)
    BY ReaderPos, Zenon DEF Following, DrawZone
  <1>2. Goto(c, "aim") /\ cur' = [cur EXCEPT ![c] = u] /\ written' = written /\ failed' = failed
    BY Zenon DEF DrawZone, disk
  <1>3. th'[c] = "aim" /\ cur'[c] = u /\ "aim" \notin Busy
    BY <1>1, <1>2, Zenon DEF Goto, Shape, PosInv, Busy
  <1>4. rules.rule[c].seek = "RANDOM" /\ ~Sequential(c)
    BY <1>1, Zenon DEF Pos, Sane, Sequential
  <1>5. Fenced(rules, w, e) /\ Upward(rules, w) /\ Sane(rules, w)
    BY <1>4, Zenon DEF WriteInv, WriterInv, Following, Orderly
  <1>6. /\ lo \in Int /\ hi \in Int /\ t.num_blks \in Int /\ n \in Int
        /\ Low(rules, w) \in Int /\ High(rules, w) \in Int
    BY <1>1, <1>5, WriterPos DEF Fenceposts, Positions, Sane
  <1>7. lo = Low(rules, w) /\ hi \in Low(rules, w) .. High(rules, w)
    BY <1>5, Zenon DEF Fenced
  <1>8. u.blkno = lo /\ u.num_blks = n /\ u.draw = w
    <2>1. v \in Positions /\ v.draw = w
      BY <1>1, Zenon DEF Positions
    <2>2. IsSet(x, v, lo, v.num_blks, v.do_partial)
      BY <1>6, <2>1, SetBlkno, Zenon
    <2>3. x \in Positions
      BY <2>2, Zenon DEF IsSet
    <2>4. IsSet(u, x, x.blkno, n, x.do_partial)
      BY <1>6, <2>3, SetNum, Zenon
    <2> QED BY <2>1, <2>2, <2>4, Zenon DEF IsSet
  <1>9. ASSUME NoneFailed PROVE Aims(rules, u, e, written)
    <2>1. n <= High(rules, w) - Low(rules, w) + 1 /\ (n >= 1 => lo # hi /\ lo + n - 1 <= hi)
      BY <1>6, <1>7
    <2>2. lo = hi \/ Inside(e) \subseteq written
      <3>1. w \notin failed
        BY <1>9, Zenon DEF NoneFailed
      <3> QED BY <3>1, Zenon DEF WriteInv, WriterInv, Writes, Wrote
    <2> QED BY <1>8, <2>1, <2>2, Zenon DEF Aims
  <1>10. ReadsWritten("aim", u, written)
    BY <1>3, Zenon DEF ReadsWritten
  <1>11. rules' = rules /\ exit_flag' = exit_flag /\ \A y \in Writers : fence'[y] = fence[y]
    BY <1>1, Zenon DEF Others
  <1>12. "aim" \in {"top", "aim"} \cup Busy
    BY Zenon
  <1>13. u.draw \in Writers /\ (NoneFailed => Aims(rules, u, fence[u.draw], written))
    BY <1>8, <1>9, Zenon
  <1> QED BY <1>2, <1>3, <1>4, <1>10, <1>11, <1>12, <1>13, WorksReader, Zenon

(* It draws a block there.                                                 *)
LEMMA DrawBlockReader ==
  ASSUME Shape, PosInv, NEW c \in Readers, Following(rules, c), ReaderInv(c), Others(c), DrawBlock(c), main' # "died"
  PROVE  ReaderInv(c)'
  <1> PICK t : t = cur[c]
    BY Zenon
  <1>1. /\ c \in Contexts /\ c \notin Writers /\ t \in Positions /\ th[c] = "aim" /\ Pos(rules, c, "aim", t)
        /\ t.draw \in Writers /\ Sane(rules, c)
    BY ReaderPos, Zenon DEF Following, DrawBlock, PosInv
  <1> PICK e : e = fence[t.draw]
    BY Zenon
  <1>2. PICK base \in {t.blkno, e.min_lba}, low \in {t.blkno, e.min_lba} :
          LET m == e.max_lba - low - t.num_blks + 1
          IN  IF m = 0
              THEN main' = "died"
              ELSE /\ \E x \in (IF m > 0 THEN 0 .. (m - 1) ELSE Lba) :
                        cur' = [cur EXCEPT ![c] = [t EXCEPT !.draw = 0, !.blkno = base + x]]
                   /\ Goto(c, "lock")
    <2>1. \E base \in {t.blkno, e.min_lba}, low \in {t.blkno, e.min_lba} :
            LET m == e.max_lba - low - t.num_blks + 1
            IN  IF m = 0
                THEN main' = "died"
                ELSE /\ \E x \in (IF m > 0 THEN 0 .. (m - 1) ELSE Lba) :
                          cur' = [cur EXCEPT ![c] = [t EXCEPT !.draw = 0, !.blkno = base + x]]
                     /\ Goto(c, "lock")
      BY Zenon DEF DrawBlock
    <2> QED BY <2>1, Zenon
  <1> PICK m : m = e.max_lba - low - t.num_blks + 1
    BY Zenon
  <1>3. PICK x \in (IF m > 0 THEN 0 .. (m - 1) ELSE Lba) :
             cur' = [cur EXCEPT ![c] = [t EXCEPT !.draw = 0, !.blkno = base + x]]
    BY <1>2, Zenon
  <1>4. m # 0 /\ Goto(c, "lock") /\ written' = written /\ failed' = failed
    BY <1>2, Zenon DEF DrawBlock, disk
  <1>5. e.min_lba \in Int /\ e.max_lba \in Int /\ t.blkno \in Int /\ t.num_blks \in Int
    BY <1>1, WriterPos, Zenon DEF Fenceposts, Positions
  <1>6. m \in Int /\ x \in Int /\ base + x \in Int
    <2>1. m \in Int
      BY <1>5
    <2>2. x \in Int
      BY <2>1, RulesAssumption
    <2> QED BY <1>5, <2>1, <2>2
  <1> PICK v : v = [t EXCEPT !.draw = 0]
    BY Zenon
  <1> PICK u : u = [v EXCEPT !.blkno = base + x]
    BY Zenon
  <1>7. cur' = [cur EXCEPT ![c] = u]
    BY <1>3, Zenon
  <1>8. u.num_blks = t.num_blks /\ u.blkno = base + x
    <2>1. v \in Positions /\ v.num_blks = t.num_blks
      BY <1>1, Zenon DEF Positions
    <2>2. IsSet(u, v, base + x, v.num_blks, v.do_partial)
      BY <1>6, <2>1, SetBlkno, Zenon
    <2> QED BY <2>1, <2>2, Zenon DEF IsSet
  <1>9. th'[c] = "lock" /\ cur'[c] = u /\ "lock" \in Busy /\ "lock" # "aim"
    BY <1>1, <1>4, <1>7, Zenon DEF Goto, Shape, Busy, PosInv
  <1>10. ~Sequential(c)
    BY <1>1, Zenon DEF Pos, Sane, Sequential
  <1>11. ASSUME NoneFailed PROVE ReadsWritten("lock", u, written)
    <2>1. Aims(rules, t, e, written)
      BY <1>1, <1>11, Zenon DEF ReaderInv
    <2>2. base = e.min_lba /\ low = e.min_lba
      BY <2>1, Zenon DEF Aims
    <2>3. CASE t.num_blks >= 1
      <3>1. Inside(e) \subseteq written /\ e.min_lba + t.num_blks - 1 <= e.max_lba
        BY <2>1, <2>3, Zenon DEF Aims
      <3>2. m > 0
        BY <1>4, <1>5, <2>2, <3>1
      <3>3. x \in 0 .. (m - 1)
        BY <1>3, <3>2, Zenon
      <3>4. u.blkno .. (u.blkno + u.num_blks - 1) \subseteq Inside(e)
        BY <1>5, <1>6, <1>8, <2>2, <3>2, <3>3 DEF Inside
      <3> QED BY <3>1, <3>4, Zenon DEF ReadsWritten
    <2>4. CASE ~(t.num_blks >= 1)
      <3>1. u.blkno .. (u.blkno + u.num_blks - 1) = {}
        BY <1>5, <1>6, <1>8, <2>4
      <3> QED BY <3>1, Zenon DEF ReadsWritten
    <2> QED BY <2>3, <2>4, Zenon
  <1>12. rules' = rules /\ exit_flag' = exit_flag /\ \A w \in Writers : fence'[w] = fence[w]
    BY <1>1, Zenon DEF Others
  <1>13. "lock" \in {"top", "aim"} \cup Busy
    BY <1>9, Zenon
  <1> QED BY <1>4, <1>9, <1>10, <1>11, <1>12, <1>13, WorksReader, Zenon

(* It locks its blocks, and has compared them.                             *)
LEMMA TransferReader ==
  ASSUME Shape, PosInv, NEW c \in Readers, Following(rules, c), ReaderInv(c), Others(c), LockBlocks(c) \/ Transfer(c)
  PROVE  ReaderInv(c)'
  <1>1. c \in Contexts /\ c \notin Writers
    BY Zenon DEF Following
  <1>2. written' = written /\ failed' = failed
    BY <1>1, Zenon DEF LockBlocks, Transfer
  <1>3. rules' = rules /\ exit_flag' = exit_flag /\ \A w \in Writers : fence'[w] = fence[w]
    BY <1>1, Zenon DEF Others
  <1>4. /\ "lock" \in Busy /\ "io" \in Busy /\ "top" \notin Busy /\ "io" # "aim" /\ "top" # "aim"
    BY Zenon DEF Busy
  <1>5. "io" \in {"top", "aim"} \cup Busy /\ "top" \in {"top", "aim"} \cup Busy
    BY <1>4, Zenon
  <1> PICK z : z = tctx[rules][c].zone
    BY Zenon
  <1>6. ASSUME NoneFailed, Sequential(c), ~exit_flag, th[c] \in Busy
        PROVE  \A s : CaughtUp(rules, c, s, fence[z], written)
    <2>1. CaughtUp(rules, c, th[c], fence[z], written) /\ th[c] \in {"top"} \cup Busy
      BY <1>6, Zenon DEF ReaderInv
    <2> QED BY <2>1, Zenon DEF CaughtUp
  <1>7. CASE LockBlocks(c)
    <2>1. th[c] = "lock" /\ Goto(c, "io") /\ cur' = cur
      BY <1>7, Zenon DEF LockBlocks
    <2>2. th'[c] = "io" /\ cur'[c] = cur[c]
      BY <1>1, <2>1, Zenon DEF Goto, Shape
    <2>3. NoneFailed => ReadsWritten("io", cur[c], written)
      BY <1>4, <2>1, Zenon DEF ReaderInv, ReadsWritten
    <2> QED BY <1>2, <1>3, <1>4, <1>5, <1>6, <2>1, <2>2, <2>3, WorksReader, Zenon
  <1>8. CASE Transfer(c)
    <2>1. th[c] = "io" /\ Goto(c, "top")
      BY <1>8, Zenon DEF Transfer
    <2>2. th'[c] = "top"
      BY <1>1, <2>1, Zenon DEF Goto, Shape
    <2>3. ReadsWritten("top", cur'[c], written)
      BY <1>4, Zenon DEF ReadsWritten
    <2> PICK u : u = cur'[c]
      BY Zenon
    <2> QED BY <1>2, <1>3, <1>4, <1>5, <1>6, <2>1, <2>2, <2>3, WorksReader, Zenon
  <1> QED BY <1>7, <1>8, Zenon

(* The steps of the threads.                                               *)
LEMMA ThreadReads ==
  ASSUME Shape, Alive, PosInv, WriteInv, WriteInv', \A w \in Writers : Orderly(rules, w),
         \A c \in Readers : Following(rules, c), ReadInv, NEW d \in Contexts, ThreadStep(d) \/ Fails(d)
  PROVE  ReadInv'
  <1> SUFFICES ASSUME NEW c \in Readers PROVE ReaderInv(c)'
    BY Zenon DEF ReadInv
  <1>1. Following(rules, c) /\ ReaderInv(c) /\ Others(d)
    BY StepOthers, Zenon DEF ReadInv
  <1>2. NoneFailed' => \A w \in Writers : FenceMoves(rules, w, fence[w], fence'[w], written')
    BY FenceStep, Zenon
  <1>3. rules' = rules /\ written \subseteq written' /\ failed \subseteq failed' /\ (exit_flag => exit_flag')
    BY <1>1, Zenon DEF Others
  <1>4. CASE c # d
    <2>1. th'[c] = th[c] /\ cur'[c] = cur[c]
      BY <1>1, <1>4, Zenon DEF Others, Following
    <2> QED BY <1>1, <1>2, <1>3, <2>1, KeepsReader, Zenon
  <1>5. CASE c = d
    <2>1. CASE EndThread(d) \/ OpenFails(d) \/ (DrawBlock(d) /\ main' = "died")
      <3>1. main # "died"
        BY Zenon DEF Alive
      <3>2. th' = th /\ cur' = cur
        BY <2>1, <3>1, Zenon DEF EndThread, OpenFails, DrawBlock
      <3> QED BY <1>1, <1>2, <1>3, <3>2, KeepsReader, Zenon
    <2>2. CASE Announce(d) \/ Proceed(d) \/ Leave(d) \/ PatternFails(d) \/ AllocFails(d) \/ TransferFails(d)
      BY <1>1, <1>5, <2>2, StepsReader, Zenon
    <2>3. CASE LockBlocks(d) \/ Transfer(d)
      BY <1>1, <1>5, <2>3, TransferReader, Zenon
    <2>4. CASE \E w \in Writers : DrawZone(d, w)
      BY <1>1, <1>5, <2>4, DrawZoneReader, Zenon
    <2>5. CASE DrawBlock(d) /\ main' # "died"
      BY <1>1, <1>5, <2>5, DrawBlockReader, Zenon
    <2>6. CASE OpenDisk(d) \/ CloseDisk(d) \/ NextBlocks(d) \/ wait_for_fencepost_catchup(d)
      BY <1>1, <1>5, <2>6, OpenReader, CloseReader, NextReader, CatchupReader, Zenon
    <2> QED BY <2>1, <2>2, <2>3, <2>4, <2>5, <2>6, Zenon DEF ThreadStep, Fails
  <1> QED BY <1>4, <1>5, Zenon

(* The steps of main and of the handlers.                                  *)
LEMMA MainReads ==
  ASSUME AllocInv, PosInv, WriteInv, WriteInv', \A w \in Writers : Orderly(rules, w),
         \A c \in Readers : Following(rules, c), ReadInv,
         MainStep \/ SIGTERM_hdl \/ sig_function \/ UNCHANGED vars
  PROVE  ReadInv'
  <1>1. rules' = rules /\ fence' = fence /\ written' = written /\ failed' = failed
    BY Zenon DEF MainStep, RunStanza, CreateThread, CountThread, StartThreads, FreeContexts, NextStanza, Cleanup,
                 GiveUp, Return, SIGTERM_hdl, sig_function, vars, disk
  <1>2. exit_flag => exit_flag'
    BY Zenon DEF MainStep, RunStanza, CreateThread, CountThread, StartThreads, FreeContexts, NextStanza, Cleanup,
                 GiveUp, Return, SIGTERM_hdl, sig_function, vars, flags
  <1>3. \/ th' = th \/ (MainStep /\ todo # <<>> /\ th[Head(todo)] = "none" /\ Goto(Head(todo), "born"))
        \/ th' = [c \in Contexts |-> IF th[c] = "waiting" THEN "ready" ELSE th[c]]
    BY Zenon DEF MainStep, RunStanza, CreateThread, CountThread, StartThreads, FreeContexts, NextStanza, Cleanup,
                 GiveUp, Return, SIGTERM_hdl, sig_function, vars, Goto
  <1>4. \/ cur' = cur
        \/ /\ RunStanza /\ th' = th
           /\ cur' = [c \in Contexts |-> IF c \in Readers THEN Populated(rules, c) ELSE cur[c]]
    BY Zenon DEF MainStep, RunStanza, CreateThread, CountThread, StartThreads, FreeContexts, NextStanza, Cleanup,
                 GiveUp, Return, SIGTERM_hdl, sig_function, vars
  <1> SUFFICES ASSUME NEW c \in Readers PROVE ReaderInv(c)'
    BY Zenon DEF ReadInv
  <1>5. Following(rules, c) /\ ReaderInv(c) /\ c \in Contexts /\ Shape
    BY Zenon DEF ReadInv, Following, AllocInv
  <1>6. CASE cur'[c] = cur[c] /\ th'[c] = th[c]
    <2>1. \A w \in Writers : FenceMoves(rules, w, fence[w], fence'[w], written')
      BY <1>1, Zenon DEF FenceMoves
    <2>2. written \subseteq written' /\ failed \subseteq failed'
      BY <1>1, Zenon
    <2> QED BY <1>1, <1>2, <1>5, <1>6, <2>1, <2>2, KeepsReader, Zenon
  <1>7. CASE cur' = cur /\ th'[c] # th[c]
    <2>1. th[c] \in {"none", "waiting"} /\ th'[c] \in {"born", "ready"}
      BY <1>3, <1>5, <1>7, Zenon DEF Goto, Shape
    <2>2. th'[c] \notin Busy \cup {"aim"} /\ th'[c] # "top" /\ th[c] \notin {"top", "close"} \cup Busy
      BY <2>1, Zenon DEF Busy
    <2>3. Sequential(c) => cur'[c].num_blks = Whole(rules, c)
      BY <1>5, <1>7, <2>2, Zenon DEF ReaderInv
    <2> QED BY <1>1, <2>2, <2>3, AwayReader, Zenon
  <1>8. CASE /\ RunStanza /\ th' = th
             /\ cur' = [x \in Contexts |-> IF x \in Readers THEN Populated(rules, x) ELSE cur[x]]
    <2>1. main = "stanza"
      BY <1>8, Zenon DEF RunStanza
    <2>2. main \in Resting /\ Alive
      BY <2>1, Zenon DEF Resting, Alive
    <2>3. th[c] = "none"
      BY <2>2, Zenon DEF AllocInv, Accounts, ReaderContexts, Gone
    <2>4. th'[c] \notin Busy \cup {"aim"} /\ th'[c] # "top"
      BY <1>8, <2>3, Zenon DEF Busy
    <2> PICK u : u = Populated(rules, c)
      BY Zenon
    <2>5. u = [blkno |-> 0, num_blks |-> Whole(rules, c), do_partial |-> 0, oper_loop |-> 0, draw |-> 0]
      BY Zenon DEF Populated, Idle, Whole
    <2>6. u.num_blks = Whole(rules, c)
      BY <2>5
    <2>7. cur'[c] = u
      BY <1>5, <1>8, Zenon
    <2> QED BY <1>1, <2>4, <2>6, <2>7, AwayReader, Zenon
  <1> QED BY <1>4, <1>6, <1>7, <1>8, Zenon

(* At the start no reader runs.                                            *)
LEMMA InitReads ==
  ASSUME Init, \A c \in Readers : Following(rules, c)
  PROVE  ReadInv
  <1> SUFFICES ASSUME NEW c \in Readers PROVE ReaderInv(c)
    BY Zenon DEF ReadInv
  <1>1. th[c] = "none" /\ cur[c] = Populated(rules, c)
    BY Zenon DEF Init, Following
  <1>2. "none" \notin Busy /\ "none" # "aim" /\ "none" \notin {"top"} \cup Busy
    BY Zenon DEF Busy
  <1>3. cur[c] = [blkno |-> 0, num_blks |-> Whole(rules, c), do_partial |-> 0, oper_loop |-> 0, draw |-> 0]
    BY <1>1, Zenon DEF Populated, Idle, Whole
  <1>4. cur[c].num_blks = Whole(rules, c)
    BY <1>3
  <1> QED BY <1>1, <1>2, <1>4, Zenon DEF ReaderInv, ReadsWritten, CaughtUp

(* Every reader begins in a zone.                                          *)
AllFollow == \A f \in RuleFiles : \A c \in Readers : Follows(f, c)

(* The settings of the readers in every state.                             *)
LEMMA AllFollowing ==
  ASSUME AllFit, AllFollow, Shape, NEW c \in Readers
  PROVE  Following(rules, c)
  <1>1. c \in Contexts /\ c \notin Writers
    BY RulesAssumption, Zenon DEF Contexts
  <1>2. Sane(rules, c) /\ Follows(rules, c)
    BY <1>1, AllSane, Zenon DEF AllFollow, Shape
  <1> QED BY <1>1, <1>2, Zenon DEF Following, Follows, Upward, Whole

(* What is read is right in every state.                                   *)
LEMMA ReadInvariant == ASSUME AllFit, AllInOrder, AllFollow PROVE Spec => []ReadInv
  <1>1. Init /\ AllocInv => ReadInv
    BY AllFollowing, InitReads, Zenon DEF AllocInv
  <1>2. AllocInv /\ PosInv /\ WriteInv /\ WriteInv' /\ ReadInv /\ [Next]_vars => ReadInv'
    <2> SUFFICES ASSUME AllocInv, PosInv, WriteInv, WriteInv', ReadInv, [Next]_vars PROVE ReadInv'
      BY Zenon
    <2>1. Shape /\ (\A w \in Writers : Orderly(rules, w)) /\ (\A c \in Readers : Following(rules, c))
      BY AllOrderly, AllFollowing, Zenon DEF AllocInv
    <2>2. CASE MainStep \/ SIGTERM_hdl \/ sig_function \/ UNCHANGED vars
      BY <2>1, <2>2, MainReads, Zenon
    <2>3. ASSUME NEW c \in Contexts, ThreadStep(c) \/ Fails(c) PROVE ReadInv'
      <3>1. Alive
        BY <2>3, Zenon DEF ThreadStep, Fails
      <3> QED BY <2>1, <2>3, <3>1, ThreadReads, Zenon
    <2> QED BY <2>2, <2>3, Zenon DEF Next
  <1> QED BY <1>1, <1>2, AllocInvariant, PosInvariant, WriteInvariant, PTL DEF Spec

(* A reader compares only blocks that have been written, as long as no     *)
(* BWRC thread fails: while the fenceposts are moved, back to the start of *)
(* a zone too, between the check of a reader and its use of the blocks,    *)
(* for any number of readers and BWRC threads and any zones.               *)
THEOREM ReadersCompareWritten ==
  ASSUME \A f \in RuleFiles : \A c \in Contexts : Fits(f, c),
         \A f \in RuleFiles : \A w \in Writers : InOrder(f, w),
         \A f \in RuleFiles : \A c \in Readers : Follows(f, c)
  PROVE  Spec => []ComparesWritten
  <1>1. AllFit /\ AllInOrder /\ AllFollow
    BY Zenon DEF AllFit, AllInOrder, AllFollow
  <1>2. ReadInv => ComparesWritten
    <2>1. "io" \in Busy
      BY Zenon DEF Busy
    <2> QED BY <2>1, Zenon DEF ReadInv, ReaderInv, NoneFailed, ReadsWritten, ComparesWritten
  <1> QED BY <1>1, <1>2, ReadInvariant, PTL
=============================================================================
