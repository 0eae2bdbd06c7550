-------------------------- MODULE SegmentLockProofs --------------------------
(***************************************************************************)
(* The segment lock, for any number of threads, tables and blocks.         *)
(***************************************************************************)
EXTENDS SegmentLock, FiniteSetTheorems, TLAPS

(***************************************************************************)
(* The tables of segment_table_init                                        *)
(***************************************************************************)

(* Quotient and remainder.                                                  *)
LEMMA Division ==
    ASSUME NEW m \in Nat, NEW n \in Nat \ {0}
    PROVE  /\ m \div n \in Nat
           /\ m % n \in 0 .. n - 1
           /\ m = n * (m \div n) + (m % n)
  BY SMT

(* A product grows with its first factor.                                   *)
LEMMA ProductMonotone ==
    ASSUME NEW i \in Nat, NEW k \in Nat, NEW q \in Nat, i <= k
    PROVE  i * q \in Nat /\ k * q \in Nat /\ i * q <= k * q
  BY SMT

(* Where table i begins when there is no wrap-around.                       *)
Begin(i, q, r) == i * q + (IF i < r THEN i ELSE r)

(* A table begins where the one before it ends.                             *)
LEMMA BeginNext ==
    ASSUME NEW i \in Nat, NEW q \in Nat, NEW r \in Nat
    PROVE  /\ Begin(i, q, r) \in Nat
           /\ Begin(i + 1, q, r) = Begin(i, q, r) + q + (IF i < r THEN 1 ELSE 0)
  <1>1. i * q \in Nat /\ (i + 1) * q = i * q + q
    BY SMT
  <1> QED BY <1>1 DEF Begin

(* Later tables begin later.                                                *)
LEMMA BeginMonotone ==
    ASSUME NEW i \in Nat, NEW k \in Nat, NEW q \in Nat, NEW r \in Nat, i <= k
    PROVE  Begin(i, q, r) \in Nat /\ Begin(k, q, r) \in Nat /\ Begin(i, q, r) <= Begin(k, q, r)
  BY ProductMonotone DEF Begin

(* A value below half of the range of an int is not changed.                *)
LEMMA ToIntSmall ==
    ASSUME NEW x \in Nat, 2 * x < IntMod
    PROVE  ToInt(x) = x
  BY SegmentAssumption DEF ToInt

(* On a device that fits, table i goes from Begin(i) to Begin(i+1) - 1, and *)
(* the last one ends with the last block.                                   *)
LEMMA Limits ==
    ASSUME FitsInt, NEW q, NEW r, q = (maxblk + 1) \div NumTables, r = (maxblk + 1) % NumTables,
           NEW i \in Tables
    PROVE  /\ q \in Nat /\ r \in 0 .. NumTables - 1 /\ maxblk + 1 = NumTables * q + r
           /\ Begin(i, q, r) \in Nat /\ Begin(i + 1, q, r) \in Nat
           /\ LBA_lower_limit(i) = Begin(i, q, r)
           /\ LBA_upper_limit(i) = Begin(i + 1, q, r) - 1
           /\ Begin(i, q, r) <= Begin(i + 1, q, r)
  <1> USE SegmentAssumption
  <1>1. q \in Nat /\ r \in 0 .. NumTables - 1 /\ r \in Nat /\ maxblk + 1 = NumTables * q + r
    <2>1. maxblk + 1 \in Nat /\ NumTables \in Nat \ {0}
      OBVIOUS
    <2>2. q \in Nat /\ r \in 0 .. NumTables - 1 /\ maxblk + 1 = NumTables * q + r
      BY <2>1, Division, Zenon
    <2>3. 0 .. NumTables - 1 \subseteq Nat
      OBVIOUS
    <2> QED BY ONLY <2>2, <2>3, Zenon
  <1>2. i \in Nat /\ i + 1 \in Nat /\ 1 \in Nat /\ NumTables \in Nat
        /\ i <= i + 1 /\ i + 1 <= NumTables /\ 1 <= i + 1
    BY DEF Tables
  <1>3. Begin(NumTables, q, r) = maxblk + 1
    BY <1>1 DEF Begin
  <1>4. Begin(i, q, r) \in Nat /\ Begin(i + 1, q, r) \in Nat /\ Begin(i, q, r) <= Begin(i + 1, q, r)
    BY ONLY <1>1, <1>2, BeginMonotone, Zenon
  <1>5. Begin(i + 1, q, r) <= maxblk + 1
    BY ONLY <1>1, <1>2, <1>3, BeginMonotone
  <1>6. Begin(1, q, r) \in Nat /\ Begin(1, q, r) <= Begin(i + 1, q, r)
    BY ONLY <1>1, <1>2, BeginMonotone, Zenon
  <1>7. Begin(1, q, r) >= 1
    <2>1. q >= 1 \/ r >= 1
      BY <1>1
    <2> QED BY <1>1, <2>1 DEF Begin
  <1>8. Begin(i + 1, q, r) = Begin(i, q, r) + q + (IF i < r THEN 1 ELSE 0)
    BY ONLY <1>1, <1>2, BeginNext, Zenon
  <1>9. seg_table_size(i) = q + (IF i < r THEN 1 ELSE 0)
    <2> DEFINE x == q + (IF i < r THEN 1 ELSE 0)
    <2>1. x \in Nat /\ 2 * x < IntMod
      BY <1>1, <1>2, <1>4, <1>5, <1>8 DEF FitsInt
    <2>2. ToInt(x) = x
      BY <2>1, ToIntSmall, Zenon
    <2> QED BY <2>2, Zenon DEF seg_table_size
  <1>10. prev(i) = Begin(i, q, r)
    <2>1. 2 * Begin(i, q, r) < IntMod
      BY <1>4, <1>5 DEF FitsInt
    <2>2. ToInt(Begin(i, q, r)) = Begin(i, q, r)
      BY <1>4, <2>1, ToIntSmall, Zenon
    <2> QED BY <2>2, Zenon DEF prev, Begin
  <1>11. LBA_lower_limit(i) = Begin(i, q, r)
    BY <1>4, <1>10 DEF LBA_lower_limit, ToUnsigned
  <1>12. LBA_upper_limit(i) = Begin(i + 1, q, r) - 1
    <2> DEFINE x == Begin(i + 1, q, r) - 1
    <2>1. x \in Nat /\ 2 * x < IntMod
      BY <1>4, <1>5, <1>6, <1>7 DEF FitsInt
    <2>2. ToInt(x) = x
      BY <2>1, ToIntSmall, Zenon
    <2>3. prev(i) + seg_table_size(i) - 1 = x
      BY <1>1, <1>4, <1>8, <1>9, <1>10
    <2>4. ToInt(prev(i) + seg_table_size(i) - 1) = x
      BY <2>2, <2>3, Zenon
    <2> QED BY <2>1, <2>4 DEF LBA_upper_limit, ToUnsigned
  <1> QED BY <1>1, <1>4, <1>11, <1>12, Zenon

(* A device whose blocks an int can count has every block in exactly one    *)
(* table.                                                                   *)
THEOREM TablesCoverDevice == FitsInt => TablesCover
  <1> USE SegmentAssumption
  <1> SUFFICES ASSUME FitsInt PROVE TablesCover
    BY Zenon
  <1> DEFINE q == (maxblk + 1) \div NumTables
             r == (maxblk + 1) % NumTables
  <1>1. q \in Nat /\ r \in 0 .. NumTables - 1 /\ r \in Nat /\ maxblk + 1 = NumTables * q + r
    <2>1. maxblk + 1 \in Nat /\ NumTables \in Nat \ {0}
      OBVIOUS
    <2>2. q \in Nat /\ r \in 0 .. NumTables - 1 /\ maxblk + 1 = NumTables * q + r
      BY <2>1, Division, Zenon
    <2>3. 0 .. NumTables - 1 \subseteq Nat
      OBVIOUS
    <2> QED BY ONLY <2>2, <2>3, Zenon
  <1>2. \A i \in Tables :
           /\ i \in Nat /\ i + 1 \in Nat
           /\ Begin(i, q, r) \in Nat /\ Begin(i + 1, q, r) \in Nat
           /\ LBA_lower_limit(i) = Begin(i, q, r)
           /\ LBA_upper_limit(i) = Begin(i + 1, q, r) - 1
    BY Limits DEF Tables
  <1> HIDE DEF q, r
  <1>3. \A i \in Tables : LBA_lower_limit(i) \in Int /\ LBA_upper_limit(i) \in Int
    BY <1>2
  <1>4. ASSUME NEW b \in Lba PROVE \E i \in Tables : Home(i, b)
    <2>1. b \in Nat /\ b < NumTables * q + r
      BY <1>1 DEF Lba
    <2>2. CASE b < r * (q + 1)
      <3> DEFINE i == b \div (q + 1)
      <3>1. i \in Nat /\ i * (q + 1) <= b /\ b < (i + 1) * (q + 1)
        <4>1. q + 1 \in Nat \ {0}
          BY <1>1
        <4>2. i \in Nat /\ b % (q + 1) \in 0 .. (q + 1) - 1 /\ b = (q + 1) * i + (b % (q + 1))
          BY ONLY <2>1, <4>1, Division, Zenon
        <4> HIDE DEF i
        <4>3. (q + 1) * i = i * (q + 1) /\ (i + 1) * (q + 1) = i * (q + 1) + (q + 1) /\ i * (q + 1) \in Nat
          BY <1>1, <4>2
        <4> QED BY <1>1, <2>1, <4>2, <4>3
      <3> HIDE DEF i
      <3>2. i < r
        <4>1. SUFFICES ASSUME r <= i PROVE FALSE
          BY <1>1, <3>1
        <4>2. r * (q + 1) <= i * (q + 1) /\ r * (q + 1) \in Nat /\ i * (q + 1) \in Nat
          BY <1>1, <3>1, <4>1, ProductMonotone
        <4> QED BY <2>1, <2>2, <3>1, <4>2
      <3>3. i \in Tables
        BY <1>1, <3>1, <3>2 DEF Tables
      <3>4. Begin(i, q, r) = i * (q + 1) /\ Begin(i + 1, q, r) = (i + 1) * (q + 1)
        <4>1. Begin(i, q, r) = i * q + i
          BY <3>1, <3>2, Zenon DEF Begin
        <4>2. Begin(i + 1, q, r) = (i + 1) * q + (i + 1)
          BY <1>1, <3>1, <3>2 DEF Begin
        <4>3. i * (q + 1) = i * q + i /\ (i + 1) * (q + 1) = (i + 1) * q + (i + 1)
          BY <1>1, <3>1
        <4> QED BY <4>1, <4>2, <4>3, Zenon
      <3>5. Home(i, b)
        <4>1. LBA_lower_limit(i) = Begin(i, q, r) /\ LBA_upper_limit(i) = Begin(i + 1, q, r) - 1
              /\ Begin(i + 1, q, r) \in Nat
          BY <1>2, <3>3, Zenon
        <4> QED BY <2>1, <3>1, <3>4, <4>1 DEF Home
      <3> QED BY <3>3, <3>5, Zenon
    <2>3. CASE b >= r * (q + 1)
      <3>1. q \in Nat \ {0} /\ r * (q + 1) = r * q + r /\ r * q \in Nat
        <4>1. r * (q + 1) = r * q + r /\ r * q \in Nat
          BY <1>1
        <4>2. q # 0
          <5>1. SUFFICES ASSUME q = 0 PROVE FALSE
            BY Zenon
          <5>2. NumTables * q = 0 /\ r * q = 0
            BY <1>1, <5>1
          <5> QED BY <1>1, <2>1, <2>3, <4>1, <5>2
        <4> QED BY <1>1, <4>1, <4>2, Zenon
      <3> DEFINE c == b - r * (q + 1)
                 k == c \div q
      <3>2. c \in Nat /\ b = r * q + r + c
        BY <1>1, <2>1, <2>3, <3>1
      <3> HIDE DEF c
      <3>3. k \in Nat /\ k * q \in Nat /\ k * q <= c /\ c < k * q + q
        <4>1. k \in Nat /\ c % q \in 0 .. q - 1 /\ c = q * k + (c % q)
          BY <3>1, <3>2, Division, Zenon
        <4> HIDE DEF k
        <4>2. q * k = k * q /\ k * q \in Nat
          BY <1>1, <4>1
        <4> QED BY <1>1, <3>2, <4>1, <4>2
      <3> HIDE DEF k
      <3> DEFINE i == r + k
      <3>4. i \in Nat /\ i >= r /\ i * q = r * q + k * q /\ (i + 1) * q = r * q + k * q + q
        BY <1>1, <3>1, <3>3
      <3> HIDE DEF i
      <3>5. i < NumTables
        <4>1. SUFFICES ASSUME NumTables <= i PROVE FALSE
          BY <3>4
        <4>2. NumTables * q <= i * q /\ NumTables * q \in Nat /\ i * q \in Nat
          BY <1>1, <3>4, <4>1, ProductMonotone, Zenon
        <4> QED BY <1>1, <2>1, <3>1, <3>2, <3>3, <3>4, <4>2
      <3>6. i \in Tables
        BY <3>4, <3>5 DEF Tables
      <3>7. Begin(i, q, r) = i * q + r /\ Begin(i + 1, q, r) = (i + 1) * q + r
        BY <1>1, <3>4 DEF Begin
      <3>8. Home(i, b)
        <4>1. LBA_lower_limit(i) = Begin(i, q, r) /\ LBA_upper_limit(i) = Begin(i + 1, q, r) - 1
          BY <1>2, <3>6, Zenon
        <4>2. Begin(i, q, r) <= b /\ b <= Begin(i + 1, q, r) - 1
          BY <1>1, <3>1, <3>2, <3>3, <3>4, <3>7
        <4> QED BY <4>1, <4>2, Zenon DEF Home
      <3> QED BY <3>6, <3>8, Zenon
    <2>4. r * (q + 1) \in Nat
      BY <1>1
    <2> QED BY <2>1, <2>2, <2>3, <2>4
  <1>5. ASSUME NEW i \in Tables, NEW k \in Tables, i < k
        PROVE  LBA_upper_limit(i) < LBA_lower_limit(k)
    <2>1. i + 1 \in Nat /\ k \in Nat /\ i + 1 <= k
      BY <1>2, <1>5
    <2>2. Begin(i + 1, q, r) <= Begin(k, q, r)
      BY ONLY <1>1, <2>1, BeginMonotone, Zenon
    <2> QED BY <1>2, <2>2
  <1> QED BY <1>3, <1>4, <1>5, Zenon DEF TablesCover

(***************************************************************************)
(* The invariant                                                           *)
(***************************************************************************)

(* The three cases of the scan are those in which two ranges meet.          *)
LEMMA OverlapMeets ==
    ASSUME NEW e, e.flba \in Int, e.llba \in Int, e.flba <= e.llba,
           NEW f \in Int, NEW l \in Int, f <= l
    PROVE  Overlap(e, f, l) <=> ~(e.llba < f \/ l < e.flba)
  BY DEF Overlap

(* A table below the range holds no block of it, and no block of it lies    *)
(* beyond the table in which the range ends.                                *)
LEMMA NotLooked ==
    ASSUME TablesCover, NEW i \in Tables, NEW f \in Lba, ~Looks(f, i), NEW b \in Int, b >= f
    PROVE  ~Home(i, b)
  BY SegmentAssumption DEF TablesCover, Looks, Home, Lba

(* A range that ends in one table has no block in a later one.              *)
LEMMA EndedBefore ==
    ASSUME TablesCover, NEW i \in Tables, NEW k \in Tables, i < k, NEW l \in Lba, Ends(l, i),
           NEW b \in Int, b <= l
    PROVE  ~Home(k, b)
  BY SegmentAssumption DEF TablesCover, Ends, Home, Lba

(* The tables are empty and nobody is in the lock.                          *)
LEMMA InitIInv == Init => IInv
  <1> SUFFICES ASSUME Init PROVE IInv
    BY Zenon
  <1> USE SegmentAssumption
  <1>1. TypeOK
    BY DEF Init, TypeOK, Empty, Lba, Tables, Slots
  <1>2. Owned /\ Apart /\ Traced
    BY Zenon DEF Init, Owned, Apart, Traced, Empty
  <1>3. Sound
    BY DEF Init, Sound, Empty
  <1>4. \A t \in Threads : Noted(t)
    BY Zenon DEF Init, Noted
  <1> QED BY <1>1, <1>2, <1>3, <1>4, Zenon DEF IInv

(* A thread enters seg_lock with no slot noted.                             *)
LEMMA CallKeeps ==
    ASSUME IInv, NEW t \in Threads, Call(t)
    PROVE  IInv'
  <1> USE SegmentAssumption
  <1> PICK f \in Lba, l \in Lba : f <= l /\ seg_lock(t, f, l)
    BY Zenon DEF Call
  <1>0. \A i \in Tables : mine[t][i] = NoSlot
    BY Zenon DEF IInv, Noted, seg_lock
  <1>1. TypeOK'
    BY DEF IInv, TypeOK, seg_lock, Tables
  <1>2. Owned'
    BY Zenon DEF IInv, TypeOK, Owned, seg_lock
  <1>3. Apart' /\ Sound'
    BY Zenon DEF IInv, TypeOK, Apart, Sound, seg_lock
  <1>4. ASSUME NEW u \in Threads PROVE Noted(u)'
    <2>1. CASE u = t
      BY <2>1 DEF IInv, TypeOK, Noted, seg_lock, Tables
    <2>2. CASE u # t
      BY <2>2 DEF IInv, TypeOK, Noted, seg_lock, Entered, match_found
    <2> QED BY <2>1, <2>2, Zenon
  <1>5. Traced'
    BY <1>0 DEF IInv, TypeOK, Traced, seg_lock, Slots
  <1> QED BY <1>1, <1>2, <1>3, <1>4, <1>5, Zenon DEF IInv

(* The loop stays within the tables.                                        *)
LEMMA AdvanceTyped ==
    ASSUME TypeOK, NEW t \in Threads, at[t] \in Tables, NEW ends, Advance(t, ends)
    PROVE  /\ pc' \in [Threads -> {"out", "lock", "asleep", "io", "unlock", "exit"}]
           /\ at' \in [Threads -> 0 .. NumTables]
  <1>1. at[t] + 1 \in 0 .. NumTables /\ 0 \in 0 .. NumTables
    BY SegmentAssumption DEF Tables
  <1>2. CASE ends \/ at[t] + 1 = NumTables
    BY <1>1, <1>2, Zenon DEF TypeOK, Advance
  <1>3. CASE ~(ends \/ at[t] + 1 = NumTables)
    BY <1>1, <1>3, Zenon DEF TypeOK, Advance
  <1> QED BY <1>2, <1>3, Zenon

(* The table passed over holds no block of the range.                       *)
LEMMA SkipKeeps ==
    ASSUME TablesCover, IInv, NEW t \in Threads, Skip(t)
    PROVE  IInv'
  <1> USE SegmentAssumption
  <1>0. at[t] \in Tables /\ at[t] \in Int
    BY DEF IInv, Noted, Skip, Tables
  <1>1. TypeOK'
    BY <1>0, AdvanceTyped, Zenon DEF IInv, TypeOK, Skip
  <1>2. Owned' /\ Apart' /\ Sound' /\ Traced'
    BY Zenon DEF IInv, Owned, Apart, Sound, Traced, Skip
  <1>3. Entered(t, at[t])
    BY <1>0, NotLooked DEF IInv, TypeOK, Entered, Skip, Lba
  <1>4. ASSUME NEW u \in Threads PROVE Noted(u)'
    <2>1. CASE u = t /\ at[t] + 1 = NumTables
      <3>1. \A i \in Tables : i < at[t] \/ i = at[t]
        BY <1>0, <2>1 DEF Tables
      <3>2. \A i \in Tables : Entered(t, i)
        BY <1>3, <3>1 DEF IInv, Noted, Skip
      <3> QED BY <2>1, <3>2 DEF IInv, TypeOK, Noted, Skip, Advance, Entered
    <2>2. CASE u = t /\ at[t] + 1 # NumTables
      <3>1. at'[t] = at[t] + 1 /\ pc'[t] = "lock" /\ at'[t] \in Tables
        BY <1>0, <2>2 DEF IInv, TypeOK, Skip, Advance, Tables
      <3>2. \A i \in Tables : i < at[t] + 1 => i < at[t] \/ i = at[t]
        BY <1>0 DEF Tables
      <3>3. \A i \in Tables : IF i < at[t] + 1 THEN Entered(t, i) ELSE mine[t][i] = NoSlot
        <4>1. \A i \in Tables : i < at[t] => i < at[t] + 1
          BY <1>0 DEF Tables
        <4> QED BY <1>3, <3>2, <4>1, Zenon DEF IInv, Noted, Skip
      <3> QED BY <2>2, <3>1, <3>3, Zenon DEF Noted, Skip, Entered
    <2>3. CASE u # t
      BY <2>3 DEF IInv, TypeOK, Noted, Skip, Advance, Entered, match_found
    <2> QED BY <2>1, <2>2, <2>3, Zenon
  <1> QED BY <1>1, <1>2, <1>4, Zenon DEF IInv

(* A thread falls asleep only on an overlap.                                *)
LEMMA WaitKeeps ==
    ASSUME IInv, NEW t \in Threads, Wait(t)
    PROVE  IInv'
  <1> USE SegmentAssumption
  <1>1. TypeOK'
    BY Zenon DEF IInv, TypeOK, Wait
  <1>2. Owned' /\ Apart' /\ Sound' /\ Traced'
    BY Zenon DEF IInv, Owned, Apart, Sound, Traced, Wait
  <1>3. ASSUME NEW u \in Threads PROVE Noted(u)'
    <2>1. match_found(u)' <=> match_found(u)
      BY Zenon DEF Wait, match_found
    <2>2. \A i \in Tables : Entered(u, i)' <=> Entered(u, i)
      BY Zenon DEF Wait, Entered
    <2>3. CASE u = t
      BY <2>1, <2>2, <2>3, Zenon DEF IInv, TypeOK, Noted, Wait
    <2>4. CASE u # t
      BY <2>1, <2>2, <2>4, Zenon DEF IInv, TypeOK, Noted, Wait
    <2> QED BY <2>3, <2>4, Zenon
  <1> QED BY <1>1, <1>2, <1>3, Zenon DEF IInv

(* A range entered in a free slot overlaps none in use, and the sleepers keep*)
(* their reasons to sleep.                                                  *)
LEMMA EnterKeeps ==
    ASSUME TablesCover, IInv, NEW t \in Threads, pc[t] = "lock", ~match_found(t),
           NEW j \in Slots, Unused(at[t], j), Enter(t, j), UNCHANGED <<flba, llba, broken>>
    PROVE  IInv'
  <1> USE SegmentAssumption
  <1> DEFINE i == at[t]
             E == [in_use |-> TRUE, flba |-> flba[t], llba |-> llba[t], tid |-> t]
  <1>1. /\ i \in Tables /\ i \in Int /\ j \in Nat /\ j # NoSlot
        /\ mine[t][i] = NoSlot
        /\ ~seg_table[i][j].in_use /\ j <= seg_table_entries[i]
        /\ \A k \in Tables : k \in Int
        /\ flba[t] \in Int /\ llba[t] \in Int /\ flba[t] <= llba[t]
    <2>1. i \in Tables
      BY Zenon DEF IInv, Noted
    <2>2. mine[t][i] = NoSlot
      BY <2>1 DEF IInv, Noted, Tables
    <2>3. flba[t] \in Int /\ llba[t] \in Int /\ flba[t] <= llba[t]
      BY DEF IInv, TypeOK, Sound, Lba
    <2> QED BY <2>1, <2>2, <2>3 DEF Unused, Tables, Slots
  <1>2. /\ mine' = [mine EXCEPT ![t] = [@ EXCEPT ![i] = j]]
        /\ seg_table' = [seg_table EXCEPT ![i] = [@ EXCEPT ![j] = E]]
        /\ seg_table_entries' = [seg_table_entries EXCEPT ![i] = IF j = @ THEN @ + 1 ELSE @]
        /\ Advance(t, Ends(llba[t], i))
        /\ flba' = flba /\ llba' = llba /\ broken' = broken
    BY Zenon DEF Enter
  <1>3. /\ \A u \in Threads, k \in Tables : mine'[u][k] = IF u = t /\ k = i THEN j ELSE mine[u][k]
        /\ \A k \in Tables, n \in Slots : seg_table'[k][n] = IF k = i /\ n = j THEN E ELSE seg_table[k][n]
        /\ \A k \in Tables : k # i => seg_table_entries'[k] = seg_table_entries[k]
        /\ seg_table_entries'[i] \in Int /\ j < seg_table_entries'[i]
        /\ seg_table_entries[i] <= seg_table_entries'[i] /\ seg_table_entries'[i] <= MaxEntries
    BY <1>1, <1>2 DEF IInv, TypeOK, Slots
  <1>4. TypeOK'
    <2>1. mine' \in [Threads -> [Tables -> Slots \cup {NoSlot}]]
      BY <1>1, <1>2, Zenon DEF IInv, TypeOK
    <2>2. seg_table' \in [Tables -> [Slots ->
             [in_use : BOOLEAN, flba : Lba, llba : Lba, tid : Threads \cup {NoSlot}]]]
      <3>1. E \in [in_use : BOOLEAN, flba : Lba, llba : Lba, tid : Threads \cup {NoSlot}]
        BY Zenon DEF IInv, TypeOK
      <3> HIDE DEF E
      <3> QED BY <1>1, <1>2, <3>1, Zenon DEF IInv, TypeOK
    <2>3. seg_table_entries' \in [Tables -> 0 .. MaxEntries]
      BY <1>1, <1>2 DEF IInv, TypeOK, Slots
    <2> QED BY <1>1, <1>2, <2>1, <2>2, <2>3, AdvanceTyped, Zenon DEF IInv, TypeOK
  <1> HIDE DEF i
  <1>5. Owned'
    <2> SUFFICES ASSUME NEW u \in Threads, NEW k \in Tables, mine'[u][k] # NoSlot
                 PROVE  seg_table'[k][mine'[u][k]] =
                          [in_use |-> TRUE, flba |-> flba[u], llba |-> llba[u], tid |-> u]
      BY <1>2, Zenon DEF Owned
    <2>1. CASE u = t /\ k = i
      BY <1>3, <2>1, Zenon
    <2>2. CASE ~(u = t /\ k = i)
      <3>1. mine'[u][k] = mine[u][k] /\ mine[u][k] \in Slots
        BY <1>3, <2>2 DEF IInv, TypeOK
      <3>2. seg_table[k][mine[u][k]] = [in_use |-> TRUE, flba |-> flba[u], llba |-> llba[u], tid |-> u]
        BY <3>1, Zenon DEF IInv, Owned
      <3>3. ~(k = i /\ mine[u][k] = j)
        BY <1>1, <3>2
      <3> QED BY <1>3, <3>1, <3>2, <3>3
    <2> QED BY <2>1, <2>2, Zenon
  <1>6. ASSUME NEW n \in Slots, seg_table[i][n].in_use
        PROVE  seg_table[i][n].llba < flba[t] \/ llba[t] < seg_table[i][n].flba
    <2> DEFINE e == seg_table[i][n]
    <2>1. n < seg_table_entries[i] /\ e.flba \in Int /\ e.llba \in Int /\ e.flba <= e.llba
      BY <1>1, <1>6 DEF IInv, TypeOK, Sound, Lba
    <2>2. ~Overlap(e, flba[t], llba[t])
      BY <1>1, <1>6, <2>1, Zenon DEF match_found, i
    <2> HIDE DEF e
    <2>3. e.llba < flba[t] \/ llba[t] < e.flba
      BY <1>1, <2>1, <2>2, OverlapMeets, Zenon
    <2> QED BY <2>3, Zenon DEF e
  <1>7. Apart'
    <2> SUFFICES ASSUME NEW k \in Tables, NEW m \in Slots, NEW n \in Slots, m # n,
                        seg_table'[k][m].in_use, seg_table'[k][n].in_use
                 PROVE  \/ seg_table'[k][m].llba < seg_table'[k][n].flba
                        \/ seg_table'[k][n].llba < seg_table'[k][m].flba
      BY Zenon DEF Apart
    <2>1. CASE k = i /\ m = j
      BY <1>3, <1>6, <2>1
    <2>2. CASE k = i /\ n = j
      BY <1>3, <1>6, <2>2
    <2>3. CASE ~(k = i /\ m = j) /\ ~(k = i /\ n = j)
      BY <1>3, <2>3, Zenon DEF IInv, Apart
    <2> QED BY <2>1, <2>2, <2>3, Zenon
  <1>8. Sound'
    <2>1. \A u \in Threads : flba'[u] <= llba'[u]
      BY <1>2, Zenon DEF IInv, Sound
    <2>2. ASSUME NEW k \in Tables, NEW n \in Slots
          PROVE  /\ seg_table'[k][n].flba <= seg_table'[k][n].llba
                 /\ seg_table'[k][n].in_use => n < seg_table_entries'[k]
      <3>1. CASE k = i /\ n = j
        BY <1>1, <1>3, <3>1
      <3>2. CASE ~(k = i /\ n = j)
        <4>1. seg_table[k][n].flba <= seg_table[k][n].llba /\ (seg_table[k][n].in_use => n < seg_table_entries[k])
          BY Zenon DEF IInv, Sound
        <4>2. n \in Int /\ seg_table_entries[i] \in Int
          BY <1>1 DEF IInv, TypeOK, Slots
        <4>3. CASE k = i
          BY <1>3, <3>2, <4>1, <4>2, <4>3
        <4>4. CASE k # i
          BY <1>3, <4>1, <4>4, Zenon
        <4> QED BY <4>3, <4>4, Zenon
      <3> QED BY <3>1, <3>2, Zenon
    <2> QED BY <2>1, <2>2, Zenon DEF Sound
  <1>9. ASSUME NEW u \in Threads PROVE Noted(u)'
    <2>1. CASE u = t
      <3>1. \A k \in Tables : k = i => Entered(t, k)'
        BY <1>1, <1>2, <1>3 DEF Entered
      <3>2. \A k \in Tables : k < i => Entered(t, k)'
        BY <1>1, <1>2, <1>3 DEF IInv, Noted, Entered, i
      <3>3. \A k \in Tables : k > i => mine'[t][k] = NoSlot
        BY <1>1, <1>3 DEF IInv, Noted, i
      <3>4. CASE Ends(llba[t], i)
        <4>1. \A k \in Tables : k > i => Entered(t, k)'
          BY <1>1, <1>2, <3>4, EndedBefore DEF IInv, TypeOK, Entered, Lba
        <4>2. \A k \in Tables : Entered(t, k)'
          <5>1. \A k \in Tables : k < i \/ k = i \/ k > i
            BY <1>1
          <5> QED BY <3>1, <3>2, <4>1, <5>1, Zenon
        <4>3. pc'[t] = "io" /\ at'[t] = 0
          BY <1>2, <3>4, Zenon DEF IInv, TypeOK, Advance
        <4> QED BY <2>1, <4>2, <4>3, Zenon DEF Noted
      <3>5. CASE i + 1 = NumTables
        <4>1. \A k \in Tables : k < i \/ k = i
          BY <1>1, <3>5 DEF Tables
        <4>2. \A k \in Tables : Entered(t, k)'
          BY <3>1, <3>2, <4>1, Zenon
        <4>3. pc'[t] = "io" /\ at'[t] = 0
          BY <1>2, <3>5, Zenon DEF IInv, TypeOK, Advance, i
        <4> QED BY <2>1, <4>2, <4>3, Zenon DEF Noted
      <3>6. CASE ~Ends(llba[t], i) /\ i + 1 # NumTables
        <4>1. pc'[t] = "lock" /\ at'[t] = i + 1 /\ i + 1 \in Tables
          BY <1>1, <1>2, <3>6 DEF IInv, TypeOK, Advance, i, Tables
        <4>2. \A k \in Tables : IF k < i + 1 THEN Entered(t, k)' ELSE mine'[t][k] = NoSlot
          BY <1>1, <3>1, <3>2, <3>3
        <4> QED BY <2>1, <4>1, <4>2, Zenon DEF Noted
      <3> QED BY <3>4, <3>5, <3>6, Zenon
    <2>2. CASE u # t
      <3>1. pc'[u] = pc[u] /\ at'[u] = at[u]
        BY <1>2, <2>2, Zenon DEF IInv, TypeOK, Advance
      <3>2. \A k \in Tables : mine'[u][k] = mine[u][k] /\ (Entered(u, k)' <=> Entered(u, k))
        BY <1>2, <1>3, <2>2 DEF Entered
      <3>3. ASSUME pc[u] = "asleep" PROVE match_found(u)'
        <4>1. PICK n \in Slots : n < seg_table_entries[at[u]] /\ seg_table[at[u]][n].in_use
                                 /\ Overlap(seg_table[at[u]][n], flba[u], llba[u])
          BY <3>3, Zenon DEF IInv, Noted, match_found
        <4>2. at[u] \in Tables /\ n \in Int
          BY <3>3 DEF IInv, Noted, Slots
        <4>3. seg_table'[at[u]][n] = seg_table[at[u]][n]
          BY <1>1, <1>3, <4>1, <4>2, Zenon
        <4>4. n < seg_table_entries'[at[u]]
          BY <1>1, <1>3, <4>1, <4>2 DEF IInv, TypeOK
        <4> QED BY <1>2, <3>1, <4>1, <4>3, <4>4, Zenon DEF match_found
      <3> QED BY <3>1, <3>2, <3>3, Zenon DEF IInv, Noted
    <2> QED BY <2>1, <2>2, Zenon
  <1>10. Traced'
    <2> SUFFICES ASSUME broken = 0, NEW k \in Tables, NEW n \in Slots, seg_table'[k][n].in_use
                 PROVE  seg_table'[k][n].tid \in Threads /\ mine'[seg_table'[k][n].tid][k] = n
      BY <1>2, Zenon DEF Traced
    <2>1. CASE k = i /\ n = j
      <3>1. seg_table'[k][n] = E
        BY ONLY <1>3, <2>1, Zenon
      <3>2. mine'[t][k] = n
        BY ONLY <1>3, <2>1, Zenon
      <3>3. E.tid = t
        BY Zenon
      <3> QED BY ONLY <3>1, <3>2, <3>3, t \in Threads, Zenon
    <2>2. CASE ~(k = i /\ n = j)
      <3>1. seg_table'[k][n] = seg_table[k][n]
        BY <1>3, <2>2, Zenon
      <3>2. seg_table[k][n].tid \in Threads /\ mine[seg_table[k][n].tid][k] = n /\ n # NoSlot
        BY <3>1 DEF IInv, Traced, Slots
      <3>3. ~(seg_table[k][n].tid = t /\ k = i)
        BY <1>1, <3>2, Zenon
      <3>4. mine'[seg_table[k][n].tid][k] = mine[seg_table[k][n].tid][k]
        BY ONLY <1>3, <3>2, <3>3, Zenon
      <3> QED BY ONLY <3>1, <3>2, <3>4, Zenon
    <2> QED BY <2>1, <2>2, Zenon
  <1> QED BY <1>4, <1>5, <1>7, <1>8, <1>9, <1>10, Zenon DEF IInv

(* exit(1) changes nothing but the thread.                                  *)
LEMMA ExitKeeps ==
    ASSUME IInv, NEW t \in Threads, pc' = [pc EXCEPT ![t] = "exit"],
           UNCHANGED <<flba, llba, at, mine, seg_table, seg_table_entries, broken>>
    PROVE  IInv'
  <1> USE SegmentAssumption
  <1>1. TypeOK'
    <2>1. pc' \in [Threads -> {"out", "lock", "asleep", "io", "unlock", "exit"}]
      BY Zenon DEF IInv, TypeOK
    <2> QED BY <2>1, Zenon DEF IInv, TypeOK
  <1>2. Owned' /\ Apart' /\ Sound' /\ Traced'
    BY Zenon DEF IInv, Owned, Apart, Sound, Traced
  <1>3. ASSUME NEW u \in Threads PROVE Noted(u)'
    <2>1. (match_found(u)' <=> match_found(u)) /\ \A i \in Tables : Entered(u, i)' <=> Entered(u, i)
      BY Zenon DEF match_found, Entered
    <2>2. CASE u = t
      BY <2>2, Zenon DEF IInv, TypeOK, Noted
    <2>3. CASE u # t
      BY <2>1, <2>3, Zenon DEF IInv, TypeOK, Noted
    <2> QED BY <2>2, <2>3, Zenon
  <1> QED BY <1>1, <1>2, <1>3, Zenon DEF IInv

(* The range is entered, or the program exits.                              *)
LEMMA TakeKeeps ==
    ASSUME TablesCover, IInv, NEW t \in Threads, Take(t)
    PROVE  IInv'
  <1>1. CASE \E j \in Slots : Unused(at[t], j)
    <2>1. PICK j \in Slots : Unused(at[t], j) /\ Enter(t, j)
      BY <1>1, Zenon DEF Take
    <2> QED BY <2>1, EnterKeeps, Zenon DEF Take
  <1>2. CASE ~\E j \in Slots : Unused(at[t], j)
    BY <1>2, ExitKeeps, Zenon DEF Take
  <1> QED BY <1>1, <1>2, Zenon

(* The entries stay until seg_unlock comes to them.                         *)
LEMMA DoneKeeps ==
    ASSUME IInv, NEW t \in Threads, Done(t)
    PROVE  IInv'
  <1> USE SegmentAssumption
  <1>1. TypeOK'
    <2>1. pc' \in [Threads -> {"out", "lock", "asleep", "io", "unlock", "exit"}]
      BY Zenon DEF IInv, TypeOK, Done
    <2> QED BY <2>1, Zenon DEF IInv, TypeOK, Done
  <1>2. Owned' /\ Apart' /\ Sound' /\ Traced'
    BY Zenon DEF IInv, Owned, Apart, Sound, Traced, Done
  <1>3. ASSUME NEW u \in Threads PROVE Noted(u)'
    <2>1. (match_found(u)' <=> match_found(u)) /\ \A i \in Tables : Entered(u, i)' <=> Entered(u, i)
      BY Zenon DEF match_found, Entered, Done
    <2>2. CASE u = t
      <3>1. at[t] = 0 /\ pc'[t] = "unlock" /\ at'[t] = 0
        BY Zenon DEF IInv, TypeOK, Noted, Done
      <3>2. \A i \in Tables : ~(i < 0)
        BY DEF Tables
      <3> QED BY <2>2, <3>1, <3>2, Zenon DEF Noted
    <2>3. CASE u # t
      BY <2>1, <2>3, Zenon DEF IInv, TypeOK, Noted, Done
    <2> QED BY <2>2, <2>3, Zenon
  <1> QED BY <1>1, <1>2, <1>3, Zenon DEF IInv

(* A thread that breaks off forgets its slots, which stay in use.           *)
LEMMA BreakOffKeeps ==
    ASSUME IInv, NEW t \in Threads, BreakOff(t)
    PROVE  IInv'
  <1> USE SegmentAssumption
  <1>1. TypeOK'
    BY DEF IInv, TypeOK, BreakOff, Lba
  <1>2. Owned' /\ Apart' /\ Traced'
    <2>1. broken' # 0
      BY DEF IInv, TypeOK, BreakOff
    <2> QED BY <2>1 DEF IInv, TypeOK, Owned, Apart, Traced, BreakOff
  <1>3. Sound'
    BY DEF IInv, TypeOK, Sound, BreakOff
  <1>4. ASSUME NEW u \in Threads PROVE Noted(u)'
    <2>1. CASE u = t
      BY <2>1, Zenon DEF IInv, TypeOK, Noted, BreakOff
    <2>2. CASE u # t
      <3>1. pc'[u] = pc[u] /\ at'[u] = at[u] /\ mine'[u] = mine[u] /\ flba'[u] = flba[u] /\ llba'[u] = llba[u]
        BY <2>2, Zenon DEF IInv, TypeOK, BreakOff
      <3>2. seg_table' = seg_table /\ seg_table_entries' = seg_table_entries
        BY Zenon DEF BreakOff
      <3>3. Noted(u)
        BY Zenon DEF IInv
      <3> QED BY ONLY <3>1, <3>2, <3>3, Zenon DEF Noted, Entered, match_found
    <2> QED BY <2>1, <2>2, Zenon
  <1> QED BY <1>1, <1>2, <1>3, <1>4, Zenon DEF IInv

(* seg_unlock passes a table in which nothing is noted.                     *)
LEMMA PassKeeps ==
    ASSUME IInv, NEW t \in Threads, Pass(t)
    PROVE  IInv'
  <1> USE SegmentAssumption
  <1>1. TypeOK'
    BY DEF IInv, TypeOK, Pass, Tables
  <1>2. Owned' /\ Apart' /\ Sound' /\ Traced'
    BY Zenon DEF IInv, Owned, Apart, Sound, Traced, Pass
  <1>3. ASSUME NEW u \in Threads PROVE Noted(u)'
    <2>1. CASE u = t
      <3>1. pc'[t] = "unlock" /\ at'[t] = at[t] + 1 /\ mine' = mine
        BY Zenon DEF IInv, TypeOK, Pass
      <3>2. \A i \in Tables : i < at[t] + 1 => i < at[t] \/ i = at[t]
        BY DEF Pass, Tables
      <3>3. \A i \in Tables : i < at[t] + 1 => mine[t][i] = NoSlot
        BY <3>2, Zenon DEF IInv, Noted, Pass
      <3> QED BY <2>1, <3>1, <3>3, Zenon DEF Noted
    <2>2. CASE u # t
      <3>1. pc'[u] = pc[u] /\ at'[u] = at[u] /\ mine'[u] = mine[u] /\ flba'[u] = flba[u] /\ llba'[u] = llba[u]
        BY <2>2, Zenon DEF IInv, TypeOK, Pass
      <3>2. seg_table' = seg_table /\ seg_table_entries' = seg_table_entries
        BY Zenon DEF Pass
      <3>3. Noted(u)
        BY Zenon DEF IInv
      <3> QED BY ONLY <3>1, <3>2, <3>3, Zenon DEF Noted, Entered, match_found
    <2> QED BY <2>1, <2>2, Zenon
  <1> QED BY <1>1, <1>2, <1>3, Zenon DEF IInv

(* seg_unlock finds the segment it is to release.                           *)
LEMMA AlwaysFound ==
    ASSUME IInv, NEW t \in Threads, at[t] \in Tables, mine[t][at[t]] # NoSlot
    PROVE  Found(t)
  <1>1. seg_table[at[t]][mine[t][at[t]]] = [in_use |-> TRUE, flba |-> flba[t], llba |-> llba[t], tid |-> t]
    BY Zenon DEF IInv, Owned
  <1> QED BY <1>1 DEF Found

(* The slot released is the thread's own, and all sleepers of the table wake.*)
LEMMA ReleaseKeeps ==
    ASSUME IInv, NEW t \in Threads, Release(t)
    PROVE  IInv'
  <1> USE SegmentAssumption
  <1> DEFINE i == at[t]
             j == mine[t][i]
  <1>1. /\ i \in Tables /\ i \in Int /\ j \in Slots /\ pc[t] = "unlock"
        /\ \A k \in Tables : k \in Int
        /\ \A n \in Slots : n # NoSlot
    BY DEF IInv, TypeOK, Release, Tables, Slots
  <1>2. Found(t)
    BY <1>1, AlwaysFound, Zenon DEF Release
  <1>3. /\ seg_table' = [seg_table EXCEPT ![i] = [@ EXCEPT ![j] = Empty]]
        /\ mine' = [mine EXCEPT ![t] = [@ EXCEPT ![i] = NoSlot]]
        /\ pc' = [u \in Threads |-> IF pc[u] = "asleep" /\ at[u] = i THEN "lock" ELSE pc[u]]
        /\ at' = [at EXCEPT ![t] = i + 1]
        /\ flba' = flba /\ llba' = llba /\ seg_table_entries' = seg_table_entries /\ broken' = broken
    BY <1>2, Zenon DEF Release
  <1>4. seg_table[i][j].in_use /\ seg_table[i][j].tid = t
    BY <1>2, Zenon DEF Found
  <1> HIDE DEF i, j
  <1>5. /\ \A u \in Threads, k \in Tables : mine'[u][k] = IF u = t /\ k = i THEN NoSlot ELSE mine[u][k]
        /\ \A k \in Tables, n \in Slots : seg_table'[k][n] = IF k = i /\ n = j THEN Empty ELSE seg_table[k][n]
    BY <1>1, <1>3, Zenon DEF IInv, TypeOK
  <1>6. TypeOK'
    <2>1. Empty \in [in_use : BOOLEAN, flba : Lba, llba : Lba, tid : Threads \cup {NoSlot}]
      BY DEF Empty, Lba
    <2>2. seg_table' \in [Tables -> [Slots ->
             [in_use : BOOLEAN, flba : Lba, llba : Lba, tid : Threads \cup {NoSlot}]]]
      BY <1>1, <1>3, <2>1, Zenon DEF IInv, TypeOK
    <2>3. i + 1 \in 0 .. NumTables
      BY <1>1 DEF Tables
    <2>4. pc' \in [Threads -> {"out", "lock", "asleep", "io", "unlock", "exit"}]
      BY <1>3, Zenon DEF IInv, TypeOK
    <2>5. mine' \in [Threads -> [Tables -> Slots \cup {NoSlot}]]
      BY <1>1, <1>3, Zenon DEF IInv, TypeOK
    <2> QED BY <1>3, <2>2, <2>3, <2>4, <2>5, Zenon DEF IInv, TypeOK
  <1>7. Owned'
    <2> SUFFICES ASSUME NEW u \in Threads, NEW k \in Tables, mine'[u][k] # NoSlot
                 PROVE  seg_table'[k][mine'[u][k]] =
                          [in_use |-> TRUE, flba |-> flba[u], llba |-> llba[u], tid |-> u]
      BY <1>3, Zenon DEF Owned
    <2>1. ~(u = t /\ k = i) /\ mine'[u][k] = mine[u][k] /\ mine[u][k] \in Slots
      BY <1>5 DEF IInv, TypeOK
    <2>2. seg_table[k][mine[u][k]] = [in_use |-> TRUE, flba |-> flba[u], llba |-> llba[u], tid |-> u]
      BY <2>1, Zenon DEF IInv, Owned
    <2>3. ~(k = i /\ mine[u][k] = j)
      BY <1>4, <2>1, <2>2
    <2> QED BY <1>5, <2>1, <2>2, <2>3
  <1>8. Apart'
    BY <1>5 DEF IInv, Apart, Empty
  <1>9. Sound'
    BY <1>3, <1>5 DEF IInv, Sound, Empty
  <1>10. ASSUME NEW u \in Threads PROVE Noted(u)'
    <2>1. CASE u = t
      <3>1. pc'[t] = "unlock" /\ at'[t] = i + 1
        BY <1>1, <1>3, Zenon DEF IInv, TypeOK
      <3>2. \A k \in Tables : k < i + 1 => k < i \/ k = i
        BY <1>1
      <3>3. \A k \in Tables : k < i + 1 => mine'[t][k] = NoSlot
        BY <1>1, <1>5, <3>2 DEF IInv, Noted, i
      <3> QED BY <2>1, <3>1, <3>3, Zenon DEF Noted
    <2>2. CASE u # t
      <3>1. at'[u] = at[u] /\ pc'[u] = IF pc[u] = "asleep" /\ at[u] = i THEN "lock" ELSE pc[u]
        BY <1>3, <2>2, Zenon DEF IInv, TypeOK
      <3>2. \A k \in Tables : mine'[u][k] = mine[u][k] /\ (Entered(u, k)' <=> Entered(u, k))
        BY <1>3, <1>5, <2>2 DEF Entered
      <3>3. ASSUME pc[u] = "asleep", at[u] # i PROVE match_found(u)'
        <4>1. at[u] \in Tables /\ match_found(u)
          BY <3>3, Zenon DEF IInv, Noted
        <4>2. \A n \in Slots : seg_table'[at[u]][n] = seg_table[at[u]][n]
          BY <1>5, <3>3, <4>1, Zenon
        <4> QED BY <1>3, <3>1, <4>1, <4>2, Zenon DEF match_found
      <3> QED BY <3>1, <3>2, <3>3, Zenon DEF IInv, Noted
    <2> QED BY <2>1, <2>2, Zenon
  <1>11. Traced'
    <2> SUFFICES ASSUME broken = 0, NEW k \in Tables, NEW n \in Slots, seg_table'[k][n].in_use
                 PROVE  seg_table'[k][n].tid \in Threads /\ mine'[seg_table'[k][n].tid][k] = n
      BY <1>3, Zenon DEF Traced
    <2>1. ~(k = i /\ n = j) /\ seg_table'[k][n] = seg_table[k][n]
      BY <1>5 DEF Empty
    <2>2. seg_table[k][n].tid \in Threads /\ mine[seg_table[k][n].tid][k] = n
      BY <2>1, Zenon DEF IInv, Traced
    <2>3. ~(seg_table[k][n].tid = t /\ k = i)
      BY <2>1, <2>2, Zenon DEF j
    <2> QED BY <1>5, <2>1, <2>2, <2>3
  <1> QED BY <1>6, <1>7, <1>8, <1>9, <1>10, <1>11, Zenon DEF IInv

(* After the last table no slot is noted.                                   *)
LEMMA UnlockedKeeps ==
    ASSUME IInv, NEW t \in Threads, Unlocked(t)
    PROVE  IInv'
  <1> USE SegmentAssumption
  <1>0. \A i \in Tables : mine[t][i] = NoSlot
    <2>1. \A i \in Tables : i < at[t]
      BY DEF Unlocked, Tables
    <2> QED BY <2>1, Zenon DEF IInv, Noted, Unlocked
  <1>1. TypeOK'
    BY DEF IInv, TypeOK, Unlocked, Lba
  <1>2. Owned' /\ Apart' /\ Traced'
    BY <1>0, Zenon DEF IInv, TypeOK, Owned, Apart, Traced, Unlocked
  <1>3. Sound'
    BY DEF IInv, TypeOK, Sound, Unlocked
  <1>4. ASSUME NEW u \in Threads PROVE Noted(u)'
    <2>1. CASE u = t
      BY <1>0, <2>1, Zenon DEF IInv, TypeOK, Noted, Unlocked
    <2>2. CASE u # t
      <3>1. pc'[u] = pc[u] /\ at'[u] = at[u] /\ mine'[u] = mine[u] /\ flba'[u] = flba[u] /\ llba'[u] = llba[u]
        BY <2>2, Zenon DEF IInv, TypeOK, Unlocked
      <3>2. seg_table' = seg_table /\ seg_table_entries' = seg_table_entries
        BY Zenon DEF Unlocked
      <3>3. Noted(u)
        BY Zenon DEF IInv
      <3> QED BY ONLY <3>1, <3>2, <3>3, Zenon DEF Noted, Entered, match_found
    <2> QED BY <2>1, <2>2, Zenon
  <1> QED BY <1>1, <1>2, <1>3, <1>4, Zenon DEF IInv

(* A step that changes nothing.                                             *)
LEMMA StutterKeeps == IInv /\ UNCHANGED vars => IInv'
  BY DEF IInv, TypeOK, Owned, Apart, Sound, Noted, Entered, match_found, Traced, vars

(* Every step keeps the invariant.                                          *)
LEMMA NextKeeps ==
    ASSUME TablesCover, IInv, Next
    PROVE  IInv'
  <1> PICK t \in Threads : Call(t) \/ Step(t) \/ BreakOff(t)
    BY Zenon DEF Next
  <1>1. CASE Call(t)
    BY <1>1, CallKeeps, Zenon
  <1>2. CASE BreakOff(t)
    BY <1>2, BreakOffKeeps, Zenon
  <1>3. CASE Step(t)
    <2>1. Skip(t) \/ Wait(t) \/ Take(t) \/ Done(t) \/ Pass(t) \/ Release(t) \/ Unlocked(t)
      BY <1>3, Zenon DEF Step
    <2> QED BY <2>1, SkipKeeps, WaitKeeps, TakeKeeps, DoneKeeps, PassKeeps, ReleaseKeeps, UnlockedKeeps, Zenon
  <1> QED BY <1>1, <1>2, <1>3, Zenon

(* The invariant holds always.                                              *)
LEMMA Invariance ==
    ASSUME FitsInt
    PROVE  Spec => []IInv
  <1>1. IInv /\ [Next]_vars => IInv'
    BY TablesCoverDevice, NextKeeps, StutterKeeps, Zenon
  <1> QED BY <1>1, InitIInv, PTL DEF Spec

(***************************************************************************)
(* What the invariant implies                                              *)
(***************************************************************************)

(* Two threads doing I/O on overlapping ranges would both have entered the  *)
(* table of the first common block, where the ranges are apart.             *)
LEMMA Excludes ==
    ASSUME TablesCover, IInv
    PROVE  Exclusive
  <1> USE SegmentAssumption
  <1>1. ASSUME NEW t \in Threads, NEW u \in Threads, t # u, pc[t] = "io", pc[u] = "io",
               flba[t] <= flba[u], flba[u] <= llba[t]
        PROVE  FALSE
    <2> DEFINE b == flba[u]
    <2>1. b \in Lba /\ b \in flba[t] .. llba[t] /\ b \in flba[u] .. llba[u]
      BY <1>1 DEF IInv, TypeOK, Sound, Lba
    <2>2. PICK i \in Tables : Home(i, b)
      BY <2>1, Zenon DEF TablesCover
    <2>3. mine[t][i] # NoSlot /\ mine[u][i] # NoSlot
      BY <1>1, <2>1, <2>2, Zenon DEF IInv, Noted, Entered
    <2>4. /\ seg_table[i][mine[t][i]] = [in_use |-> TRUE, flba |-> flba[t], llba |-> llba[t], tid |-> t]
          /\ seg_table[i][mine[u][i]] = [in_use |-> TRUE, flba |-> flba[u], llba |-> llba[u], tid |-> u]
          /\ mine[t][i] \in Slots /\ mine[u][i] \in Slots
      <3>1. mine[t][i] \in Slots \cup {NoSlot} /\ mine[u][i] \in Slots \cup {NoSlot}
        BY DEF IInv, TypeOK
      <3> QED BY <2>3, <3>1, Zenon DEF IInv, Owned
    <2>5. mine[t][i] # mine[u][i]
      BY <1>1, <2>4
    <2>6. llba[t] < flba[u] \/ llba[u] < flba[t]
      BY <2>4, <2>5 DEF IInv, Apart
    <2> QED BY <1>1, <2>6 DEF IInv, TypeOK, Sound, Lba
  <1>2. \A t \in Threads : flba[t] \in Int /\ llba[t] \in Int /\ flba[t] <= llba[t]
    BY DEF IInv, TypeOK, Sound, Lba
  <1> QED BY <1>1, <1>2 DEF Exclusive

(* Two threads never do I/O on a common block at the same time, on a device *)
(* whose blocks the ints of segment_table_init can count.                   *)
THEOREM SegmentsExclusive ==
    ASSUME FitsInt
    PROVE  Spec => []Exclusive
  <1>1. IInv => Exclusive
    BY Excludes, TablesCoverDevice, Zenon
  <1> QED BY <1>1, Invariance, PTL

(* A sleeper's table has a range in use that overlaps; its owner has passed *)
(* that table and has yet to release it.                                    *)
LEMMA Wakes ==
    ASSUME IInv
    PROVE  WakeupGuaranteed
  <1> USE SegmentAssumption
  <1> SUFFICES ASSUME broken = 0, Running, NEW t \in Threads, pc[t] = "asleep"
               PROVE  \E u \in Threads \ {t} : HoldsUp(u, t, at[t])
    BY Zenon DEF WakeupGuaranteed, AlwaysWoken
  <1>1. at[t] \in Tables /\ mine[t][at[t]] = NoSlot
    BY DEF IInv, Noted, Tables
  <1>2. PICK j \in Slots : seg_table[at[t]][j].in_use /\ Overlap(seg_table[at[t]][j], flba[t], llba[t])
    BY Zenon DEF IInv, Noted, match_found
  <1> DEFINE u == seg_table[at[t]][j].tid
  <1>3. u \in Threads /\ mine[u][at[t]] = j /\ j # NoSlot
    BY <1>1, <1>2 DEF IInv, Traced, Slots
  <1> HIDE DEF u
  <1>4. u # t
    BY <1>1, <1>3, Zenon
  <1>5. pc[u] = "asleep" => at[u] > at[t]
    <2>1. ASSUME pc[u] = "asleep" PROVE at[u] \in Int /\ at[t] \in Int /\ ~(at[t] >= at[u])
      BY <1>1, <1>3, <2>1 DEF IInv, Noted, Tables
    <2> QED BY <2>1
  <1>6. HoldsUp(u, t, at[t])
    BY <1>2, <1>3, <1>5, Zenon DEF HoldsUp
  <1> QED BY <1>3, <1>4, <1>6, Zenon

(* A thread that sleeps in seg_lock always has another thread that holds an *)
(* overlapping segment and is on its way to unlock it, as long as no write  *)
(* of the nwrites_left loop has failed.                                     *)
THEOREM SleepersAreWoken ==
    ASSUME FitsInt
    PROVE  Spec => []WakeupGuaranteed
  <1>1. IInv => WakeupGuaranteed
    BY Wakes, Zenon
  <1> QED BY <1>1, Invariance, PTL

(***************************************************************************)
(* The segment lock implements the lock on sets of blocks                  *)
(***************************************************************************)

(* Only steps into and out of the operations change who holds what.         *)
LEMMA HeldUnchanged ==
    ASSUME \A u \in Threads : (pc'[u] = "io") <=> (pc[u] = "io"),
           \A u \in Threads : pc[u] = "io" => flba'[u] = flba[u] /\ llba'[u] = llba[u]
    PROVE  held' = held
  BY Zenon DEF held

(* A thread that comes back from seg_lock takes blocks nobody holds.        *)
LEMMA LockStep ==
    ASSUME IInv, Exclusive', NEW t \in Threads, pc[t] = "lock",
           pc' = [pc EXCEPT ![t] = "io"], flba' = flba, llba' = llba
    PROVE  Abstract!Next
  <1> USE SegmentAssumption
  <1> DEFINE B == flba[t] .. llba[t]
  <1>1. \A u \in Threads : flba[u] \in Lba /\ llba[u] \in Lba /\ flba[u] \in Int /\ llba[u] \in Int
                           /\ flba[u] <= llba[u]
    BY DEF IInv, TypeOK, Sound, Lba
  <1>2. B # {} /\ B \in SUBSET Lba
    BY <1>1 DEF Lba
  <1>3. pc'[t] = "io" /\ \A u \in Threads : u # t => pc'[u] = pc[u]
    BY Zenon DEF IInv, TypeOK
  <1>4. held[t] = {}
    BY Zenon DEF held
  <1>5. ASSUME NEW u \in Threads PROVE held[u] \cap B = {}
    <2>1. CASE pc[u] = "io"
      <3>1. u # t /\ (llba[t] < flba[u] \/ llba[u] < flba[t])
        BY <1>3, <2>1, Zenon DEF Exclusive
      <3>2. held[u] = flba[u] .. llba[u]
        BY <2>1, Zenon DEF held
      <3> QED BY <1>1, <3>1, <3>2
    <2>2. CASE pc[u] # "io"
      BY <2>2, Zenon DEF held
    <2> QED BY <2>1, <2>2, Zenon
  <1>6. held' = [held EXCEPT ![t] = B]
    BY <1>3, Zenon DEF held
  <1>7. Abstract!Lock(t, B)
    BY <1>2, <1>4, <1>5, <1>6, Zenon DEF Abstract!Lock
  <1> QED BY <1>2, <1>7, Zenon DEF Abstract!Next

(* A thread that leaves its operations gives up its blocks.                 *)
LEMMA UnlockStep ==
    ASSUME IInv, NEW t \in Threads, pc[t] = "io", pc'[t] # "io",
           \A u \in Threads : u # t => pc'[u] = pc[u] /\ flba'[u] = flba[u] /\ llba'[u] = llba[u]
    PROVE  Abstract!Next
  <1>1. held[t] # {}
    BY SegmentAssumption DEF IInv, TypeOK, Sound, Lba, held
  <1>2. held' = [held EXCEPT ![t] = {}]
    BY Zenon DEF held
  <1>3. Abstract!Unlock(t)
    BY <1>1, <1>2, Zenon DEF Abstract!Unlock
  <1> QED BY <1>3, Zenon DEF Abstract!Next

(* The loop of seg_lock ends with the lock taken, or goes on.               *)
LEMMA AdvanceStep ==
    ASSUME IInv, Exclusive', NEW t \in Threads, pc[t] = "lock", NEW ends, Advance(t, ends),
           flba' = flba, llba' = llba
    PROVE  Abstract!Next \/ held' = held
  <1>1. CASE ends \/ at[t] + 1 = NumTables
    BY <1>1, LockStep, Zenon DEF Advance
  <1>2. CASE ~(ends \/ at[t] + 1 = NumTables)
    BY <1>2, Zenon DEF Advance, held
  <1> QED BY <1>1, <1>2, Zenon

(* Every step takes, releases or leaves alone a set of blocks.              *)
LEMMA StepRefines ==
    ASSUME IInv, Exclusive', Next
    PROVE  Abstract!Next \/ held' = held
  <1> PICK t \in Threads : Call(t) \/ Step(t) \/ BreakOff(t)
    BY Zenon DEF Next
  <1>1. CASE Call(t)
    <2> PICK f \in Lba, l \in Lba : seg_lock(t, f, l)
      BY <1>1, Zenon DEF Call
    <2> QED BY HeldUnchanged, Zenon DEF IInv, TypeOK, seg_lock
  <1>2. CASE BreakOff(t)
    BY <1>2, UnlockStep, Zenon DEF IInv, TypeOK, BreakOff
  <1>3. CASE Skip(t)
    BY <1>3, AdvanceStep, Zenon DEF Skip
  <1>4. CASE Wait(t)
    BY <1>4, HeldUnchanged, Zenon DEF IInv, TypeOK, Wait
  <1>5. CASE Take(t)
    <2>1. pc[t] = "lock" /\ flba' = flba /\ llba' = llba
      BY <1>5, Zenon DEF Take
    <2>2. CASE \E j \in Slots : Unused(at[t], j) /\ Enter(t, j)
      BY <2>1, <2>2, AdvanceStep, Zenon DEF Enter
    <2>3. CASE pc' = [pc EXCEPT ![t] = "exit"]
      BY <2>1, <2>3, HeldUnchanged, Zenon DEF IInv, TypeOK
    <2> QED BY <1>5, <2>2, <2>3, Zenon DEF Take
  <1>6. CASE Done(t)
    BY <1>6, UnlockStep, Zenon DEF IInv, TypeOK, Done
  <1>7. CASE Pass(t)
    BY <1>7, HeldUnchanged, Zenon DEF Pass
  <1>8. CASE Release(t)
    <2>1. flba' = flba /\ llba' = llba /\ pc[t] = "unlock"
      BY <1>8, Zenon DEF Release
    <2>2. \A u \in Threads : (pc'[u] = "io") <=> (pc[u] = "io")
      BY <1>8 DEF Release, IInv, TypeOK
    <2> QED BY <2>1, <2>2, HeldUnchanged, Zenon
  <1>9. CASE Unlocked(t)
    BY <1>9, HeldUnchanged, Zenon DEF IInv, TypeOK, Unlocked
  <1> QED BY <1>1, <1>2, <1>3, <1>4, <1>5, <1>6, <1>7, <1>8, <1>9, Zenon DEF Step

(* seg_lock and seg_unlock, with their tables, sleepers and several         *)
(* critical sections per call, implement the lock on sets of blocks.        *)
THEOREM SegmentLockIsRangeLock ==
    ASSUME FitsInt
    PROVE  Spec => IsRangeLock
  <1>1. Init => Abstract!Init
    BY Zenon DEF Init, Abstract!Init, held
  <1>2. IInv /\ Exclusive' /\ [Next]_vars => [Abstract!Next]_held
    <2>1. UNCHANGED vars => held' = held
      BY Zenon DEF vars, held
    <2> QED BY <2>1, StepRefines, Zenon
  <1> QED BY <1>1, <1>2, Invariance, SegmentsExclusive, PTL DEF Spec, IsRangeLock, Abstract!Spec

(***************************************************************************)
(* The tables do not fill up                                               *)
(***************************************************************************)

(* Every variable has its type; the number of entries of a table never      *)
(* exceeds MAX_THREADS + MAX_BWRC_THREADS.                                  *)
THEOREM SegmentTypeCorrect ==
    ASSUME FitsInt
    PROVE  Spec => []TypeOK
  <1>1. IInv => TypeOK
    BY Zenon DEF IInv
  <1> QED BY <1>1, Invariance, PTL

(* A set of numbers that is not empty has a least one.                      *)
LEMMA LeastNumber ==
    ASSUME NEW T, T \subseteq Nat, T # {}
    PROVE  \E x \in T : \A y \in T : x <= y
  <1> DEFINE R == {ss \in Nat \X Nat : ss[1] < ss[2]}
  <1>1. IsWellFoundedOn(R, Nat)
    BY NatLessThanWellFounded, Zenon DEF OpToRel
  <1> HIDE DEF R
  <1>2. PICK x \in T : \A y \in T : ~(<<y, x>> \in R)
    BY <1>1, WFMin, Zenon
  <1>3. ASSUME NEW y \in T PROVE x <= y
    <2>1. x \in Nat /\ y \in Nat
      BY Zenon
    <2>2. y < x => <<y, x>> \in R
      BY <2>1, Zenon DEF R
    <2> QED BY <1>2, <2>1, <2>2
  <1> QED BY <1>3, Zenon

(* If a slot of the table is not in use, the scan of seg_lock finds one.    *)
LEMMA FirstUnused ==
    ASSUME IInv, NEW i \in Tables, NEW n \in Slots, ~seg_table[i][n].in_use
    PROVE  \E j \in Slots : Unused(i, j)
  <1> USE SegmentAssumption
  <1> DEFINE Free == {j \in Slots : ~seg_table[i][j].in_use}
  <1>1. Free \subseteq Nat /\ Free # {}
    BY DEF Slots
  <1>2. PICK j \in Free : \A k \in Free : j <= k
    <2> HIDE DEF Free
    <2> QED BY <1>1, LeastNumber, Zenon
  <1>3. \A k \in Slots : k < j => seg_table[i][k].in_use
    BY <1>2 DEF Slots
  <1>4. j <= seg_table_entries[i]
    <2>1. seg_table_entries[i] \in Nat /\ j \in Slots
      BY DEF IInv, TypeOK
    <2>2. ASSUME seg_table_entries[i] < j PROVE FALSE
      <3>1. seg_table_entries[i] \in Slots
        BY <2>1, <2>2 DEF Slots
      <3>2. seg_table_entries[i] < seg_table_entries[i]
        BY <1>3, <2>2, <3>1, Zenon DEF IInv, Sound
      <3> QED BY <2>1, <3>2
    <2> QED BY <2>1, <2>2 DEF Slots
  <1> QED BY <1>3, <1>4, Zenon DEF Unused

(* A set of slots is finite.                                                *)
LEMMA SlotsFinite ==
    /\ IsFiniteSet(Slots) /\ Cardinality(Slots) = MaxEntries
    /\ \A S \in SUBSET Slots : IsFiniteSet(S) /\ Cardinality(S) \in Nat
  <1>1. IsFiniteSet(Slots) /\ Cardinality(Slots) = MaxEntries
    BY FS_Interval, SegmentAssumption DEF Slots
  <1>2. ASSUME NEW S \in SUBSET Slots PROVE IsFiniteSet(S) /\ Cardinality(S) \in Nat
    BY <1>1, FS_Subset, FS_CardinalityType, Zenon
  <1> QED BY <1>1, <1>2, Zenon

(* A thread that looks for a slot finds one: the slots in use are stale or  *)
(* noted by one of the other threads.                                       *)
LEMMA RoomLeft ==
    ASSUME IInv, StaleBounded, IsFiniteSet(Threads), Cardinality(Threads) + MaxBroken <= MaxEntries,
           NEW t \in Threads, NEW i \in Tables, mine[t][i] = NoSlot
    PROVE  \E j \in Slots : Unused(i, j)
  <1> USE SegmentAssumption
  <1> SUFFICES ASSUME \A j \in Slots : seg_table[i][j].in_use PROVE FALSE
    BY FirstUnused, Zenon
  <1> DEFINE Used == Slots \ Stale(i)
             owner == [j \in Used |-> CHOOSE u \in Threads : mine[u][i] = j]
             Others == Threads \ {t}
  <1>1. \A j \in Used : owner[j] \in Threads /\ mine[owner[j]][i] = j
    BY Zenon DEF Stale
  <1>2. \A j \in Used : owner[j] # t
    BY <1>1 DEF Slots
  <1>3. owner \in Injection(Used, Others)
    <2>1. owner \in [Used -> Others]
      BY <1>1, <1>2, Zenon
    <2>2. \A j, k \in Used : owner[j] = owner[k] => j = k
      BY <1>1, Zenon
    <2> HIDE DEF owner, Used, Others
    <2> QED BY <2>1, <2>2, Zenon DEF Injection, IsInjective
  <1>4. IsFiniteSet(Others) /\ Cardinality(Others) = Cardinality(Threads) - 1 /\ Cardinality(Threads) \in Nat
    BY FS_RemoveElement, FS_CardinalityType, Zenon
  <1>5. Cardinality(Used) <= Cardinality(Others)
    <2> HIDE DEF owner, Used, Others
    <2> QED BY <1>3, <1>4, FS_Injection, Zenon
  <1>6. Stale(i) \in SUBSET Slots /\ Stale(i) \cap Slots = Stale(i) /\ Slots \cap Stale(i) = Stale(i)
    BY Zenon DEF Stale
  <1>7. Cardinality(Used) = MaxEntries - Cardinality(Stale(i)) /\ Cardinality(Stale(i)) \in Nat
    <2>1. Cardinality(Used) = Cardinality(Slots) - Cardinality(Slots \cap Stale(i))
      BY SlotsFinite, FS_Difference, Zenon
    <2>2. Cardinality(Slots) = MaxEntries /\ Slots \cap Stale(i) = Stale(i) /\ Cardinality(Stale(i)) \in Nat
      BY <1>6, SlotsFinite, Zenon
    <2>3. Cardinality(Slots \cap Stale(i)) = Cardinality(Stale(i))
      BY <2>2, Zenon
    <2> HIDE DEF Used
    <2> QED BY <2>1, <2>2, <2>3, Zenon
  <1>8. Cardinality(Stale(i)) <= MaxBroken
    BY <1>7 DEF StaleBounded, IInv, TypeOK
  <1> HIDE DEF Used, Others
  <1> QED BY <1>4, <1>5, <1>7, <1>8

(* A step that leaves no other slot of a table stale keeps the bound.       *)
LEMMA NoMoreStale ==
    ASSUME IInv, StaleBounded, broken' = broken, \A i \in Tables : Stale(i)' \subseteq Stale(i)
    PROVE  StaleBounded'
  <1>1. ASSUME NEW i \in Tables PROVE Cardinality(Stale(i)') <= broken
    <2>1. Stale(i) \in SUBSET Slots
      BY Zenon DEF Stale
    <2>2. Cardinality(Stale(i)') <= Cardinality(Stale(i)) /\ Cardinality(Stale(i)') \in Nat
          /\ Cardinality(Stale(i)) \in Nat
      <3> DEFINE A == Stale(i)
                 B == Stale(i)'
      <3>1. B \subseteq A /\ A \in SUBSET Slots /\ B \in SUBSET Slots
        BY <2>1, Zenon
      <3> HIDE DEF A, B
      <3>2. Cardinality(B) <= Cardinality(A) /\ Cardinality(B) \in Nat /\ Cardinality(A) \in Nat
        BY <3>1, SlotsFinite, FS_Subset, Zenon
      <3> QED BY <3>2, Zenon DEF A, B
    <2>3. Cardinality(Stale(i)) <= broken
      BY Zenon DEF StaleBounded
    <2> QED BY <2>2, <2>3, SegmentAssumption DEF IInv, TypeOK
  <1> QED BY <1>1, Zenon DEF StaleBounded

(* A write of the nwrites_left loop that fails leaves one more stale slot   *)
(* in each table of its range.                                              *)
LEMMA BreakOffStale ==
    ASSUME IInv, StaleBounded, NEW t \in Threads, BreakOff(t)
    PROVE  StaleBounded'
  <1> USE SegmentAssumption
  <1>1. ASSUME NEW i \in Tables PROVE Cardinality(Stale(i)') <= broken'
    <2> DEFINE A == Stale(i)
               B == Stale(i)'
               n == mine[t][i]
    <2>1. A \in SUBSET Slots /\ B \in SUBSET Slots
      BY Zenon DEF Stale
    <2>2. B \subseteq A \cup {n}
      BY Zenon DEF BreakOff, Stale, IInv, TypeOK
    <2>3. Cardinality(A) <= broken
      BY Zenon DEF StaleBounded
    <2> HIDE DEF A, B, n
    <2>4. IsFiniteSet(A) /\ Cardinality(A) \in Nat /\ IsFiniteSet(B) /\ Cardinality(B) \in Nat
      BY <2>1, SlotsFinite, Zenon
    <2>5. IsFiniteSet(A \cup {n}) /\ Cardinality(A \cup {n}) \in Nat
          /\ Cardinality(A \cup {n}) <= Cardinality(A) + 1
      <3>1. IsFiniteSet(A \cup {n})
            /\ Cardinality(A \cup {n}) = IF n \in A THEN Cardinality(A) ELSE Cardinality(A) + 1
        BY <2>4, FS_AddElement, Zenon
      <3> QED BY <2>4, <3>1
    <2>6. Cardinality(B) <= Cardinality(A \cup {n})
      BY <2>2, <2>5, FS_Subset, Zenon
    <2>7. broken \in Nat /\ broken' = broken + 1
      BY DEF BreakOff, IInv, TypeOK
    <2>8. Cardinality(B) <= broken'
      BY <2>3, <2>4, <2>5, <2>6, <2>7
    <2> QED BY <2>8, Zenon DEF B
  <1> QED BY <1>1, Zenon DEF StaleBounded

(* The entries seg_lock makes are noted by their thread.                    *)
LEMMA EnterStale ==
    ASSUME IInv, NEW t \in Threads, at[t] \in Tables, mine[t][at[t]] = NoSlot,
           NEW j \in Slots, Enter(t, j), NEW i \in Tables
    PROVE  Stale(i)' \subseteq Stale(i)
  <1> USE SegmentAssumption
  <1>1. seg_table' = [seg_table EXCEPT ![at[t]] = [@ EXCEPT ![j] =
               [in_use |-> TRUE, flba |-> flba[t], llba |-> llba[t], tid |-> t]]]
        /\ mine' = [mine EXCEPT ![t] = [@ EXCEPT ![at[t]] = j]]
    BY Zenon DEF Enter
  <1>2. ASSUME NEW k \in Slots, seg_table'[i][k].in_use, \A u \in Threads : mine'[u][i] # k
        PROVE  seg_table[i][k].in_use /\ \A u \in Threads : mine[u][i] # k
    <2>1. mine'[t][i] = IF i = at[t] THEN j ELSE mine[t][i]
      BY <1>1, Zenon DEF IInv, TypeOK
    <2>2. \A u \in Threads : u # t => mine'[u] = mine[u]
      BY <1>1, Zenon DEF IInv, TypeOK
    <2>3. NoSlot # k
      BY DEF Slots
    <2>4. i # at[t] \/ k # j
      BY <1>2, <2>1, Zenon
    <2>5. seg_table'[i][k] = seg_table[i][k]
      BY <1>1, <2>4, Zenon DEF IInv, TypeOK
    <2> QED BY <1>2, <2>1, <2>2, <2>3, <2>5, Zenon
  <1> QED BY <1>2, Zenon DEF Stale

(* The slot seg_unlock marks unused is no longer in use.                    *)
LEMMA ReleaseStale ==
    ASSUME IInv, NEW t \in Threads, Release(t), NEW i \in Tables
    PROVE  Stale(i)' \subseteq Stale(i)
  <1> USE SegmentAssumption
  <1>0. at[t] \in Tables /\ mine[t][at[t]] # NoSlot /\ Found(t)
    BY AlwaysFound, Zenon DEF Release
  <1>1. seg_table' = [seg_table EXCEPT ![at[t]] = [@ EXCEPT ![mine[t][at[t]]] = Empty]]
        /\ mine' = [mine EXCEPT ![t] = [@ EXCEPT ![at[t]] = NoSlot]]
    BY <1>0, Zenon DEF Release
  <1>2. ASSUME NEW k \in Slots, seg_table'[i][k].in_use, \A u \in Threads : mine'[u][i] # k
        PROVE  seg_table[i][k].in_use /\ \A u \in Threads : mine[u][i] # k
    <2>1. mine'[t][i] = IF i = at[t] THEN NoSlot ELSE mine[t][i]
      BY <1>1, Zenon DEF IInv, TypeOK
    <2>2. \A u \in Threads : u # t => mine'[u] = mine[u]
      BY <1>1, Zenon DEF IInv, TypeOK
    <2>3. CASE i = at[t] /\ k = mine[t][i]
      <3>1. seg_table'[i][k] = Empty
        BY <1>0, <1>1, <2>3, Zenon DEF IInv, TypeOK
      <3> QED BY <1>2, <3>1 DEF Empty
    <2>4. CASE ~(i = at[t] /\ k = mine[t][i])
      <3>1. seg_table'[i][k] = seg_table[i][k]
        BY <1>1, <2>4, Zenon DEF IInv, TypeOK
      <3> QED BY <1>2, <2>1, <2>2, <2>4, <3>1, Zenon
    <2> QED BY <2>3, <2>4, Zenon
  <1> QED BY <1>2, Zenon DEF Stale

(* Every step keeps the bound on the stale slots, and with it no step       *)
(* leaves the program.                                                      *)
LEMMA NextNeverExits ==
    ASSUME IInv, StaleBounded, Running, Next,
           IsFiniteSet(Threads), Cardinality(Threads) + MaxBroken <= MaxEntries
    PROVE  StaleBounded' /\ Running'
  <1> USE SegmentAssumption
  <1> PICK t \in Threads : Call(t) \/ Step(t) \/ BreakOff(t)
    BY Zenon DEF Next
  <1>0. ASSUME UNCHANGED <<mine, seg_table, broken>> PROVE StaleBounded'
    BY <1>0, Zenon DEF StaleBounded, Stale
  <1>1. CASE Call(t)
    <2> PICK f \in Lba, l \in Lba : seg_lock(t, f, l)
      BY <1>1, Zenon DEF Call
    <2>1. mine' = mine
      BY DEF seg_lock, IInv, Noted, TypeOK
    <2>2. Running'
      BY Zenon DEF seg_lock, Running, IInv, TypeOK
    <2> QED BY <1>0, <2>1, <2>2, Zenon DEF seg_lock
  <1>2. CASE BreakOff(t)
    <2>1. Running'
      BY <1>2, Zenon DEF BreakOff, Running, IInv, TypeOK
    <2> QED BY <1>2, <2>1, BreakOffStale, Zenon
  <1>3. CASE Skip(t)
    BY <1>0, <1>3, Zenon DEF Skip, Advance, Running, IInv, TypeOK
  <1>4. CASE Wait(t)
    BY <1>0, <1>4, Zenon DEF Wait, Running, IInv, TypeOK
  <1>5. CASE Take(t)
    <2>1. at[t] \in Tables /\ mine[t][at[t]] = NoSlot
      BY <1>5 DEF Take, IInv, Noted, Tables
    <2>2. PICK j \in Slots : Unused(at[t], j) /\ Enter(t, j)
      BY <1>5, <2>1, RoomLeft, Zenon DEF Take
    <2>3. StaleBounded'
      BY <1>5, <2>1, <2>2, EnterStale, NoMoreStale, Zenon DEF Take
    <2>4. Running'
      BY <2>2, Zenon DEF Enter, Advance, Running, IInv, TypeOK
    <2> QED BY <2>3, <2>4, Zenon
  <1>6. CASE Done(t)
    BY <1>0, <1>6, Zenon DEF Done, Running, IInv, TypeOK
  <1>7. CASE Pass(t)
    BY <1>0, <1>7, Zenon DEF Pass, Running
  <1>8. CASE Release(t)
    <2>1. StaleBounded'
      BY <1>8, ReleaseStale, NoMoreStale, Zenon DEF Release
    <2>2. Found(t)
      BY <1>8, AlwaysFound, Zenon DEF Release
    <2>3. Running'
      BY <1>8, <2>2, Zenon DEF Release, Running, IInv, TypeOK
    <2> QED BY <2>1, <2>3, Zenon
  <1>9. CASE Unlocked(t)
    BY <1>0, <1>9, Zenon DEF Unlocked, Running, IInv, TypeOK
  <1> QED BY <1>1, <1>2, <1>3, <1>4, <1>5, <1>6, <1>7, <1>8, <1>9, Zenon DEF Step

(* With at least as many entries as there are threads and failed writes,    *)
(* neither the "no unused entry" exit of seg_lock nor the "entry not found" *)
(* exit of seg_unlock is ever taken, whatever the threads lock and whichever *)
(* of their writes fail.                                                    *)
THEOREM LockNeverExits ==
    ASSUME FitsInt, IsFiniteSet(Threads)
    PROVE  Spec => []NeverExits
  <1>1. CASE Cardinality(Threads) + MaxBroken <= MaxEntries
    <2>1. Init => StaleBounded /\ Running
      <3> SUFFICES ASSUME Init PROVE StaleBounded /\ Running
        BY Zenon
      <3>1. \A i \in Tables : Stale(i) = {}
        BY Zenon DEF Init, Stale, Empty
      <3>2. \A i \in Tables : Cardinality(Stale(i)) = 0
        BY <3>1, FS_EmptySet, Zenon
      <3> QED BY <3>2 DEF Init, StaleBounded, Running
    <2>2. IInv /\ StaleBounded /\ Running /\ [Next]_vars => (StaleBounded /\ Running)'
      <3>1. StaleBounded /\ Running /\ UNCHANGED vars => (StaleBounded /\ Running)'
        BY Zenon DEF StaleBounded, Stale, Running, vars
      <3> QED BY <1>1, <3>1, NextNeverExits, Zenon
    <2>3. Running => NeverExits
      BY Zenon DEF NeverExits
    <2> QED BY <2>1, <2>2, <2>3, Invariance, PTL DEF Spec
  <1>2. CASE ~(Cardinality(Threads) + MaxBroken <= MaxEntries)
    <2>1. NeverExits
      BY <1>2, Zenon DEF NeverExits
    <2> QED BY <2>1, PTL
  <1> QED BY <1>1, <1>2, Zenon
=============================================================================
