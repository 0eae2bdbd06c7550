--------------------------- MODULE StorageProofs ---------------------------
(***************************************************************************)
(* Proofs about the storage exerciser, for any rule files, any number of   *)
(* threads and any disk.                                                   *)
(***************************************************************************)
EXTENDS Storage, FiniteSetTheorems, TLAPS

(***************************************************************************)
(* The memory of the contexts.  main counts a thread after it has been     *)
(* woken by it, and the thread takes itself out of the count at its end;   *)
(* a BWRC context may by then have a second thread, which main has created *)
(* because the status of the fencepost is 'F' again.  The counts are kept  *)
(* as sets of tickets, one for each thread that has been counted.          *)
(***************************************************************************)
Places == {"none", "born", "waiting", "ready", "open", "catchup", "top", "close",
           "draw", "aim", "lock", "io"}
Creating == {"create", "creating", "created"}
Resting == {"stanza", "next", "finished", "leaving", "freed"}
Ended == {"done", "died", "gaveup", "twice", "reread"}

Shape ==
  /\ rules \in RuleFiles
  /\ main \in Creating \cup Resting \cup Ended \cup {"finishing"}
  /\ stanza \in 1 .. Len(rules.stanzas)
  /\ todo \in Seq(Contexts)
  /\ th \in [Contexts -> Places]
  /\ ending \in [Contexts -> Nat]
  /\ non_BWRC_mem \in BOOLEAN /\ BWRC_mem \in BOOLEAN

(* The threads of a context that main has counted.                         *)
Uncounted(c) == main \in {"creating", "created"} /\ c = Head(todo)
Numbers == [c \in Contexts |-> ending[c] + IF th[c] = "none" \/ Uncounted(c) THEN 0 ELSE 1]

Tickets(S, n) == {x \in S \X (Nat \ {0}) : x[2] <= n[x[1]]}

Running(S, n) == IsFiniteSet(Tickets(S, Numbers)) /\ n = Cardinality(Tickets(S, Numbers))

Gone(S) == \A c \in S : th[c] = "none" /\ ending[c] = 0

(* The thread that main is creating.                                       *)
NewThread ==
  /\ main = "creating" => todo # <<>> /\ th[Head(todo)] = "born"
  /\ main = "created" => todo # <<>> /\ th[Head(todo)] = "waiting"
  /\ \A c \in Contexts : th[c] = "born" => main = "creating" /\ c = Head(todo)

(* When there are threads that read, and their contexts.                   *)
ReaderContexts ==
  /\ main \in Creating =>
       /\ non_BWRC_mem = ~is_only_BWRC_stanza(rules.stanzas[stanza])
       /\ \A i \in 1 .. Len(todo) : todo[i] \in Readers => non_BWRC_mem
  /\ main = "finishing" => non_BWRC_mem
  /\ main \in Resting \/ ~non_BWRC_mem => Gone(Readers)

WriterContexts == BWRC_mem \/ (main = "freed" /\ Gone(Writers))

Accounts ==
  /\ NewThread /\ ReaderContexts /\ WriterContexts
  /\ Running(Writers, BWRC_threads_running) /\ Running(Readers, non_BWRC_threads_running)

AllocInv == Shape /\ ContextsAllocated /\ (Alive => Accounts)

-----------------------------------------------------------------------------
(* The number of one context goes up by one.                               *)
OneMore(S, n, m, k) ==
  \A c \in S : n[c] \in Nat /\ m[c] = IF c = k THEN n[c] + 1 ELSE n[c]

(* One ticket is added then.                                               *)
LEMMA TicketAdded ==
  ASSUME NEW S, NEW n, NEW m, NEW k, OneMore(S, n, m, k)
  PROVE  k \in S => /\ Tickets(S, m) = Tickets(S, n) \cup {<<k, m[k]>>}
                    /\ <<k, m[k]>> \notin Tickets(S, n)
  <1>1. \A c \in S : n[c] \in Nat /\ m[c] \in Nat /\ (c # k => m[c] = n[c])
    BY DEF OneMore
  <1>2. k \in S => m[k] = n[k] + 1
    BY Zenon DEF OneMore
  <1>3. ASSUME k \in S PROVE <<k, m[k]>> \notin Tickets(S, n)
    BY <1>1, <1>2, <1>3 DEF Tickets
  <1>4. ASSUME k \in S PROVE Tickets(S, m) = Tickets(S, n) \cup {<<k, m[k]>>}
    <2>1. ASSUME NEW c \in S, NEW i \in Nat \ {0} PROVE i <= m[c] <=> i <= n[c] \/ (c = k /\ i = m[k])
      <3>1. CASE c = k
        <4>1. n[k] \in Nat /\ m[k] = n[k] + 1
          BY <1>1, <1>2, <1>4, Zenon
        <4> QED BY <3>1, <4>1
      <3>2. CASE c # k
        BY <1>1, <3>2, Zenon
      <3> QED BY <3>1, <3>2, Zenon
    <2>2. m[k] \in Nat \ {0}
      BY <1>1, <1>2, <1>4
    <2>3. ASSUME NEW x PROVE x \in Tickets(S, m) <=> x \in Tickets(S, n) \cup {<<k, m[k]>>}
      <3>1. ASSUME NEW c \in S, NEW i \in Nat \ {0}, x = <<c, i>>
            PROVE  x \in Tickets(S, m) <=> x \in Tickets(S, n) \cup {<<k, m[k]>>}
        <4>1. x \in Tickets(S, m) <=> i <= m[c]
          BY <3>1, Zenon DEF Tickets
        <4>2. x \in Tickets(S, n) <=> i <= n[c]
          BY <3>1, Zenon DEF Tickets
        <4>3. x = <<k, m[k]>> <=> c = k /\ i = m[k]
          BY <3>1, Zenon
        <4> QED BY <2>1, <4>1, <4>2, <4>3, Zenon
      <3>2. x \in Tickets(S, m) \/ x \in Tickets(S, n) \cup {<<k, m[k]>>} => x \in S \X (Nat \ {0})
        BY <1>4, <2>2 DEF Tickets
      <3>3. x \in S \X (Nat \ {0}) => \E c \in S, i \in Nat \ {0} : x = <<c, i>>
        OBVIOUS
      <3> QED BY <3>1, <3>2, <3>3, Zenon
    <2> QED BY <2>3, Zenon
  <1> QED BY <1>3, <1>4, Zenon

(* So the count goes up by one.                                            *)
LEMMA CountUp ==
  ASSUME NEW S, NEW n, NEW m, NEW k, OneMore(S, n, m, k), IsFiniteSet(Tickets(S, n))
  PROVE  /\ IsFiniteSet(Tickets(S, m))
         /\ k \notin S => Cardinality(Tickets(S, m)) = Cardinality(Tickets(S, n))
         /\ k \in S => Cardinality(Tickets(S, m)) = Cardinality(Tickets(S, n)) + 1
  <1>1. ASSUME k \notin S PROVE Tickets(S, m) = Tickets(S, n)
    <2>1. \A c \in S : m[c] = n[c]
      BY <1>1, Zenon DEF OneMore
    <2> QED BY <2>1, Zenon DEF Tickets
  <1>2. ASSUME k \in S
        PROVE  IsFiniteSet(Tickets(S, m)) /\ Cardinality(Tickets(S, m)) = Cardinality(Tickets(S, n)) + 1
    <2>1. Tickets(S, m) = Tickets(S, n) \cup {<<k, m[k]>>} /\ <<k, m[k]>> \notin Tickets(S, n)
      BY <1>2, TicketAdded, Zenon
    <2>2. /\ IsFiniteSet(Tickets(S, n) \cup {<<k, m[k]>>})
          /\ Cardinality(Tickets(S, n) \cup {<<k, m[k]>>}) = Cardinality(Tickets(S, n)) + 1
      BY <2>1, FS_AddElement, Zenon
    <2> QED BY <2>1, <2>2, Zenon
  <1> QED BY <1>1, <1>2, Zenon

(* And down by one.                                                        *)
LEMMA CountDown ==
  ASSUME NEW S, NEW n, NEW m, NEW k, OneMore(S, m, n, k), IsFiniteSet(Tickets(S, n))
  PROVE  /\ IsFiniteSet(Tickets(S, m))
         /\ k \notin S => Cardinality(Tickets(S, m)) = Cardinality(Tickets(S, n))
         /\ k \in S => Cardinality(Tickets(S, m)) = Cardinality(Tickets(S, n)) - 1
  <1>1. ASSUME k \notin S PROVE Tickets(S, m) = Tickets(S, n)
    <2>1. \A c \in S : m[c] = n[c]
      BY <1>1, Zenon DEF OneMore
    <2> QED BY <2>1, Zenon DEF Tickets
  <1>2. ASSUME k \in S
        PROVE  IsFiniteSet(Tickets(S, m)) /\ Cardinality(Tickets(S, m)) = Cardinality(Tickets(S, n)) - 1
    <2>1. Tickets(S, n) = Tickets(S, m) \cup {<<k, n[k]>>} /\ <<k, n[k]>> \notin Tickets(S, m)
      BY <1>2, TicketAdded, Zenon
    <2>2. Tickets(S, m) \subseteq Tickets(S, n)
      BY <2>1, Zenon
    <2>3. IsFiniteSet(Tickets(S, m))
      BY <2>2, FS_Subset, Zenon
    <2>4. Cardinality(Tickets(S, m) \cup {<<k, n[k]>>}) = Cardinality(Tickets(S, m)) + 1
      BY <2>1, <2>3, FS_AddElement, Zenon
    <2>5. Cardinality(Tickets(S, m)) \in Nat
      BY <2>3, FS_CardinalityType, Zenon
    <2>6. \A a \in Nat : a = (a + 1) - 1
      OBVIOUS
    <2> QED BY <2>1, <2>3, <2>4, <2>5, <2>6, Zenon
  <1> QED BY <1>1, <1>2, Zenon

(* When the count is 0 no thread is left.                                  *)
LEMMA CountZero ==
  ASSUME NEW S, NEW n, \A c \in S : n[c] \in Nat, IsFiniteSet(Tickets(S, n)),
         Cardinality(Tickets(S, n)) = 0
  PROVE  \A c \in S : n[c] = 0
  <1>1. Tickets(S, n) = {}
    BY FS_EmptySet, Zenon
  <1>2. ASSUME NEW c \in S, n[c] # 0 PROVE FALSE
    <2>1. n[c] \in Nat \ {0} /\ n[c] <= n[c]
      BY <1>2
    <2>2. <<c, n[c]>> \in Tickets(S, n)
      BY <2>1, Zenon DEF Tickets
    <2> QED BY <1>1, <2>2, Zenon
  <1> QED BY <1>2, Zenon

-----------------------------------------------------------------------------
(* The numbers are natural numbers.                                        *)
LEMMA NumbersType == ASSUME Shape PROVE Numbers \in [Contexts -> Nat]
  BY DEF Shape, Numbers

(* The accounts show that every thread has its context.                    *)
LEMMA Allocated == ASSUME Shape, Alive, Accounts PROVE ContextsAllocated
  <1> SUFFICES ASSUME NEW c \in Contexts, th[c] # "none" \/ ending[c] > 0
               PROVE  IF c \in Readers THEN non_BWRC_mem ELSE BWRC_mem
    BY Zenon DEF ContextsAllocated
  <1>0. ~(th[c] = "none" /\ ending[c] = 0)
    BY DEF Shape
  <1>1. ASSUME c \in Readers PROVE non_BWRC_mem
    <2>1. ~Gone(Readers)
      BY <1>0, <1>1, Zenon DEF Gone
    <2> QED BY <2>1, Zenon DEF Accounts, ReaderContexts
  <1>2. ASSUME c \notin Readers PROVE BWRC_mem
    <2>1. ~Gone(Writers)
      BY <1>0, <1>2, Zenon DEF Gone, Contexts
    <2> QED BY <2>1, Zenon DEF Accounts, WriterContexts
  <1> QED BY <1>1, <1>2, Zenon

(* A step that counts no thread.                                           *)
LEMMA KeepsAccounts ==
  ASSUME AllocInv, Alive, Shape', Alive', Numbers' = Numbers, UNCHANGED counts,
         NewThread', ReaderContexts', WriterContexts'
  PROVE  AllocInv'
  <1>1. Running(Writers, BWRC_threads_running)' /\ Running(Readers, non_BWRC_threads_running)'
    BY Zenon DEF AllocInv, Accounts, Running, counts
  <1>2. Accounts'
    BY <1>1, Zenon DEF Accounts
  <1>3. ContextsAllocated'
    BY <1>2, Allocated, PTL
  <1> QED BY <1>2, <1>3, Zenon DEF AllocInv

(* A step that ends the exerciser, or leaves the model.                    *)
LEMMA EndsAccounts ==
  ASSUME AllocInv, Alive, Shape', ~Alive',
         main' = "gaveup" \/ UNCHANGED <<th, ending, non_BWRC_mem, BWRC_mem>>
  PROVE  AllocInv'
  <1>1. main # "gaveup"
    BY Zenon DEF Alive
  <1>2. CASE main' = "gaveup"
    BY <1>2, Zenon DEF AllocInv, ContextsAllocated
  <1>3. CASE UNCHANGED <<th, ending, non_BWRC_mem, BWRC_mem>>
    <2>1. \A c \in Contexts : (th'[c] # "none" \/ ending'[c] > 0) =>
                              IF c \in Readers THEN non_BWRC_mem' ELSE BWRC_mem'
      BY <1>1, <1>3, Zenon DEF AllocInv, ContextsAllocated
    <2> QED BY <2>1, Zenon DEF AllocInv, ContextsAllocated
  <1> QED BY <1>2, <1>3, Zenon

(* A thread moves on, neither at its start nor at its end.                 *)
LEMMA ThreadMoves ==
  ASSUME AllocInv, Alive, NEW c \in Contexts, NEW s \in Places, s \notin {"none", "born", "waiting"},
         th[c] \notin {"none", "born", "waiting"}, Goto(c, s),
         UNCHANGED <<rules, ending, main, stanza, todo, non_BWRC_mem, BWRC_mem>>, UNCHANGED counts
  PROVE  AllocInv'
  <1>1. Shape /\ Accounts
    BY Zenon DEF AllocInv
  <1>2. th'[c] = s /\ \A d \in Contexts : d # c => th'[d] = th[d]
    BY <1>1, Zenon DEF Goto, Shape
  <1>3. Shape'
    <2>1. th' \in [Contexts -> Places]
      BY <1>1, Zenon DEF Goto, Shape
    <2> QED BY <1>1, <2>1, Zenon DEF Shape
  <1>4. s # "none" /\ s # "born" /\ s # "waiting" /\ th[c] # "none" /\ th[c] # "born" /\ th[c] # "waiting"
    BY Zenon
  <1>5. \A d \in Contexts : /\ th'[d] = "none" <=> th[d] = "none"
                            /\ th'[d] = "born" <=> th[d] = "born"
                            /\ th'[d] = "waiting" <=> th[d] = "waiting"
    BY <1>2, <1>4, Zenon
  <1>6. Alive'
    BY Zenon DEF Alive
  <1>7. Numbers' = Numbers
    BY <1>5, Zenon DEF Numbers, Uncounted
  <1>8. NewThread'
    <2>1. todo # <<>> => Head(todo) \in Contexts
      BY <1>1 DEF Shape
    <2> QED BY <1>1, <1>5, <2>1, Zenon DEF NewThread, Accounts
  <1>9. Gone(Readers) => Gone(Readers)'
    BY <1>5, Zenon DEF Gone, Contexts
  <1>10. Gone(Writers) => Gone(Writers)'
    BY <1>5, Zenon DEF Gone, Contexts
  <1>11. ReaderContexts' /\ WriterContexts'
    BY <1>1, <1>9, <1>10, Zenon DEF Accounts, ReaderContexts, WriterContexts
  <1> QED BY <1>3, <1>6, <1>7, <1>8, <1>11, KeepsAccounts, Zenon

(* The accounts do not look at the rest.                                   *)
LEMMA OtherStep ==
  ASSUME AllocInv, UNCHANGED <<rules, ending, main, stanza, todo, non_BWRC_mem, BWRC_mem, th>>,
         UNCHANGED counts
  PROVE  AllocInv'
  <1>1. Shape' /\ (Alive' <=> Alive) /\ Numbers' = Numbers
    BY Zenon DEF AllocInv, Shape, Alive, Numbers, Uncounted
  <1>2. ContextsAllocated'
    BY Zenon DEF AllocInv, ContextsAllocated
  <1>3. Accounts => Accounts'
    BY <1>1, Zenon DEF Accounts, NewThread, ReaderContexts, WriterContexts, Gone, Running, counts
  <1> QED BY <1>1, <1>2, <1>3, Zenon DEF AllocInv

-----------------------------------------------------------------------------
(* The elements of a list.                                                 *)
LEMMA ListElements ==
  ASSUME NEW S, NEW s \in Seq(S)
  PROVE  Len(s) \in Nat /\ \A i \in 1 .. Len(s) : s[i] \in S
  OBVIOUS

(* main starts a stanza.                                                   *)
LEMMA RunStanzaAccounts == ASSUME AllocInv, Alive, RunStanza PROVE AllocInv'
  <1>1. Shape /\ Accounts
    BY Zenon DEF AllocInv
  <1> PICK z : z = rules.stanzas[stanza]
    BY Zenon
  <1>2. main = "stanza" /\ UNCHANGED <<rules, ending, stanza, BWRC_mem, th>> /\ UNCHANGED counts
    BY Zenon DEF RunStanza
  <1>3. z.threads \in Seq(Contexts)
    <2>1. rules.stanzas \in Seq([threads : Seq(Contexts), skip : Int])
      BY <1>1, RulesAssumption, Zenon DEF Shape
    <2>2. z \in [threads : Seq(Contexts), skip : Int]
      <3>1. stanza \in 1 .. Len(rules.stanzas)
        BY <1>1, Zenon DEF Shape
      <3> QED BY <2>1, <3>1, ListElements, Zenon
    <2> QED BY <2>2, Zenon
  <1>4. main # "creating" /\ main # "created" /\ main \in Resting /\ main # "freed"
    BY <1>2, Zenon DEF Resting
  <1>5. Gone(Readers) /\ BWRC_mem
    BY <1>1, <1>4, Zenon DEF Accounts, ReaderContexts, WriterContexts
  <1>6. \A c \in Contexts : th[c] # "born"
    BY <1>1, <1>4, Zenon DEF Accounts, NewThread
  <1>7. CASE main' = "next" /\ UNCHANGED <<todo, non_BWRC_mem>>
    <2>1. Shape'
      BY <1>1, <1>2, <1>7, Zenon DEF Shape, Resting
    <2>2. main' # "creating" /\ main' # "created" /\ main' \notin Creating /\ main' # "finishing"
      BY <1>7, Zenon DEF Creating
    <2>3. Numbers' = Numbers
      BY <1>2, <1>4, <2>2, Zenon DEF Numbers, Uncounted
    <2>4. NewThread'
      BY <1>2, <1>6, <2>2, Zenon DEF NewThread
    <2>5. ReaderContexts' /\ WriterContexts'
      BY <1>2, <1>5, <2>2, Zenon DEF ReaderContexts, WriterContexts, Gone
    <2>6. Alive'
      BY <1>7, Zenon DEF Alive
    <2> QED BY <1>2, <2>1, <2>3, <2>4, <2>5, <2>6, KeepsAccounts, Zenon
  <1>8. CASE /\ main' = "create" /\ todo' = z.threads
             /\ non_BWRC_mem' = ~is_only_BWRC_stanza(z)
    <2>1. Shape'
      BY <1>1, <1>2, <1>3, <1>8, Zenon DEF Shape, Creating
    <2>2. main' # "creating" /\ main' # "created" /\ main' \notin Resting /\ main' # "finishing"
      BY <1>8, Zenon DEF Resting
    <2>3. Numbers' = Numbers
      BY <1>2, <1>4, <2>2, Zenon DEF Numbers, Uncounted
    <2>4. NewThread'
      BY <1>2, <1>6, <2>2, Zenon DEF NewThread
    <2>5. \A i \in 1 .. Len(todo') : todo'[i] \in Readers => non_BWRC_mem'
      <3> SUFFICES ASSUME NEW i \in 1 .. Len(todo'), todo'[i] \in Readers PROVE ~is_only_BWRC_stanza(z)
        BY <1>8, Zenon
      <3>1. todo'[i] \in range(z.threads)
        BY <1>8, Zenon DEF range
      <3>2. todo'[i] \notin Writers
        BY RulesAssumption, Zenon
      <3> QED BY <3>1, <3>2, Zenon DEF is_only_BWRC_stanza
    <2>6. ReaderContexts' /\ WriterContexts'
      BY <1>2, <1>5, <1>8, <2>2, <2>5, Zenon DEF ReaderContexts, WriterContexts, Gone
    <2>7. Alive'
      BY <1>8, Zenon DEF Alive
    <2> QED BY <1>2, <2>1, <2>3, <2>4, <2>6, <2>7, KeepsAccounts, Zenon
  <1> QED BY <1>7, <1>8, Zenon DEF RunStanza

(* main creates a thread, or leaves a BWRC thread that runs alone.         *)
LEMMA CreateAccounts == ASSUME AllocInv, Alive, CreateThread PROVE AllocInv'
  <1>1. Shape /\ Accounts
    BY Zenon DEF AllocInv
  <1> PICK c : c = Head(todo)
    BY Zenon
  <1>2. /\ main = "create" /\ todo # <<>> /\ UNCHANGED counts
        /\ UNCHANGED <<rules, ending, stanza, BWRC_mem, non_BWRC_mem>>
    BY Zenon DEF CreateThread
  <1>3. main # "creating" /\ main # "created" /\ main \in Creating /\ main \notin Resting /\ main # "freed"
    BY <1>2, Zenon DEF Creating, Resting
  <1>4. \A d \in Contexts : th[d] # "born"
    BY <1>1, <1>3, Zenon DEF Accounts, NewThread
  <1>5. c \in Contexts /\ Tail(todo) \in Seq(Contexts)
    BY <1>1, <1>2 DEF Shape
  <1>6. \A i \in 1 .. Len(Tail(todo)) : Tail(todo)[i] = todo[i + 1] /\ i + 1 \in 1 .. Len(todo)
    BY <1>1, <1>2 DEF Shape
  <1>7. 1 \in 1 .. Len(todo) /\ c = todo[1]
    BY <1>1, <1>2 DEF Shape
  <1>8. /\ non_BWRC_mem = ~is_only_BWRC_stanza(rules.stanzas[stanza])
        /\ \A i \in 1 .. Len(todo) : todo[i] \in Readers => non_BWRC_mem
        /\ (~non_BWRC_mem => Gone(Readers)) /\ BWRC_mem
    BY <1>1, <1>3, Zenon DEF Accounts, ReaderContexts, WriterContexts
  <1>9. CASE todo' = Tail(todo) /\ UNCHANGED <<main, th>>
    <2>1. Shape'
      BY <1>1, <1>2, <1>5, <1>9, Zenon DEF Shape
    <2>2. Numbers' = Numbers
      BY <1>2, <1>3, <1>9, Zenon DEF Numbers, Uncounted
    <2>3. NewThread'
      BY <1>3, <1>4, <1>9, Zenon DEF NewThread
    <2>4. \A i \in 1 .. Len(todo') : todo'[i] \in Readers => non_BWRC_mem'
      BY <1>2, <1>6, <1>8, <1>9, Zenon
    <2>5. main' # "finishing" /\ main' \notin Resting
      BY <1>2, <1>9, Zenon DEF Resting
    <2>6. ReaderContexts' /\ WriterContexts'
      BY <1>2, <1>8, <1>9, <2>4, <2>5, Zenon DEF ReaderContexts, WriterContexts, Gone
    <2>7. Alive'
      BY <1>9, Zenon DEF Alive
    <2> QED BY <1>2, <2>1, <2>2, <2>3, <2>6, <2>7, KeepsAccounts, Zenon
  <1>10. CASE main' = "twice" /\ UNCHANGED <<todo, th>>
    <2>1. Shape' /\ ~Alive'
      BY <1>1, <1>2, <1>10, Zenon DEF Shape, Ended, Alive
    <2> QED BY <1>2, <1>10, <2>1, EndsAccounts, Zenon
  <1>11. CASE th[c] = "none" /\ main' = "creating" /\ th' = [th EXCEPT ![c] = "born"] /\ UNCHANGED todo
    <2>1. Shape'
      BY <1>1, <1>2, <1>11, Zenon DEF Shape, Creating, Places
    <2>2. th'[c] = "born" /\ \A d \in Contexts : d # c => th'[d] = th[d]
      BY <1>1, <1>5, <1>11, Zenon DEF Shape
    <2>3. Numbers' = Numbers
      <3>1. \A d \in Contexts : (th'[d] = "none" \/ d = c) <=> (th[d] = "none")
        BY <1>11, <2>2, Zenon
      <3>2. \A d \in Contexts : (Uncounted(d)' <=> d = c) /\ ~Uncounted(d)
        BY <1>3, <1>11, Zenon DEF Uncounted
      <3> QED BY <1>2, <3>1, <3>2, Zenon DEF Numbers
    <2>4. NewThread'
      <3>1. main' # "created"
        BY <1>11, Zenon
      <3> QED BY <1>2, <1>4, <1>11, <2>2, <3>1, Zenon DEF NewThread
    <2>5. main' # "finishing" /\ main' \notin Resting
      BY <1>11, Zenon DEF Resting
    <2>6. Gone(Readers) /\ ~non_BWRC_mem => Gone(Readers)'
      <3>1. c \in Readers => non_BWRC_mem
        BY <1>7, <1>8, Zenon
      <3> QED BY <1>2, <2>2, <3>1, Zenon DEF Gone, Contexts
    <2>7. ReaderContexts' /\ WriterContexts'
      BY <1>2, <1>8, <1>11, <2>5, <2>6, Zenon DEF ReaderContexts, WriterContexts
    <2>8. Alive'
      BY <1>11, Zenon DEF Alive
    <2> QED BY <1>2, <2>1, <2>3, <2>4, <2>7, <2>8, KeepsAccounts, Zenon
  <1> QED BY <1>9, <1>10, <1>11, Zenon DEF CreateThread

(* main counts the thread that has woken it.                               *)
LEMMA CountAccounts == ASSUME AllocInv, Alive, CountThread PROVE AllocInv'
  <1>1. Shape /\ Accounts
    BY Zenon DEF AllocInv
  <1> PICK c : c = Head(todo)
    BY Zenon
  <1>2. /\ main = "created" /\ main' = "create" /\ todo' = Tail(todo)
        /\ UNCHANGED <<rules, ending, stanza, BWRC_mem, non_BWRC_mem, th>>
    BY Zenon DEF CountThread
  <1>3. main \in Creating /\ main \notin Resting /\ main # "freed" /\ main # "creating"
    BY <1>2, Zenon DEF Creating, Resting
  <1>4. /\ main' \in Creating /\ main' \notin Resting /\ main' # "freed" /\ main' # "finishing"
        /\ main' # "creating" /\ main' # "created"
    BY <1>2, Zenon DEF Creating, Resting
  <1>5. todo # <<>> /\ th[c] = "waiting" /\ \A d \in Contexts : th[d] # "born"
    BY <1>1, <1>2, <1>3, Zenon DEF Accounts, NewThread
  <1>6. c \in Contexts /\ Tail(todo) \in Seq(Contexts)
    BY <1>1, <1>5 DEF Shape
  <1>7. \A i \in 1 .. Len(Tail(todo)) : Tail(todo)[i] = todo[i + 1] /\ i + 1 \in 1 .. Len(todo)
    BY <1>1, <1>5 DEF Shape
  <1>8. /\ non_BWRC_mem = ~is_only_BWRC_stanza(rules.stanzas[stanza])
        /\ \A i \in 1 .. Len(todo) : todo[i] \in Readers => non_BWRC_mem
        /\ (~non_BWRC_mem => Gone(Readers)) /\ BWRC_mem
    BY <1>1, <1>3, Zenon DEF Accounts, ReaderContexts, WriterContexts
  <1>9. Shape'
    BY <1>1, <1>2, <1>6, Zenon DEF Shape, Creating
  <1>10. Alive'
    BY <1>2, Zenon DEF Alive
  <1>11. NewThread'
    BY <1>2, <1>4, <1>5, Zenon DEF NewThread
  <1>12. ReaderContexts' /\ WriterContexts'
    <2>1. \A i \in 1 .. Len(todo') : todo'[i] \in Readers => non_BWRC_mem'
      BY <1>2, <1>7, <1>8, Zenon
    <2> QED BY <1>2, <1>4, <1>8, <2>1, Zenon DEF ReaderContexts, WriterContexts, Gone
  <1>13. /\ Numbers \in [Contexts -> Nat] /\ Numbers' \in [Contexts -> Nat]
         /\ \A d \in Contexts : Numbers'[d] = IF d = c THEN Numbers[d] + 1 ELSE Numbers[d]
    <2>1. Numbers \in [Contexts -> Nat] /\ Numbers' \in [Contexts -> Nat]
      BY <1>1, <1>9 DEF Numbers, Shape
    <2>2. \A d \in Contexts : (Uncounted(d) <=> d = c) /\ ~Uncounted(d)'
      BY <1>2, <1>4, Zenon DEF Uncounted
    <2>3. Numbers'[c] = Numbers[c] + 1
      <3>1. Numbers[c] = ending[c] + 0
        BY <1>6, <2>2, Zenon DEF Numbers
      <3>2. th[c] # "none"
        BY <1>5, Zenon
      <3>3. Numbers'[c] = ending[c] + 1
        BY <1>2, <1>6, <2>2, <3>2, Zenon DEF Numbers
      <3>4. ending[c] \in Nat
        BY <1>1, <1>6, Zenon DEF Shape
      <3> QED BY <3>1, <3>3, <3>4
    <2>4. \A d \in Contexts : d # c => Numbers'[d] = Numbers[d]
      BY <1>2, <2>2, Zenon DEF Numbers
    <2> QED BY <2>1, <2>3, <2>4, Zenon
  <1>14. OneMore(Writers, Numbers, Numbers', c) /\ OneMore(Readers, Numbers, Numbers', c)
    BY <1>13, Zenon DEF OneMore, Contexts
  <1>15. Running(Writers, BWRC_threads_running)' /\ Running(Readers, non_BWRC_threads_running)'
    <2>1. CASE c \in Writers
      <3>1. c \notin Readers
        BY <2>1, RulesAssumption, Zenon
      <3>2. /\ BWRC_threads_running' = BWRC_threads_running + 1
            /\ non_BWRC_threads_running' = non_BWRC_threads_running
        BY <2>1, Zenon DEF CountThread
      <3> QED BY <1>1, <1>14, <2>1, <3>1, <3>2, CountUp, Zenon DEF Accounts, Running
    <2>2. CASE c \notin Writers
      <3>1. c \in Readers
        BY <1>6, <2>2, Zenon DEF Contexts
      <3>2. /\ BWRC_threads_running' = BWRC_threads_running
            /\ non_BWRC_threads_running' = non_BWRC_threads_running + 1
        BY <2>2, Zenon DEF CountThread
      <3> QED BY <1>1, <1>14, <2>2, <3>1, <3>2, CountUp, Zenon DEF Accounts, Running
    <2> QED BY <2>1, <2>2, Zenon
  <1>16. Accounts'
    BY <1>11, <1>12, <1>15, Zenon DEF Accounts
  <1>17. ContextsAllocated'
    BY <1>9, <1>10, <1>16, Allocated, PTL
  <1> QED BY <1>9, <1>16, <1>17, Zenon DEF AllocInv

(* main lets the threads of the stanza go.                                 *)
LEMMA StartAccounts == ASSUME AllocInv, Alive, StartThreads PROVE AllocInv'
  <1>1. Shape /\ Accounts
    BY Zenon DEF AllocInv
  <1>2. /\ main = "create" /\ UNCHANGED counts
        /\ UNCHANGED <<rules, ending, stanza, todo, BWRC_mem, non_BWRC_mem>>
        /\ th' = [c \in Contexts |-> IF th[c] = "waiting" THEN "ready" ELSE th[c]]
        /\ main' = IF is_only_BWRC_stanza(rules.stanzas[stanza]) THEN "next" ELSE "finishing"
    BY Zenon DEF StartThreads
  <1>3. main \in Creating /\ main # "freed" /\ main # "creating" /\ main # "created"
    BY <1>2, Zenon DEF Creating
  <1>4. /\ main' \notin Creating /\ main' # "freed" /\ main' # "creating" /\ main' # "created"
        /\ (main' \in Resting => is_only_BWRC_stanza(rules.stanzas[stanza]))
        /\ (main' = "finishing" => ~is_only_BWRC_stanza(rules.stanzas[stanza]))
    BY <1>2, Zenon DEF Creating, Resting
  <1>5. \A d \in Contexts : th[d] # "born"
    BY <1>1, <1>3, Zenon DEF Accounts, NewThread
  <1>6. /\ non_BWRC_mem = ~is_only_BWRC_stanza(rules.stanzas[stanza])
        /\ (~non_BWRC_mem => Gone(Readers)) /\ BWRC_mem
    BY <1>1, <1>3, Zenon DEF Accounts, ReaderContexts, WriterContexts
  <1>7. Shape' /\ Alive'
    BY <1>1, <1>2, Zenon DEF Shape, Resting, Places, Alive
  <1>8. \A d \in Contexts : (th'[d] = "none" <=> th[d] = "none") /\ th'[d] # "born"
    BY <1>2, <1>5, Zenon
  <1>9. Numbers' = Numbers
    BY <1>2, <1>3, <1>4, <1>8, Zenon DEF Numbers, Uncounted
  <1>10. NewThread'
    BY <1>4, <1>8, Zenon DEF NewThread
  <1>11. Gone(Readers) => Gone(Readers)'
    BY <1>2, <1>8, Zenon DEF Gone, Contexts
  <1>12. ReaderContexts' /\ WriterContexts'
    BY <1>2, <1>4, <1>6, <1>11, Zenon DEF ReaderContexts, WriterContexts
  <1> QED BY <1>2, <1>7, <1>9, <1>10, <1>12, KeepsAccounts, Zenon

(* main goes from one place where it rests to another.                     *)
LEMMA RestAccounts ==
  ASSUME AllocInv, Alive, main \in Resting \ {"freed"}, main' \in Resting, Alive',
         stanza' \in 1 .. Len(rules.stanzas),
         UNCHANGED <<rules, todo, ending, th>>, UNCHANGED counts,
         non_BWRC_mem' \in {FALSE, non_BWRC_mem},
         BWRC_mem' = BWRC_mem \/ (main' = "freed" /\ Gone(Writers) /\ BWRC_mem' = FALSE)
  PROVE  AllocInv'
  <1>1. Shape /\ Accounts
    BY Zenon DEF AllocInv
  <1>2. main \notin {"creating", "created", "freed", "finishing"} \cup Creating
    BY Zenon DEF Resting, Creating
  <1>3. main' \notin {"creating", "created", "finishing"} \cup Creating
    BY Zenon DEF Resting, Creating
  <1>4. Shape'
    <2>1. non_BWRC_mem' \in BOOLEAN /\ BWRC_mem' \in BOOLEAN
      BY <1>1, Zenon DEF Shape
    <2> QED BY <1>1, <2>1, Zenon DEF Shape
  <1>5. Numbers' = Numbers
    BY <1>2, <1>3, Zenon DEF Numbers, Uncounted
  <1>6. NewThread'
    BY <1>1, <1>2, <1>3, Zenon DEF NewThread, Accounts
  <1>7. Gone(Readers) /\ BWRC_mem
    BY <1>1, <1>2, Zenon DEF Accounts, ReaderContexts, WriterContexts
  <1>8. ReaderContexts' /\ WriterContexts'
    BY <1>3, <1>7, Zenon DEF ReaderContexts, WriterContexts, Gone
  <1> QED BY <1>4, <1>5, <1>6, <1>8, KeepsAccounts, Zenon

(* A count of 0 shows that the threads are gone, once none is new.         *)
LEMMA NoneLeft ==
  ASSUME Shape, NEW S, S \subseteq Contexts, Running(S, 0), main \notin {"creating", "created"}
  PROVE  Gone(S)
  <1>1. \A c \in S : Numbers[c] \in Nat
    BY NumbersType, Zenon
  <1>2. \A c \in S : Numbers[c] = 0
    BY <1>1, CountZero, Zenon DEF Running
  <1> SUFFICES ASSUME NEW c \in S PROVE th[c] = "none" /\ ending[c] = 0
    BY Zenon DEF Gone
  <1>3. ~Uncounted(c) /\ c \in Contexts
    BY Zenon DEF Uncounted
  <1>4. Numbers[c] = ending[c] + IF th[c] = "none" THEN 0 ELSE 1
    BY <1>3, Zenon DEF Numbers
  <1>5. ending[c] \in Nat
    BY <1>3, Zenon DEF Shape
  <1> QED BY <1>2, <1>4, <1>5

(* In particular those that read.                                          *)
LEMMA NoReaderLeft ==
  ASSUME Shape, Running(Readers, 0), main \notin {"creating", "created"}
  PROVE  Gone(Readers)
  BY NoneLeft, Zenon DEF Contexts

(* The other steps of main.                                                *)
LEMMA MainAccounts == ASSUME AllocInv, Alive, MainStep PROVE AllocInv'
  <1>1. Shape /\ Accounts
    BY Zenon DEF AllocInv
  <1>2. CASE FreeContexts
    <2>1. /\ main = "finished" /\ main' = "next" /\ non_BWRC_mem' = FALSE
          /\ UNCHANGED <<rules, stanza, todo, ending, th, BWRC_mem>> /\ UNCHANGED counts
      BY <1>2, Zenon DEF FreeContexts
    <2>2. main \in Resting \ {"freed"} /\ main' \in Resting /\ Alive'
      BY <2>1, Zenon DEF Resting, Alive
    <2>3. stanza' \in 1 .. Len(rules.stanzas)
      BY <1>1, <2>1, Zenon DEF Shape
    <2> QED BY <2>1, <2>2, <2>3, RestAccounts, Zenon
  <1>3. CASE NextStanza
    <2>1. /\ main = "next" /\ main' \in {"stanza", "reread", "leaving"}
          /\ UNCHANGED <<rules, todo, ending, th, non_BWRC_mem, BWRC_mem>> /\ UNCHANGED counts
      BY <1>3, Zenon DEF NextStanza
    <2>2. main \in Resting \ {"freed"}
      BY <2>1, Zenon DEF Resting
    <2>3. stanza' = 1 \/ (stanza < Len(rules.stanzas) /\ stanza' = stanza + 1)
      BY <1>3, Zenon DEF NextStanza
    <2>4. rules.stanzas \in Seq([threads : Seq(Contexts), skip : Int]) \ {<<>>}
      BY <1>1, RulesAssumption, Zenon DEF Shape
    <2>5. Len(rules.stanzas) \in Nat
      BY <2>4, ListElements, Zenon
    <2>6. stanza' \in 1 .. Len(rules.stanzas)
      BY <1>1, <2>3, <2>5 DEF Shape
    <2>7. CASE main' = "reread"
      <3>1. ~Alive' /\ Shape'
        BY <1>1, <2>1, <2>6, <2>7, Zenon DEF Alive, Shape, Ended
      <3> QED BY <2>1, <3>1, EndsAccounts, Zenon
    <2>8. CASE main' # "reread"
      <3>1. Alive' /\ main' \in Resting
        BY <2>1, <2>8, Zenon DEF Alive, Resting
      <3> QED BY <2>1, <2>2, <2>6, <3>1, RestAccounts, Zenon
    <2> QED BY <2>7, <2>8, Zenon
  <1>4. CASE Cleanup
    <2>1. /\ main = "leaving" /\ main' = "freed" /\ BWRC_mem' = FALSE /\ BWRC_threads_running = 0
          /\ UNCHANGED <<rules, stanza, todo, ending, th, non_BWRC_mem>> /\ UNCHANGED counts
      BY <1>4, Zenon DEF Cleanup
    <2>2. main \in Resting \ {"freed"} /\ main' \in Resting /\ Alive' /\ main \notin {"creating", "created"}
      BY <2>1, Zenon DEF Resting, Alive
    <2>3. stanza' \in 1 .. Len(rules.stanzas)
      BY <1>1, <2>1, Zenon DEF Shape
    <2>4. Running(Writers, 0)
      BY <1>1, <2>1, Zenon DEF Accounts
    <2>5. Gone(Writers)
      BY <1>1, <2>2, <2>4, NoneLeft, Zenon DEF Contexts
    <2> QED BY <2>1, <2>2, <2>3, <2>5, RestAccounts, Zenon
  <1>5. CASE GiveUp
    <2>1. main' = "gaveup" /\ BWRC_mem' = FALSE /\ UNCHANGED <<rules, stanza, todo, ending, th, non_BWRC_mem>>
      BY <1>5, Zenon DEF GiveUp
    <2>2. main' \in Ended /\ ~Alive'
      BY <2>1, Zenon DEF Ended, Alive
    <2>3. Shape'
      BY <1>1, <2>1, <2>2, Zenon DEF Shape
    <2> QED BY <2>1, <2>2, <2>3, EndsAccounts, Zenon
  <1>6. CASE Return
    <2>1. main' = "done" /\ UNCHANGED <<rules, stanza, todo, ending, th, non_BWRC_mem, BWRC_mem>>
      BY <1>6, Zenon DEF Return
    <2>2. Shape' /\ ~Alive'
      BY <1>1, <2>1, Zenon DEF Shape, Ended, Alive
    <2> QED BY <2>1, <2>2, EndsAccounts, Zenon
  <1> QED BY <1>2, <1>3, <1>4, <1>5, <1>6, RunStanzaAccounts, CreateAccounts, CountAccounts,
             StartAccounts, Zenon DEF MainStep

(* A thread tells main that it exists.                                     *)
LEMMA AnnounceAccounts ==
  ASSUME AllocInv, Alive, NEW c \in Contexts, Announce(c)
  PROVE  AllocInv'
  <1>1. Shape /\ Accounts
    BY Zenon DEF AllocInv
  <1>2. /\ th[c] = "born" /\ th' = [th EXCEPT ![c] = "waiting"] /\ main' = "created" /\ UNCHANGED counts
        /\ UNCHANGED <<rules, ending, stanza, todo, BWRC_mem, non_BWRC_mem>>
    BY Zenon DEF Announce, Goto
  <1>3. main = "creating" /\ c = Head(todo) /\ todo # <<>>
    BY <1>1, <1>2, Zenon DEF Accounts, NewThread
  <1>4. /\ main \in Creating /\ main \notin Resting /\ main # "freed"
        /\ main' \in Creating /\ main' \notin Resting /\ main' # "freed" /\ main' # "finishing" /\ main' # "creating"
    BY <1>2, <1>3, Zenon DEF Creating, Resting
  <1>5. th'[c] = "waiting" /\ \A d \in Contexts : d # c => th'[d] = th[d]
    BY <1>1, <1>2, Zenon DEF Shape
  <1>6. Shape' /\ Alive'
    BY <1>1, <1>2, Zenon DEF Shape, Creating, Places, Alive
  <1>7. th[c] # "none" /\ th'[c] # "none" /\ th'[c] # "born"
    BY <1>2, <1>5, Zenon
  <1>8. \A d \in Contexts : (th'[d] = "none" <=> th[d] = "none")
    BY <1>5, <1>7, Zenon
  <1>9. \A d \in Contexts : Uncounted(d)' <=> Uncounted(d)
    BY <1>2, <1>3, Zenon DEF Uncounted
  <1>10. Numbers' = Numbers
    BY <1>2, <1>8, <1>9, Zenon DEF Numbers
  <1>11. \A d \in Contexts : th'[d] # "born"
    BY <1>1, <1>3, <1>5, <1>7, Zenon DEF Accounts, NewThread
  <1>12. NewThread'
    BY <1>2, <1>3, <1>4, <1>5, <1>11, Zenon DEF NewThread
  <1>13. Gone(Readers) => Gone(Readers)'
    BY <1>2, <1>8, Zenon DEF Gone, Contexts
  <1>14. ReaderContexts' /\ WriterContexts'
    BY <1>1, <1>2, <1>4, <1>13, Zenon DEF Accounts, ReaderContexts, WriterContexts
  <1> QED BY <1>2, <1>6, <1>10, <1>12, <1>14, KeepsAccounts, Zenon

(* A thread closes the disk: it is still counted.                          *)
LEMMA CloseAccounts ==
  ASSUME AllocInv, Alive, NEW c \in Contexts, CloseDisk(c)
  PROVE  AllocInv'
  <1>1. Shape /\ Accounts
    BY Zenon DEF AllocInv
  <1>2. /\ th[c] = "close" /\ th' = [th EXCEPT ![c] = "none"] /\ ending' = [ending EXCEPT ![c] = @ + 1]
        /\ UNCHANGED <<rules, main, stanza, todo, BWRC_mem, non_BWRC_mem>> /\ UNCHANGED counts
    BY Zenon DEF CloseDisk, Goto, mainvars
  <1>3. th'[c] = "none" /\ \A d \in Contexts : d # c => th'[d] = th[d] /\ ending'[d] = ending[d]
    BY <1>1, <1>2, Zenon DEF Shape
  <1>4. ending'[c] = ending[c] + 1 /\ ending[c] \in Nat
    BY <1>1, <1>2, Zenon DEF Shape
  <1>5. Shape' /\ Alive'
    <2>1. th' \in [Contexts -> Places] /\ ending' \in [Contexts -> Nat]
      BY <1>1, <1>2 DEF Shape, Places
    <2> QED BY <1>1, <1>2, <2>1, Zenon DEF Shape, Alive
  <1>6. th[c] # "born" /\ th[c] # "waiting" /\ th[c] # "none" /\ th'[c] # "born"
    BY <1>2, <1>3, Zenon
  <1>7. ~Uncounted(c)
    <2>1. main \in {"creating", "created"} => th[Head(todo)] \in {"born", "waiting"}
      BY <1>1, Zenon DEF Accounts, NewThread
    <2> QED BY <1>6, <2>1, Zenon DEF Uncounted
  <1>8. \A d \in Contexts : Uncounted(d)' <=> Uncounted(d)
    BY <1>2, Zenon DEF Uncounted
  <1>9. Numbers' = Numbers
    <2>1. ASSUME NEW d \in Contexts
          PROVE  (ending'[d] + IF th'[d] = "none" \/ Uncounted(d)' THEN 0 ELSE 1)
                   = (ending[d] + IF th[d] = "none" \/ Uncounted(d) THEN 0 ELSE 1)
      <3>1. CASE d = c
        <4>1. (ending'[c] + IF th'[c] = "none" \/ Uncounted(c)' THEN 0 ELSE 1) = ending'[c] + 0
          BY <1>3, Zenon
        <4>2. (ending[c] + IF th[c] = "none" \/ Uncounted(c) THEN 0 ELSE 1) = ending[c] + 1
          BY <1>6, <1>7, Zenon
        <4>3. ending'[c] + 0 = ending[c] + 1
          BY <1>4
        <4> QED BY <3>1, <4>1, <4>2, <4>3, Zenon
      <3>2. CASE d # c
        BY <1>3, <1>8, <3>2, Zenon
      <3> QED BY <3>1, <3>2, Zenon
    <2> QED BY <2>1, Zenon DEF Numbers
  <1>10. NewThread'
    <2>1. todo # <<>> => Head(todo) \in Contexts
      BY <1>1 DEF Shape
    <2> QED BY <1>1, <1>2, <1>3, <1>6, <2>1, Zenon DEF Accounts, NewThread
  <1>11. Gone(Readers) => Gone(Readers)'
    BY <1>2, <1>3, <1>6, Zenon DEF Gone, Contexts
  <1>12. Gone(Writers) => Gone(Writers)'
    BY <1>2, <1>3, <1>6, Zenon DEF Gone, Contexts
  <1>13. ReaderContexts' /\ WriterContexts'
    BY <1>1, <1>2, <1>11, <1>12, Zenon DEF Accounts, ReaderContexts, WriterContexts
  <1> QED BY <1>2, <1>5, <1>9, <1>10, <1>13, KeepsAccounts, Zenon

(* A thread takes itself out of its count; the last reader wakes main.     *)
LEMMA EndAccounts ==
  ASSUME AllocInv, Alive, NEW c \in Contexts, EndThread(c)
  PROVE  AllocInv'
  <1>1. Shape /\ Accounts
    BY Zenon DEF AllocInv
  <1>2. /\ ending[c] > 0 /\ main # "create" /\ ending' = [ending EXCEPT ![c] = @ - 1]
        /\ UNCHANGED <<rules, stanza, todo, BWRC_mem, non_BWRC_mem, th>>
    BY Zenon DEF EndThread, Holding
  <1>3. ending'[c] = ending[c] - 1 /\ ending[c] \in Nat \ {0} /\ ending' \in [Contexts -> Nat]
    BY <1>1, <1>2 DEF Shape
  <1>4. \A d \in Contexts : d # c => ending'[d] = ending[d]
    BY <1>1, <1>2, Zenon DEF Shape
  <1>5. ending[c] # 0
    BY <1>3, Zenon
  <1>6. main' = main \/ (main = "finishing" /\ main' = "finished" /\ non_BWRC_threads_running' = 0)
    BY Zenon DEF EndThread
  <1>7. /\ main' \in {"creating", "created"} <=> main \in {"creating", "created"}
        /\ main' = "creating" <=> main = "creating"
        /\ main' = "created" <=> main = "created"
        /\ main' = "freed" <=> main = "freed"
        /\ main' \in Creating <=> main \in Creating
        /\ main' = "finishing" => main = "finishing"
        /\ main' \in Creating \cup Resting \cup Ended \cup {"finishing"}
        /\ Alive'
    <2>1. CASE main' = main
      BY <1>1, <2>1, Zenon DEF Shape, Alive
    <2>2. CASE main = "finishing" /\ main' = "finished"
      BY <2>2, Zenon DEF Creating, Resting, Alive
    <2> QED BY <1>6, <2>1, <2>2, Zenon
  <1>8. Shape'
    BY <1>1, <1>2, <1>3, <1>7, Zenon DEF Shape
  <1>9. \A d \in Contexts : Uncounted(d)' <=> Uncounted(d)
    BY <1>2, <1>7, Zenon DEF Uncounted
  <1>10. /\ Numbers \in [Contexts -> Nat] /\ Numbers' \in [Contexts -> Nat]
         /\ Numbers[c] = Numbers'[c] + 1
         /\ \A d \in Contexts : d # c => Numbers[d] = Numbers'[d]
    <2>1. Numbers \in [Contexts -> Nat] /\ Numbers' \in [Contexts -> Nat]
      BY <1>1, <1>8 DEF Numbers, Shape
    <2>2. Numbers[c] = Numbers'[c] + 1
      <3> PICK k : k = IF th[c] = "none" \/ Uncounted(c) THEN 0 ELSE 1
        BY Zenon
      <3>1. k \in {0, 1}
        BY Zenon
      <3>2. Numbers[c] = ending[c] + k
        BY Zenon DEF Numbers
      <3>3. Numbers'[c] = ending'[c] + k
        BY <1>2, <1>9, Zenon DEF Numbers
      <3> QED BY <1>3, <3>1, <3>2, <3>3
    <2>3. \A d \in Contexts : d # c => Numbers[d] = Numbers'[d]
      BY <1>2, <1>4, <1>9, Zenon DEF Numbers
    <2> QED BY <2>1, <2>2, <2>3, Zenon
  <1>11. OneMore(Writers, Numbers', Numbers, c) /\ OneMore(Readers, Numbers', Numbers, c)
    BY <1>10, Zenon DEF OneMore, Contexts
  <1>12. Running(Writers, BWRC_threads_running)' /\ Running(Readers, non_BWRC_threads_running)'
    <2>1. CASE c \in Writers
      <3>1. c \notin Readers
        BY <2>1, RulesAssumption, Zenon
      <3>2. /\ BWRC_threads_running' = BWRC_threads_running - 1
            /\ non_BWRC_threads_running' = non_BWRC_threads_running
        BY <2>1, Zenon DEF EndThread
      <3> QED BY <1>1, <1>11, <2>1, <3>1, <3>2, CountDown, Zenon DEF Accounts, Running
    <2>2. CASE c \notin Writers
      <3>1. c \in Readers
        BY <2>2, Zenon DEF Contexts
      <3>2. /\ BWRC_threads_running' = BWRC_threads_running
            /\ non_BWRC_threads_running' = non_BWRC_threads_running - 1
        BY <2>2, Zenon DEF EndThread
      <3> QED BY <1>1, <1>11, <2>2, <3>1, <3>2, CountDown, Zenon DEF Accounts, Running
    <2> QED BY <2>1, <2>2, Zenon
  <1>13. NewThread'
    BY <1>1, <1>2, <1>7, Zenon DEF Accounts, NewThread
  <1>14. Gone(Readers) => Gone(Readers)'
    BY <1>2, <1>4, <1>5, Zenon DEF Gone, Contexts
  <1>15. Gone(Writers) => Gone(Writers)'
    BY <1>2, <1>4, <1>5, Zenon DEF Gone, Contexts
  <1>16. ReaderContexts'
    <2>1. CASE main' = main
      BY <1>1, <1>2, <1>14, <2>1, Zenon DEF Accounts, ReaderContexts
    <2>2. CASE main' # main
      <3>1. main = "finishing" /\ main' = "finished" /\ non_BWRC_threads_running' = 0
        BY <1>6, <2>2, Zenon
      <3>2. main' \notin Creating \cup {"finishing", "creating", "created"}
        BY <3>1, Zenon DEF Creating
      <3>3. Running(Readers, 0)'
        BY <1>12, <3>1, Zenon DEF Running
      <3>4. Gone(Readers)'
        <4>1. (main \notin {"creating", "created"})'
          BY <3>2, Zenon
        <4> QED BY <1>8, <3>3, <4>1, NoReaderLeft, PTL
      <3> QED BY <3>2, <3>4, Zenon DEF ReaderContexts
    <2> QED BY <2>1, <2>2, Zenon
  <1>17. WriterContexts'
    BY <1>1, <1>2, <1>7, <1>15, Zenon DEF Accounts, WriterContexts
  <1>18. Accounts'
    BY <1>12, <1>13, <1>16, <1>17, Zenon DEF Accounts
  <1>19. ContextsAllocated'
    BY <1>7, <1>8, <1>18, Allocated, PTL
  <1> QED BY <1>8, <1>18, <1>19, Zenon DEF AllocInv

(* The exerciser ends in a thread.                                         *)
LEMMA DiesAccounts ==
  ASSUME AllocInv, Alive, main' = "died",
         UNCHANGED <<rules, stanza, todo, ending, th, non_BWRC_mem, BWRC_mem>>
  PROVE  AllocInv'
  <1>1. main' \in Ended /\ ~Alive'
    BY Zenon DEF Ended, Alive
  <1>2. Shape'
    BY <1>1, Zenon DEF AllocInv, Shape
  <1> QED BY <1>1, <1>2, EndsAccounts, Zenon

(* The steps in which a thread only moves on.                              *)
LEMMA MovesAccounts ==
  ASSUME AllocInv, Alive, NEW c \in Contexts,
         \/ Proceed(c) \/ OpenDisk(c) \/ wait_for_fencepost_catchup(c) \/ Leave(c) \/ NextBlocks(c)
         \/ (\E w \in Writers : DrawZone(c, w)) \/ LockBlocks(c) \/ Transfer(c)
         \/ PatternFails(c) \/ AllocFails(c) \/ TransferFails(c)
  PROVE  AllocInv'
  <1>1. UNCHANGED <<rules, ending, mainvars>> /\ UNCHANGED counts
    BY Zenon DEF Proceed, OpenDisk, wait_for_fencepost_catchup, Leave, NextBlocks, DrawZone, LockBlocks,
                 Transfer, PatternFails, AllocFails, TransferFails
  <1>2. UNCHANGED <<rules, ending, main, stanza, todo, non_BWRC_mem, BWRC_mem>>
    BY <1>1, Zenon DEF mainvars
  <1>3. th[c] \in {"ready", "open", "catchup", "top", "draw", "lock", "io"}
    BY Zenon DEF Proceed, OpenDisk, wait_for_fencepost_catchup, Leave, NextBlocks, DrawZone, LockBlocks,
                 Transfer, PatternFails, AllocFails, TransferFails
  <1>4. \E s \in {"open", "catchup", "top", "close", "draw", "lock", "aim", "io"} : Goto(c, s)
    BY Zenon DEF Proceed, OpenDisk, wait_for_fencepost_catchup, Leave, NextBlocks, DrawZone, LockBlocks,
                 Transfer, PatternFails, AllocFails, TransferFails
  <1> PICK s \in {"open", "catchup", "top", "close", "draw", "lock", "aim", "io"} : Goto(c, s)
    BY <1>4, Zenon
  <1>5. s \in Places /\ s \notin {"none", "born", "waiting"}
    BY ONLY s \in {"open", "catchup", "top", "close", "draw", "lock", "aim", "io"}, Zenon DEF Places
  <1>6. th[c] \notin {"none", "born", "waiting"}
    BY ONLY <1>3, Zenon
  <1> QED BY <1>1, <1>2, <1>5, <1>6, ThreadMoves, Zenon

(* The step of a thread that draws a block.                                *)
LEMMA DrawAccounts ==
  ASSUME AllocInv, Alive, NEW c \in Contexts, DrawBlock(c)
  PROVE  AllocInv'
  <1>1. /\ th[c] = "aim" /\ UNCHANGED counts
        /\ UNCHANGED <<rules, ending, stanza, todo, non_BWRC_mem, BWRC_mem>>
    BY Zenon DEF DrawBlock
  <1>2. (main' = "died" /\ UNCHANGED th) \/ (Goto(c, "lock") /\ UNCHANGED main)
    BY Zenon DEF DrawBlock
  <1>3. CASE main' = "died" /\ UNCHANGED th
    BY <1>1, <1>3, DiesAccounts, Zenon
  <1>4. CASE Goto(c, "lock") /\ UNCHANGED main
    <2>1. "lock" \in Places /\ "lock" \notin {"none", "born", "waiting"} /\ th[c] \notin {"none", "born", "waiting"}
      BY <1>1, Zenon DEF Places
    <2> QED BY <1>1, <1>4, <2>1, ThreadMoves, Zenon
  <1> QED BY <1>2, <1>3, <1>4, Zenon

(* In every state of the exerciser its accounts are right.                 *)
LEMMA AllocInvariant == Spec => []AllocInv
  <1>1. Init => AllocInv
    <2> SUFFICES ASSUME Init PROVE AllocInv
      BY Zenon
    <2>1. Shape /\ Alive
      <3>1. rules.stanzas \in Seq([threads : Seq(Contexts), skip : Int]) \ {<<>>}
        BY RulesAssumption, Zenon DEF Init
      <3>2. Len(rules.stanzas) \in Nat \ {0}
        BY <3>1
      <3>3. non_BWRC_mem \in BOOLEAN /\ BWRC_mem \in BOOLEAN
        BY Zenon DEF Init
      <3>4. rules \in RuleFiles /\ stanza \in 1 .. Len(rules.stanzas) /\ todo \in Seq(Contexts)
        BY <3>2 DEF Init
      <3>5. th \in [Contexts -> Places] /\ ending \in [Contexts -> Nat] /\ main \in Resting
        BY Zenon DEF Init, Places, Resting
      <3>6. Alive
        BY Zenon DEF Init, Alive
      <3> QED BY <3>3, <3>4, <3>5, <3>6, Zenon DEF Shape
    <2>2. main \notin {"creating", "created", "finishing"} \cup Creating
      BY Zenon DEF Init, Creating
    <2>3. \A c \in Contexts : th[c] = "none" /\ ending[c] = 0 /\ th[c] # "born"
      BY Zenon DEF Init
    <2>4. Gone(Readers) /\ Gone(Writers)
      BY <2>3, Zenon DEF Gone, Contexts
    <2>5. NewThread /\ ReaderContexts /\ WriterContexts
      BY <2>2, <2>3, <2>4, Zenon DEF Init, NewThread, ReaderContexts, WriterContexts
    <2>6. \A c \in Contexts : Numbers[c] = 0
      BY <2>3 DEF Numbers
    <2>7. Tickets(Writers, Numbers) = {} /\ Tickets(Readers, Numbers) = {}
      BY <2>6 DEF Tickets, Contexts
    <2>8. Running(Writers, 0) /\ Running(Readers, 0)
      BY <2>7, FS_EmptySet, Zenon DEF Running
    <2>9. Accounts
      BY <2>5, <2>8, Zenon DEF Accounts, Init
    <2>10. ContextsAllocated
      BY <2>1, <2>9, Allocated, Zenon
    <2> QED BY <2>1, <2>9, <2>10, Zenon DEF AllocInv
  <1>2. AllocInv /\ [Next]_vars => AllocInv'
    <2> SUFFICES ASSUME AllocInv, [Next]_vars PROVE AllocInv'
      BY Zenon
    <2>1. CASE UNCHANGED vars
      BY <2>1, OtherStep, Zenon DEF vars, mainvars
    <2>2. CASE MainStep
      <3>1. main \in {"stanza", "create", "created", "finished", "next", "leaving", "freed"}
        BY <2>2, Zenon DEF MainStep, RunStanza, CreateThread, CountThread, StartThreads, FreeContexts,
                           NextStanza, Cleanup, GiveUp, Return
      <3>2. Alive
        BY ONLY <3>1, Zenon DEF Alive
      <3> QED BY <2>2, <3>2, MainAccounts, Zenon
    <2>3. CASE SIGTERM_hdl \/ sig_function
      BY <2>3, OtherStep, Zenon DEF SIGTERM_hdl, sig_function, mainvars
    <2>4. ASSUME NEW c \in Contexts, ThreadStep(c) PROVE AllocInv'
      BY <2>4, AnnounceAccounts, MovesAccounts, DrawAccounts, CloseAccounts, EndAccounts, Zenon DEF ThreadStep
    <2>5. ASSUME NEW c \in Contexts, Fails(c) PROVE AllocInv'
      <3>1. CASE OpenFails(c)
        BY <2>5, <3>1, DiesAccounts, Zenon DEF Fails, OpenFails
      <3> QED BY <2>5, <3>1, MovesAccounts, Zenon DEF Fails
    <2> QED BY <2>1, <2>2, <2>3, <2>4, <2>5, Zenon DEF Next
  <1> QED BY <1>1, <1>2, PTL DEF Spec

(* For any rule files and any number of threads, whatever fails and        *)
(* whenever a signal comes, the contexts of the readers are freed after    *)
(* the last of them has ended, and the BWRC contexts after the last BWRC   *)
(* thread, unless main gives up waiting for it.                            *)
THEOREM ContextsOutliveThreads == Spec => []ContextsAllocated
  <1>1. AllocInv => ContextsAllocated
    BY Zenon DEF AllocInv
  <1> QED BY <1>1, AllocInvariant, PTL

-----------------------------------------------------------------------------
(***************************************************************************)
(* The blocks of the threads.  What is said of a thread is said of its     *)
(* rule file f, its place s and its context t, and for a BWRC thread of    *)
(* its fencepost e and the blocks W that have been written.                *)
(***************************************************************************)
Positions == [blkno : Int, num_blks : Int, do_partial : {0, 1}, oper_loop : Nat, draw : Writers \cup {0}]
Fenceposts == [min_lba : Int, max_lba : Int, status : {"F", "R"}]

Low(f, c) == tctx[f][c].min_blkno
High(f, c) == tctx[f][c].max_blkno
First(f, c) == tctx[f][c].first_blk
Whole(f, c) == f.rule[c].num_blks
Upward(f, c) == f.rule[c].direction = "UP"
Moving == {"catchup", "top"}
Busy == {"lock", "io"}

(* A sequential thread stays inside its blocks; a whole transfer fits      *)
(* wherever it starts again.                                               *)
Pos(f, c, s, t) ==
  IF f.rule[c].seek = "RANDOM" THEN t.num_blks <= Whole(f, c) /\ s # "catchup"
  ELSE /\ t.num_blks \in 1 .. Whole(f, c) /\ (t.do_partial = 0 => t.num_blks = Whole(f, c))
       /\ s \notin {"draw", "aim"}
       /\ Upward(f, c) /\ t.do_partial = 1 => First(f, c) + t.num_blks - 1 <= High(f, c)
       /\ Upward(f, c) /\ s \in Moving \cup Busy => First(f, c) <= t.blkno
       /\ Upward(f, c) /\ s \in Moving =>
            /\ t.blkno > High(f, c) => First(f, c) + Whole(f, c) - 1 <= High(f, c)
            /\ t.do_partial = 1 => t.blkno + t.num_blks - 1 <= High(f, c)
       /\ ~Upward(f, c) /\ s \in Moving =>
            /\ t.blkno + t.num_blks - 1 <= High(f, c)
            /\ t.do_partial = 1 => Low(f, c) <= t.blkno
       /\ s \in Busy => Low(f, c) <= t.blkno /\ t.blkno + t.num_blks - 1 <= High(f, c)

PosInv ==
  /\ cur \in [Contexts -> Positions] /\ fence \in [Writers -> Fenceposts]
  /\ \A c \in Contexts : Pos(rules, c, th[c], cur[c]) /\ (th[c] = "aim" => cur[c].draw \in Writers)

-----------------------------------------------------------------------------
(* What the settings of a thread give it.                                  *)
Sane(f, c) ==
  /\ Whole(f, c) \in Nat \ {0} /\ Low(f, c) \in Nat /\ High(f, c) \in Nat /\ First(f, c) \in Int
  /\ Low(f, c) <= First(f, c) /\ First(f, c) <= High(f, c)
  /\ ~Upward(f, c) => First(f, c) + Whole(f, c) - 1 <= High(f, c)
  /\ f.rule[c].seek \in {"SEQ", "RANDOM"}

(* apply_rule_settings gives it that.                                      *)
LEMMA Settings == ASSUME NEW f \in RuleFiles, NEW c \in Contexts, Fits(f, c) PROVE Sane(f, c)
  <1>1. f.rule[c] \in ThreadRules /\ Lba \subseteq Nat
    BY RulesAssumption, Zenon
  <1>2. Whole(f, c) \in Nat \ {0} /\ f.rule[c].seek \in {"SEQ", "RANDOM"} /\ f.rule[c].direction \in {"UP", "DOWN"}
    <2>1. f.rule[c].num_blks \in Lba \ {0} /\ f.rule[c].seek \in {"SEQ", "RANDOM"} /\ f.rule[c].direction \in {"UP", "DOWN"}
      BY <1>1, Zenon DEF ThreadRules
    <2> QED BY <1>1, <2>1, Zenon DEF Whole
  <1>3. tctx[f][c] = apply_rule_settings(f, c)
    BY Zenon DEF tctx
  <1>4. First(f, c) = set_first_blk(f.rule[c], Low(f, c), High(f, c))
    BY <1>3 DEF First, Low, High, apply_rule_settings
  <1>5. /\ Low(f, c) \in Nat /\ High(f, c) \in Nat /\ Low(f, c) <= High(f, c)
        /\ f.rule[c].direction = "DOWN" => Whole(f, c) <= High(f, c) - Low(f, c) + 1
    BY Zenon DEF Fits, Low, High, Whole
  <1>6. First(f, c) \in Int /\ Low(f, c) <= First(f, c) /\ First(f, c) <= High(f, c)
    BY <1>2, <1>4, <1>5 DEF set_first_blk, Whole
  <1>7. ~Upward(f, c) => First(f, c) + Whole(f, c) - 1 <= High(f, c)
    BY <1>2, <1>4, <1>5 DEF set_first_blk, Whole, Upward
  <1> QED BY <1>2, <1>5, <1>6, <1>7, Zenon DEF Sane

(* The names of the settings.                                              *)
LEMMA Names ==
  ASSUME NEW c
  PROVE  /\ ctx(c).min_blkno = Low(rules, c) /\ ctx(c).max_blkno = High(rules, c)
         /\ ctx(c).first_blk = First(rules, c) /\ rule(c).num_blks = Whole(rules, c)
         /\ (rule(c).direction = "UP" <=> Upward(rules, c)) /\ rule(c).seek = rules.rule[c].seek
  BY Zenon DEF ctx, rule, Low, High, First, Whole, Upward

(* When a transfer would leave the blocks, and when nothing is left.       *)
LEMMA Leaves ==
  ASSUME NEW c, NEW t
  PROVE  /\ Upward(rules, c) =>
              /\ wrap(c, t) <=> t.blkno + t.num_blks - 1 > High(rules, c)
              /\ NothingLeft(c, t) <=> t.blkno > High(rules, c)
         /\ ~Upward(rules, c) =>
              /\ wrap(c, t) <=> t.blkno < Low(rules, c)
              /\ NothingLeft(c, t) <=> t.blkno + t.num_blks - 1 < Low(rules, c)
  BY Names, Zenon DEF wrap, NothingLeft

(* A context whose position is set.                                        *)
IsSet(u, t, b, n, p) ==
  /\ u \in Positions /\ u.blkno = b /\ u.num_blks = n /\ u.do_partial = p
  /\ u.oper_loop = t.oper_loop /\ u.draw = t.draw

(* One field of it after the other.                                        *)
LEMMA SetBlkno ==
  ASSUME NEW t \in Positions, NEW b \in Int
  PROVE  IsSet([t EXCEPT !.blkno = b], t, b, t.num_blks, t.do_partial)
  BY Zenon DEF Positions, IsSet

(* The number of blocks.                                                   *)
LEMMA SetNum ==
  ASSUME NEW t \in Positions, NEW n \in Int
  PROVE  IsSet([t EXCEPT !.num_blks = n], t, t.blkno, n, t.do_partial)
  BY Zenon DEF Positions, IsSet

(* The mark of a shortened transfer.                                       *)
LEMMA SetPartial ==
  ASSUME NEW t \in Positions, NEW p \in {0, 1}
  PROVE  IsSet([t EXCEPT !.do_partial = p], t, t.blkno, t.num_blks, p)
  BY Zenon DEF Positions, IsSet

(* A thread starts at its first block.                                     *)
LEMMA StartPos ==
  ASSUME NEW c \in Contexts, Sane(rules, c), rules.rule[c].seek = "SEQ", NEW t \in Positions,
         Pos(rules, c, "open", t), NEW s \in Moving
  PROVE  init_blkno(c, t) \in Positions /\ Pos(rules, c, s, init_blkno(c, t))
  <1>1. rules.rule[c].seek # "RANDOM" /\ s \notin {"draw", "aim"} /\ s \notin Busy
    BY Zenon DEF Moving, Busy
  <1> PICK u : u = init_blkno(c, t)
    BY Zenon
  <1>2. /\ u \in Positions /\ u.blkno = First(rules, c) /\ u.num_blks = t.num_blks /\ u.do_partial = t.do_partial
    BY Names, Zenon DEF init_blkno, Sane, Positions
  <1>3. t.num_blks \in Int /\ t.do_partial \in {0, 1}
    BY Zenon DEF Positions
  <1>4. Pos(rules, c, s, u)
    BY <1>1, <1>2, <1>3 DEF Pos, Sane
  <1> QED BY <1>2, <1>4, Zenon

(* What do_boundary_check makes of a context.                              *)
LEMMA BoundaryIs ==
  ASSUME NEW c \in Contexts, Sane(rules, c), NEW t \in Positions, NEW u, u = do_boundary_check(c, t)
  PROVE  /\ ~wrap(c, t) => u = t
         /\ wrap(c, t) /\ NothingLeft(c, t) => IsSet(u, t, First(rules, c), t.num_blks, 0)
         /\ wrap(c, t) /\ ~NothingLeft(c, t) /\ Upward(rules, c) =>
              IsSet(u, t, t.blkno, High(rules, c) - t.blkno + 1, 1)
         /\ wrap(c, t) /\ ~NothingLeft(c, t) /\ ~Upward(rules, c) =>
              IsSet(u, t, Low(rules, c), t.num_blks - (Low(rules, c) - t.blkno), 1)
  <1>3. t.num_blks \in Int /\ t.do_partial \in {0, 1} /\ t.blkno \in Int /\ t.oper_loop \in Nat
    BY Zenon DEF Positions
  <1>4. ASSUME ~wrap(c, t) PROVE u = t
    BY <1>4, Zenon DEF do_boundary_check
  <1>5. ASSUME wrap(c, t), NothingLeft(c, t) PROVE IsSet(u, t, First(rules, c), t.num_blks, 0)
    <2> PICK v : v = [t EXCEPT !.blkno = First(rules, c)]
      BY Zenon
    <2>1. u = [v EXCEPT !.do_partial = 0]
      BY <1>5, Names, Zenon DEF init_blkno, do_boundary_check
    <2>2. IsSet(v, t, First(rules, c), t.num_blks, t.do_partial)
      BY SetBlkno, Zenon DEF Sane
    <2>3. v \in Positions /\ 0 \in {0, 1}
      BY <2>2, Zenon DEF IsSet
    <2>4. IsSet(u, v, v.blkno, v.num_blks, 0)
      BY <2>1, <2>3, SetPartial, Zenon
    <2> QED BY <2>2, <2>4, Zenon DEF IsSet
  <1>6. ASSUME wrap(c, t), ~NothingLeft(c, t), Upward(rules, c)
        PROVE  IsSet(u, t, t.blkno, High(rules, c) - t.blkno + 1, 1)
    <2> PICK v : v = [t EXCEPT !.do_partial = 1]
      BY Zenon
    <2>1. u = [v EXCEPT !.num_blks = High(rules, c) - t.blkno + 1]
      BY <1>6, Names, Zenon DEF do_boundary_check
    <2>2. IsSet(v, t, t.blkno, t.num_blks, 1)
      <3>1. 1 \in {0, 1}
        BY Zenon
      <3> QED BY <3>1, SetPartial, Zenon
    <2>3. v \in Positions /\ High(rules, c) - t.blkno + 1 \in Int
      BY <1>3, <2>2 DEF IsSet, Sane
    <2>4. IsSet(u, v, v.blkno, High(rules, c) - t.blkno + 1, v.do_partial)
      BY <2>1, <2>3, SetNum, Zenon
    <2> QED BY <2>2, <2>4, Zenon DEF IsSet
  <1>7. ASSUME wrap(c, t), ~NothingLeft(c, t), ~Upward(rules, c)
        PROVE  IsSet(u, t, Low(rules, c), t.num_blks - (Low(rules, c) - t.blkno), 1)
    <2> PICK v : v = [t EXCEPT !.do_partial = 1]
      BY Zenon
    <2> PICK x : x = [v EXCEPT !.num_blks = t.num_blks - (Low(rules, c) - t.blkno)]
      BY Zenon
    <2>1. u = [x EXCEPT !.blkno = Low(rules, c)]
      BY <1>7, Names, Zenon DEF do_boundary_check
    <2>2. IsSet(v, t, t.blkno, t.num_blks, 1)
      <3>1. 1 \in {0, 1}
        BY Zenon
      <3> QED BY <3>1, SetPartial, Zenon
    <2>3. v \in Positions /\ t.num_blks - (Low(rules, c) - t.blkno) \in Int /\ Low(rules, c) \in Int
      BY <1>3, <2>2 DEF IsSet, Sane
    <2>4. IsSet(x, v, v.blkno, t.num_blks - (Low(rules, c) - t.blkno), v.do_partial)
      BY <2>3, SetNum, Zenon
    <2>5. x \in Positions
      BY <2>4, Zenon DEF IsSet
    <2>6. IsSet(u, x, Low(rules, c), x.num_blks, x.do_partial)
      <3>1. IsSet([x EXCEPT !.blkno = Low(rules, c)], x, Low(rules, c), x.num_blks, x.do_partial)
        BY ONLY <2>3, <2>5, SetBlkno, Zenon
      <3> QED BY <2>1, <3>1, Zenon
    <2> QED BY <2>2, <2>4, <2>6, Zenon DEF IsSet
  <1> QED BY <1>4, <1>5, <1>6, <1>7, Zenon

(* A transfer is cut or started again where it would leave the blocks.     *)
LEMMA BoundaryPos ==
  ASSUME NEW c \in Contexts, Sane(rules, c), rules.rule[c].seek = "SEQ", NEW t \in Positions,
         Pos(rules, c, "top", t)
  PROVE  do_boundary_check(c, t) \in Positions /\ Pos(rules, c, "lock", do_boundary_check(c, t))
  <1>1. rules.rule[c].seek # "RANDOM" /\ "lock" \notin {"draw", "aim"} /\ "lock" \notin Moving /\ "lock" \in Busy
        /\ "top" \in Moving
    BY Zenon DEF Moving, Busy
  <1> PICK u : u = do_boundary_check(c, t)
    BY Zenon
  <1>3. t.num_blks \in Int /\ t.do_partial \in {0, 1} /\ t.blkno \in Int /\ t.oper_loop \in Nat
    BY Zenon DEF Positions
  <1>4. CASE ~wrap(c, t)
    <2>1. u = t
      BY <1>4, Zenon DEF do_boundary_check
    <2>2. Pos(rules, c, "lock", t)
      BY <1>1, <1>3, <1>4, Leaves DEF Pos, Sane
    <2> QED BY <2>1, <2>2, Zenon
  <1>5. CASE wrap(c, t) /\ NothingLeft(c, t)
    <2>1. IsSet(u, t, First(rules, c), t.num_blks, 0)
      BY <1>5, BoundaryIs, Zenon
    <2>2. t.do_partial = 0
      BY <1>1, <1>3, <1>5, Leaves DEF Pos, Sane
    <2>3. Pos(rules, c, "lock", u)
      BY <1>1, <1>3, <1>5, <2>1, <2>2, Leaves DEF Pos, Sane, IsSet
    <2> QED BY <2>1, <2>3, Zenon DEF IsSet
  <1>6. CASE wrap(c, t) /\ ~NothingLeft(c, t) /\ Upward(rules, c)
    <2>1. IsSet(u, t, t.blkno, High(rules, c) - t.blkno + 1, 1)
      BY <1>6, BoundaryIs, Zenon
    <2>2. Pos(rules, c, "lock", u)
      BY <1>1, <1>3, <1>6, <2>1, Leaves DEF Pos, Sane, IsSet
    <2> QED BY <2>1, <2>2, Zenon DEF IsSet
  <1>7. CASE wrap(c, t) /\ ~NothingLeft(c, t) /\ ~Upward(rules, c)
    <2>1. IsSet(u, t, Low(rules, c), t.num_blks - (Low(rules, c) - t.blkno), 1)
      BY <1>7, BoundaryIs, Zenon
    <2>2. Pos(rules, c, "lock", u)
      BY <1>1, <1>3, <1>7, <2>1, Leaves DEF Pos, Sane, IsSet
    <2> QED BY <2>1, <2>2, Zenon DEF IsSet
  <1> QED BY <1>4, <1>5, <1>6, <1>7, Zenon

(* A reader that is not behind the fencepost goes to its first block.      *)
LEMMA FencePos ==
  ASSUME NEW c \in Contexts, Sane(rules, c), rules.rule[c].seek = "SEQ", NEW t \in Positions,
         Pos(rules, c, "lock", t)
  PROVE  do_fencepost_check(c, t) \in Positions /\ Pos(rules, c, "lock", do_fencepost_check(c, t))
  <1>1. rules.rule[c].seek # "RANDOM" /\ "lock" \notin {"draw", "aim"} /\ "lock" \notin Moving /\ "lock" \in Busy
    BY Zenon DEF Moving, Busy
  <1> PICK u : u = init_blkno(c, t)
    BY Zenon
  <1>2. /\ u \in Positions /\ u.blkno = First(rules, c) /\ u.num_blks = t.num_blks /\ u.do_partial = t.do_partial
    BY Names, Zenon DEF init_blkno, Sane, Positions
  <1>3. t.num_blks \in Int /\ t.do_partial \in {0, 1} /\ t.blkno \in Int
    BY Zenon DEF Positions
  <1>4. Pos(rules, c, "lock", u)
    BY <1>1, <1>2, <1>3 DEF Pos, Sane
  <1> QED BY <1>2, <1>4, Zenon DEF do_fencepost_check

(* What set_blkno makes of a context.                                      *)
LEMMA NextIs ==
  ASSUME NEW c \in Contexts, Sane(rules, c), NEW t \in Positions, NEW u, u = set_blkno(c, t)
  PROVE  /\ t.do_partial = 1 => IsSet(u, t, First(rules, c), Whole(rules, c), 0)
         /\ t.do_partial = 0 =>
              IsSet(u, t, IF Upward(rules, c) THEN t.blkno + t.num_blks ELSE t.blkno - t.num_blks, t.num_blks, 0)
  <1>3. t.num_blks \in Int /\ t.do_partial \in {0, 1} /\ t.blkno \in Int /\ t.oper_loop \in Nat
    BY Zenon DEF Positions
  <1>4. ASSUME t.do_partial = 1 PROVE IsSet(u, t, First(rules, c), Whole(rules, c), 0)
    <2> PICK v : v = [t EXCEPT !.blkno = First(rules, c)]
      BY Zenon
    <2> PICK x : x = [v EXCEPT !.do_partial = 0]
      BY Zenon
    <2>1. u = [x EXCEPT !.num_blks = Whole(rules, c)]
      BY <1>4, Names, Zenon DEF init_blkno, set_blkno
    <2>2. IsSet(v, t, First(rules, c), t.num_blks, t.do_partial)
      BY SetBlkno, Zenon DEF Sane
    <2>3. v \in Positions /\ 0 \in {0, 1} /\ Whole(rules, c) \in Int
      BY <2>2 DEF IsSet, Sane
    <2>4. IsSet(x, v, v.blkno, v.num_blks, 0)
      BY <2>3, SetPartial, Zenon
    <2>5. x \in Positions
      BY <2>4, Zenon DEF IsSet
    <2>6. IsSet(u, x, x.blkno, Whole(rules, c), x.do_partial)
      BY <2>1, <2>3, <2>5, SetNum, Zenon
    <2> QED BY <2>2, <2>4, <2>6, Zenon DEF IsSet
  <1> PICK b : b = IF Upward(rules, c) THEN t.blkno + t.num_blks ELSE t.blkno - t.num_blks
    BY Zenon
  <1>5. ASSUME t.do_partial = 0 PROVE IsSet(u, t, b, t.num_blks, t.do_partial)
    <2>1. b \in Int
      BY <1>3
    <2>2. t.do_partial # 1
      BY <1>5
    <2>3. u = [t EXCEPT !.blkno = b]
      BY <2>2, Names, Zenon DEF set_blkno
    <2> QED BY <2>1, <2>3, SetBlkno, Zenon
  <1> QED BY <1>4, <1>5, Zenon

(* The next block.                                                         *)
LEMMA NextPos ==
  ASSUME NEW c \in Contexts, Sane(rules, c), rules.rule[c].seek = "SEQ", NEW t \in Positions,
         Pos(rules, c, "io", t)
  PROVE  set_blkno(c, t) \in Positions /\ Pos(rules, c, "top", set_blkno(c, t))
  <1>1. rules.rule[c].seek # "RANDOM" /\ "top" \notin {"draw", "aim"} /\ "top" \in Moving /\ "top" \notin Busy
        /\ "io" \in Busy
    BY Zenon DEF Moving, Busy
  <1> PICK u : u = set_blkno(c, t)
    BY Zenon
  <1>3. t.num_blks \in Int /\ t.do_partial \in {0, 1} /\ t.blkno \in Int /\ t.oper_loop \in Nat
    BY Zenon DEF Positions
  <1>4. CASE t.do_partial = 1
    <2>1. IsSet(u, t, First(rules, c), Whole(rules, c), 0)
      BY <1>4, NextIs, Zenon
    <2>2. Pos(rules, c, "top", u)
      BY <1>1, <2>1 DEF Pos, Sane, IsSet
    <2> QED BY <2>1, <2>2, Zenon DEF IsSet
  <1>5. CASE t.do_partial = 0
    <2> PICK b : b = IF Upward(rules, c) THEN t.blkno + t.num_blks ELSE t.blkno - t.num_blks
      BY Zenon
    <2>1. IsSet(u, t, b, t.num_blks, t.do_partial)
      BY <1>5, NextIs, Zenon
    <2>2. Pos(rules, c, "top", u)
      BY <1>1, <1>3, <1>5, <2>1 DEF Pos, Sane, IsSet
    <2> QED BY <2>1, <2>2, Zenon DEF IsSet
  <1> QED BY <1>3, <1>4, <1>5, Zenon

(* Away from its loop a thread may be anywhere.                            *)
LEMMA RestPos ==
  ASSUME NEW f, NEW c, NEW s, NEW z, NEW t, Pos(f, c, s, t),
         z \notin Moving \cup Busy \cup {"draw", "aim"}
  PROVE  Pos(f, c, z, t)
  <1>1. z # "catchup" /\ z \notin Moving /\ z \notin Busy /\ z \notin {"draw", "aim"}
    BY Zenon DEF Moving, Busy
  <1> QED BY <1>1, Zenon DEF Pos

(* A step of one thread.                                                   *)
LEMMA OnePos ==
  ASSUME PosInv, rules' = rules, NEW c \in Contexts,
         cur' \in [Contexts -> Positions], fence' \in [Writers -> Fenceposts],
         \A d \in Contexts : d # c => th'[d] = th[d] /\ cur'[d] = cur[d],
         Pos(rules, c, th'[c], cur'[c]), th'[c] = "aim" => cur'[c].draw \in Writers
  PROVE  PosInv'
  BY Zenon DEF PosInv

(* A thread whose context is not changed moves to a place away from its    *)
(* loop.                                                                   *)
LEMMA AwayPos ==
  ASSUME Shape, PosInv, rules' = rules, NEW c \in Contexts, cur' = cur, fence' \in [Writers -> Fenceposts],
         NEW z, z \notin Moving \cup Busy \cup {"draw", "aim"}, Goto(c, z)
  PROVE  PosInv'
  <1>1. th'[c] = z /\ \A d \in Contexts : d # c => th'[d] = th[d]
    BY Zenon DEF Goto, Shape
  <1>2. Pos(rules, c, th'[c], cur'[c])
    BY <1>1, RestPos, Zenon DEF PosInv
  <1>3. th'[c] # "aim"
    BY <1>1, Zenon
  <1>4. cur' \in [Contexts -> Positions]
    BY Zenon DEF PosInv
  <1> QED BY <1>1, <1>2, <1>3, <1>4, OnePos, Zenon

(* A thread whose context is set.                                          *)
LEMMA SetPos ==
  ASSUME Shape, PosInv, rules' = rules, NEW c \in Contexts, NEW u \in Positions,
         cur' = [cur EXCEPT ![c] = u], fence' \in [Writers -> Fenceposts],
         NEW z, Goto(c, z), Pos(rules, c, z, u), z = "aim" => u.draw \in Writers
  PROVE  PosInv'
  <1>1. th'[c] = z /\ \A d \in Contexts : d # c => th'[d] = th[d]
    BY Zenon DEF Goto, Shape
  <1>2. cur \in [Contexts -> Positions]
    BY Zenon DEF PosInv
  <1>3. cur' \in [Contexts -> Positions] /\ cur'[c] = u /\ \A d \in Contexts : d # c => cur'[d] = cur[d]
    BY <1>2, Zenon
  <1>4. Pos(rules, c, th'[c], cur'[c]) /\ (th'[c] = "aim" => cur'[c].draw \in Writers)
    BY <1>1, <1>3, Zenon
  <1> QED BY <1>1, <1>3, <1>4, OnePos, Zenon

(* seg_unlock leaves a fencepost in the place of the old one.              *)
LEMMA UnlockFence ==
  ASSUME PosInv, NEW c \in Contexts, seg_unlock(c)
  PROVE  fence' \in [Writers -> Fenceposts]
  <1>1. cur[c].blkno \in Int /\ cur[c].blkno + cur[c].num_blks - 1 \in Int
    BY DEF PosInv, Positions
  <1> SUFFICES ASSUME NEW w \in Writers
               PROVE  (IF w # c THEN fence[w]
                       ELSE IF rule(c).direction = "UP"
                       THEN [fence[w] EXCEPT !.max_lba = cur[c].blkno + cur[c].num_blks - 1]
                       ELSE [fence[w] EXCEPT !.min_lba = cur[c].blkno]) \in Fenceposts
    BY Zenon DEF seg_unlock
  <1>2. fence[w] \in Fenceposts
    BY Zenon DEF PosInv
  <1>3. [fence[w] EXCEPT !.max_lba = cur[c].blkno + cur[c].num_blks - 1] \in Fenceposts
    BY <1>1, <1>2, Zenon DEF Fenceposts
  <1>4. [fence[w] EXCEPT !.min_lba = cur[c].blkno] \in Fenceposts
    BY <1>1, <1>2, Zenon DEF Fenceposts
  <1> QED BY <1>2, <1>3, <1>4, Zenon

(* The status of a fencepost is changed.                                   *)
LEMMA MarkFence ==
  ASSUME PosInv, NEW c, NEW z \in {"F", "R"},
         fence' = [w \in Writers |-> IF w = c THEN [fence[w] EXCEPT !.status = z] ELSE fence[w]]
  PROVE  /\ fence' \in [Writers -> Fenceposts]
         /\ \A w \in Writers : fence'[w].min_lba = fence[w].min_lba /\ fence'[w].max_lba = fence[w].max_lba
  <1>1. fence \in [Writers -> Fenceposts]
    BY Zenon DEF PosInv
  <1>2. ASSUME NEW w \in Writers
        PROVE  /\ fence'[w] \in Fenceposts
               /\ fence'[w].min_lba = fence[w].min_lba /\ fence'[w].max_lba = fence[w].max_lba
    <2>1. fence[w] \in Fenceposts
      BY <1>1, Zenon
    <2>2. fence'[w] = IF w = c THEN [fence[w] EXCEPT !.status = z] ELSE fence[w]
      BY Zenon
    <2> QED BY <2>1, <2>2, Zenon DEF Fenceposts
  <1>3. fence' = [w \in Writers |-> fence'[w]]
    BY Zenon
  <1> QED BY <1>2, <1>3, Zenon

(* The disk is opened.                                                     *)
LEMMA OpenPos ==
  ASSUME Shape, PosInv, NEW c \in Contexts, Sane(rules, c), OpenDisk(c)
  PROVE  PosInv'
  <1> PICK z : z = IF c \in Readers /\ rule(c).seek = "SEQ" THEN "catchup" ELSE "top"
    BY Zenon
  <1> PICK t : t = cur[c]
    BY Zenon
  <1>1. /\ th[c] = "open" /\ rules' = rules /\ Goto(c, z)
        /\ cur' = [cur EXCEPT ![c] = IF rule(c).seek = "SEQ" THEN init_blkno(c, t) ELSE t]
        /\ fence' = [w \in Writers |-> IF w = c THEN [fence[w] EXCEPT !.status = "R"] ELSE fence[w]]
    BY Zenon DEF OpenDisk
  <1>2. t \in Positions /\ Pos(rules, c, "open", t)
    <2>1. cur[c] \in Positions
      BY Zenon DEF PosInv
    <2> QED BY <1>1, <2>1, Zenon DEF PosInv
  <1>3. fence' \in [Writers -> Fenceposts]
    <2>1. "R" \in {"F", "R"}
      BY Zenon
    <2> QED BY <1>1, <2>1, MarkFence, Zenon
  <1>4. z \in Moving /\ z # "aim"
    BY Zenon DEF Moving
  <1>5. CASE rule(c).seek = "SEQ"
    <2>1. rules.rule[c].seek = "SEQ"
      BY <1>5, Names, Zenon
    <2>2. init_blkno(c, t) \in Positions /\ Pos(rules, c, z, init_blkno(c, t))
      BY <1>2, <1>4, <2>1, StartPos, Zenon
    <2>3. cur' = [cur EXCEPT ![c] = init_blkno(c, t)]
      BY <1>1, <1>5, Zenon
    <2> QED BY <1>1, <1>3, <1>4, <2>2, <2>3, SetPos, Zenon
  <1>6. CASE rule(c).seek # "SEQ"
    <2>1. rules.rule[c].seek = "RANDOM"
      BY <1>6, Names, Zenon DEF Sane
    <2>2. z # "catchup"
      BY <1>6, Zenon
    <2>3. Pos(rules, c, z, t)
      BY <1>2, <2>1, <2>2, Zenon DEF Pos
    <2>4. cur' = [cur EXCEPT ![c] = t]
      BY <1>1, <1>6, Zenon
    <2> QED BY <1>1, <1>2, <1>3, <1>4, <2>3, <2>4, SetPos, Zenon
  <1> QED BY <1>5, <1>6, Zenon

(* A thread goes on to its next blocks.                                    *)
LEMMA NextBlocksPos ==
  ASSUME Shape, PosInv, NEW c \in Contexts, Sane(rules, c), NextBlocks(c)
  PROVE  PosInv'
  <1> PICK t : t = cur[c]
    BY Zenon
  <1>1. th[c] = "top" /\ rules' = rules /\ fence' = fence
    BY Zenon DEF NextBlocks
  <1>2. t \in Positions /\ Pos(rules, c, "top", t) /\ fence' \in [Writers -> Fenceposts]
    <2>1. cur[c] \in Positions
      BY Zenon DEF PosInv
    <2> QED BY <1>1, <2>1, Zenon DEF PosInv
  <1>3. CASE rule(c).seek = "RANDOM"
    <2>1. Goto(c, "draw") /\ cur' = cur
      BY <1>3, Zenon DEF NextBlocks
    <2>2. rules.rule[c].seek = "RANDOM" /\ "draw" # "catchup" /\ "draw" # "aim"
      BY <1>3, Names, Zenon
    <2>3. Pos(rules, c, "draw", t)
      BY <1>2, <2>2, Zenon DEF Pos
    <2>4. cur' = [cur EXCEPT ![c] = t]
      BY <2>1, Zenon DEF PosInv
    <2> QED BY <1>1, <1>2, <2>1, <2>2, <2>3, <2>4, SetPos, Zenon
  <1>4. CASE rule(c).seek # "RANDOM"
    <2> PICK v : v = do_boundary_check(c, t)
      BY Zenon
    <2> PICK u : u = IF c \in Readers THEN do_fencepost_check(c, v) ELSE v
      BY Zenon
    <2>1. Goto(c, "lock") /\ cur' = [cur EXCEPT ![c] = u]
      BY <1>4, Zenon DEF NextBlocks
    <2>2. rules.rule[c].seek = "SEQ" /\ "lock" # "aim"
      BY <1>4, Names, Zenon DEF Sane
    <2>3. v \in Positions /\ Pos(rules, c, "lock", v)
      BY <1>2, <2>2, BoundaryPos, Zenon
    <2>4. u \in Positions /\ Pos(rules, c, "lock", u)
      BY <2>2, <2>3, FencePos, Zenon
    <2> QED BY <1>1, <1>2, <2>1, <2>2, <2>4, SetPos, Zenon
  <1> QED BY <1>3, <1>4, Zenon

(* A thread at random draws a zone, and then a block.                      *)
LEMMA DrawPos ==
  ASSUME Shape, PosInv, NEW c \in Contexts, Sane(rules, c),
         (\E w \in Writers : DrawZone(c, w)) \/ (DrawBlock(c) /\ main' # "died")
  PROVE  PosInv'
  <1> PICK t : t = cur[c]
    BY Zenon
  <1>1. rules' = rules /\ fence' = fence /\ th[c] \in {"draw", "aim"}
    BY Zenon DEF DrawZone, DrawBlock
  <1>2. t \in Positions /\ Pos(rules, c, th[c], t) /\ fence' \in [Writers -> Fenceposts]
    <2>1. cur[c] \in Positions
      BY Zenon DEF PosInv
    <2> QED BY <1>1, <2>1, Zenon DEF PosInv
  <1>3. rules.rule[c].seek = "RANDOM" /\ t.num_blks <= Whole(rules, c)
    BY <1>1, <1>2, Zenon DEF Pos
  <1>4. Whole(rules, c) \in Nat
    BY Zenon DEF Sane
  <1>5. t.num_blks \in Int /\ t.do_partial \in {0, 1} /\ t.blkno \in Int /\ t.oper_loop \in Nat
    BY <1>2, Zenon DEF Positions
  <1>6. ASSUME NEW w \in Writers, DrawZone(c, w) PROVE PosInv'
    <2> PICK lo : lo = fence[w].min_lba
      BY Zenon
    <2> PICK hi : hi = fence[w].max_lba
      BY Zenon
    <2> PICK n : n = IF lo # hi /\ hi - lo + 1 > t.num_blks THEN t.num_blks ELSE hi - lo
      BY Zenon
    <2> PICK v : v = [t EXCEPT !.draw = w]
      BY Zenon
    <2> PICK x : x = [v EXCEPT !.blkno = lo]
      BY Zenon
    <2> PICK u : u = [x EXCEPT !.num_blks = n]
      BY Zenon
    <2>1. Goto(c, "aim") /\ cur' = [cur EXCEPT ![c] = u]
      BY <1>6, Zenon DEF DrawZone
    <2>2. lo \in Int /\ hi \in Int
      BY Zenon DEF PosInv, Fenceposts
    <2>3. n \in Int /\ n <= Whole(rules, c)
      BY <1>3, <1>4, <1>5, <2>2
    <2>4. v \in Positions /\ v.draw = w
      BY <1>2, Zenon DEF Positions
    <2>5. IsSet(x, v, lo, v.num_blks, v.do_partial)
      BY <2>2, <2>4, SetBlkno, Zenon
    <2>6. u \in Positions /\ u.num_blks = n /\ u.draw = w
      <3>1. x \in Positions
        BY <2>5, Zenon DEF IsSet
      <3>2. IsSet(u, x, x.blkno, n, x.do_partial)
        BY <2>3, <3>1, SetNum, Zenon
      <3> QED BY <2>4, <2>5, <3>2, Zenon DEF IsSet
    <2>7. "aim" # "catchup"
      BY Zenon
    <2>8. Pos(rules, c, "aim", u)
      BY <1>3, <2>3, <2>6, <2>7, Zenon DEF Pos
    <2> QED BY <1>1, <1>2, <2>1, <2>6, <2>8, SetPos, Zenon
  <1>7. CASE DrawBlock(c) /\ main' # "died"
    <2>1. th[c] = "aim"
      BY <1>7, Zenon DEF DrawBlock
    <2>2. t.draw \in Writers
      BY <2>1, Zenon DEF PosInv
    <2> PICK e : e = fence[t.draw]
      BY Zenon
    <2>3. e.min_lba \in Int /\ e.max_lba \in Int
      BY <2>2, Zenon DEF PosInv, Fenceposts
    <2>4. \E base \in {t.blkno, e.min_lba}, low \in {t.blkno, e.min_lba} :
            LET m == e.max_lba - low - t.num_blks + 1
            IN  /\ \E x \in (IF m > 0 THEN 0 .. (m - 1) ELSE Lba) :
                     cur' = [cur EXCEPT ![c] = [t EXCEPT !.draw = 0, !.blkno = base + x]]
                /\ Goto(c, "lock")
      BY <1>7, Zenon DEF DrawBlock
    <2>5. PICK base \in {t.blkno, e.min_lba}, low \in {t.blkno, e.min_lba} :
            LET m == e.max_lba - low - t.num_blks + 1
            IN  /\ \E x \in (IF m > 0 THEN 0 .. (m - 1) ELSE Lba) :
                     cur' = [cur EXCEPT ![c] = [t EXCEPT !.draw = 0, !.blkno = base + x]]
                /\ Goto(c, "lock")
      BY <2>4, Zenon
    <2> PICK m : m = e.max_lba - low - t.num_blks + 1
      BY Zenon
    <2>6. PICK x \in (IF m > 0 THEN 0 .. (m - 1) ELSE Lba) :
               cur' = [cur EXCEPT ![c] = [t EXCEPT !.draw = 0, !.blkno = base + x]]
      BY <2>5, Zenon
    <2>7. m \in Int
      BY <1>5, <2>3
    <2>8. x \in Int
      BY <2>7, RulesAssumption
    <2>9. base + x \in Int
      BY <1>5, <2>3, <2>8
    <2> PICK v : v = [t EXCEPT !.draw = 0]
      BY Zenon
    <2> PICK u : u = [v EXCEPT !.blkno = base + x]
      BY Zenon
    <2>10. cur' = [cur EXCEPT ![c] = u]
      BY <2>6, Zenon
    <2>11. u \in Positions /\ u.num_blks = t.num_blks
      <3>1. v \in Positions /\ v.num_blks = t.num_blks
        BY <1>2, Zenon DEF Positions
      <3>2. IsSet(u, v, base + x, v.num_blks, v.do_partial)
        BY <2>9, <3>1, SetBlkno, Zenon
      <3> QED BY <3>1, <3>2, Zenon DEF IsSet
    <2>12. "lock" # "catchup" /\ "lock" # "aim"
      BY Zenon
    <2>13. Pos(rules, c, "lock", u)
      BY <1>3, <2>11, <2>12, Zenon DEF Pos
    <2>14. Goto(c, "lock")
      BY <2>5, Zenon
    <2> QED BY <1>1, <1>2, <2>10, <2>11, <2>12, <2>13, <2>14, SetPos, Zenon
  <1> QED BY <1>6, <1>7, Zenon

(* The operations of a thread succeed.                                     *)
LEMMA TransferPos ==
  ASSUME Shape, PosInv, NEW c \in Contexts, Sane(rules, c), Transfer(c)
  PROVE  PosInv'
  <1> PICK t : t = [cur[c] EXCEPT !.oper_loop = @ + 1]
    BY Zenon
  <1>1. /\ th[c] = "io" /\ rules' = rules /\ Goto(c, "top") /\ seg_unlock(c)
        /\ cur' = [cur EXCEPT ![c] = IF rule(c).seek = "SEQ" THEN set_blkno(c, t) ELSE t]
    BY Zenon DEF Transfer
  <1>2. cur[c] \in Positions /\ Pos(rules, c, "io", cur[c])
    <2>1. cur[c] \in Positions
      BY Zenon DEF PosInv
    <2> QED BY <1>1, <2>1, Zenon DEF PosInv
  <1>3. /\ t \in Positions /\ t.blkno = cur[c].blkno /\ t.num_blks = cur[c].num_blks
        /\ t.do_partial = cur[c].do_partial
    BY <1>2 DEF Positions
  <1>4. Pos(rules, c, "io", t)
    BY <1>2, <1>3, Zenon DEF Pos
  <1>5. fence' \in [Writers -> Fenceposts]
    BY <1>1, UnlockFence, Zenon
  <1>6. "top" # "aim" /\ "top" # "catchup"
    BY Zenon
  <1>7. CASE rule(c).seek = "SEQ"
    <2>1. rules.rule[c].seek = "SEQ"
      BY <1>7, Names, Zenon
    <2>2. set_blkno(c, t) \in Positions /\ Pos(rules, c, "top", set_blkno(c, t))
      BY <1>3, <1>4, <2>1, NextPos, Zenon
    <2>3. cur' = [cur EXCEPT ![c] = set_blkno(c, t)]
      BY <1>1, <1>7, Zenon
    <2> QED BY <1>1, <1>5, <1>6, <2>2, <2>3, SetPos, Zenon
  <1>8. CASE rule(c).seek # "SEQ"
    <2>1. rules.rule[c].seek = "RANDOM"
      BY <1>8, Names, Zenon DEF Sane
    <2>2. Pos(rules, c, "top", t)
      BY <1>4, <1>6, <2>1, Zenon DEF Pos
    <2>3. cur' = [cur EXCEPT ![c] = t]
      BY <1>1, <1>8, Zenon
    <2> QED BY <1>1, <1>3, <1>5, <1>6, <2>2, <2>3, SetPos, Zenon
  <1> QED BY <1>7, <1>8, Zenon

(* A context that has been populated.                                      *)
LEMMA PopulatedPos ==
  ASSUME NEW f, NEW c, Sane(f, c)
  PROVE  Populated(f, c) \in Positions /\ Pos(f, c, "none", Populated(f, c))
  <1>1. Whole(f, c) \in Nat \ {0}
    BY Zenon DEF Sane
  <1> PICK u : u = Populated(f, c)
    BY Zenon
  <1>2. u = [blkno |-> 0, num_blks |-> Whole(f, c), do_partial |-> 0, oper_loop |-> 0, draw |-> 0]
    BY Zenon DEF Populated, Idle, Whole
  <1>3. u \in Positions /\ u.num_blks = Whole(f, c) /\ u.do_partial = 0
    BY <1>1, <1>2 DEF Positions
  <1>4. "none" \notin Moving /\ "none" \notin Busy /\ "none" \notin {"draw", "aim"} /\ "none" # "catchup"
    BY Zenon DEF Moving, Busy
  <1>5. Whole(f, c) \in 1 .. Whole(f, c) /\ Whole(f, c) <= Whole(f, c) /\ 0 # 1
    BY <1>1
  <1> QED BY <1>3, <1>4, <1>5, Zenon DEF Pos

(* A thread closes the disk.                                               *)
LEMMA ClosePos ==
  ASSUME Shape, PosInv, NEW c \in Contexts, Sane(rules, c), CloseDisk(c)
  PROVE  PosInv'
  <1> PICK t : t = cur[c]
    BY Zenon
  <1> PICK u : u = IF c \in Writers THEN Idle(t.num_blks, t.do_partial) ELSE Populated(rules, c)
    BY Zenon
  <1>1. /\ th[c] = "close" /\ rules' = rules /\ Goto(c, "none") /\ cur' = [cur EXCEPT ![c] = u]
        /\ fence' = [w \in Writers |-> IF w = c THEN [fence[w] EXCEPT !.status = "F"] ELSE fence[w]]
    BY Zenon DEF CloseDisk
  <1>2. t \in Positions /\ Pos(rules, c, "close", t)
    <2>1. cur[c] \in Positions
      BY Zenon DEF PosInv
    <2> QED BY <1>1, <2>1, Zenon DEF PosInv
  <1>3. fence' \in [Writers -> Fenceposts]
    <2>1. "F" \in {"F", "R"}
      BY Zenon
    <2> QED BY <1>1, <2>1, MarkFence, Zenon
  <1>4. "none" \notin Moving /\ "none" \notin Busy /\ "none" \notin {"draw", "aim"} /\ "none" # "catchup"
    BY Zenon DEF Moving, Busy
  <1>5. u \in Positions /\ Pos(rules, c, "none", u)
    <2>1. CASE c \in Writers
      <3>1. u = [blkno |-> 0, num_blks |-> t.num_blks, do_partial |-> t.do_partial, oper_loop |-> 0, draw |-> 0]
        BY <2>1, Zenon DEF Idle
      <3>2. u \in Positions /\ u.num_blks = t.num_blks /\ u.do_partial = t.do_partial
        BY <1>2, <3>1 DEF Positions
      <3> QED BY <1>2, <1>4, <3>2, Zenon DEF Pos
    <2>2. CASE c \notin Writers
      BY <2>2, PopulatedPos, Zenon
    <2> QED BY <2>1, <2>2, Zenon
  <1>6. "none" # "aim"
    BY Zenon
  <1> QED BY <1>1, <1>3, <1>5, <1>6, SetPos, Zenon

(* main starts a stanza when no reader runs.                               *)
LEMMA RunStanzaPos ==
  ASSUME AllocInv, Alive, PosInv, \A c \in Contexts : Sane(rules, c), RunStanza
  PROVE  PosInv'
  <1>1. main = "stanza" /\ rules' = rules /\ th' = th /\ fence' = fence
    BY Zenon DEF RunStanza
  <1>2. Gone(Readers)
    <2>1. main \in Resting
      BY <1>1, Zenon DEF Resting
    <2> QED BY <2>1, Zenon DEF AllocInv, Accounts, ReaderContexts
  <1>3. "none" # "aim"
    BY Zenon
  <1>4. CASE cur' = cur
    BY <1>1, <1>4, Zenon DEF PosInv
  <1>5. CASE cur' = [c \in Contexts |-> IF c \in Readers THEN Populated(rules, c) ELSE cur[c]]
    <2>1. ASSUME NEW c \in Contexts
          PROVE  /\ cur'[c] \in Positions /\ Pos(rules, c, th[c], cur'[c])
                 /\ th[c] = "aim" => cur'[c].draw \in Writers
      <3>1. CASE c \in Readers
        <4>1. cur'[c] = Populated(rules, c) /\ th[c] = "none"
          BY <1>2, <1>5, <3>1, Zenon DEF Gone
        <4> QED BY <1>3, <4>1, PopulatedPos, Zenon
      <3>2. CASE c \notin Readers
        <4>1. cur'[c] = cur[c]
          BY <1>5, <3>2, Zenon
        <4>2. cur[c] \in Positions
          BY Zenon DEF PosInv
        <4> QED BY <4>1, <4>2, Zenon DEF PosInv
      <3> QED BY <3>1, <3>2, Zenon
    <2>2. cur' = [c \in Contexts |-> cur'[c]]
      BY <1>5, Zenon
    <2>3. cur' \in [Contexts -> Positions]
      BY <2>1, <2>2, Zenon
    <2> QED BY <1>1, <2>1, <2>3, Zenon DEF PosInv
  <1> QED BY <1>4, <1>5, Zenon DEF RunStanza

(* Every thread has blocks that fit it.                                    *)
AllFit == \A f \in RuleFiles : \A c \in Contexts : Fits(f, c)

(* So its settings are sane.                                               *)
LEMMA AllSane == ASSUME AllFit, Shape PROVE \A c \in Contexts : Sane(rules, c)
  BY Settings, Zenon DEF AllFit, Shape

(* The other steps of main.                                                *)
LEMMA MainPos ==
  ASSUME AllocInv, Alive, PosInv, \A c \in Contexts : Sane(rules, c), MainStep
  PROVE  PosInv'
  <1>1. Shape /\ Accounts
    BY Zenon DEF AllocInv
  <1>2. CASE CreateThread
    <2> PICK c : c = Head(todo)
      BY Zenon
    <2>1. todo # <<>> /\ cur' = cur /\ fence' = fence /\ rules' = rules
      BY <1>2, Zenon DEF CreateThread
    <2>2. UNCHANGED th \/ Goto(c, "born")
      BY <1>2, Zenon DEF CreateThread, Goto
    <2>3. c \in Contexts
      BY <1>1, <2>1 DEF Shape
    <2>4. CASE UNCHANGED th
      BY <2>1, <2>4, Zenon DEF PosInv
    <2>5. CASE Goto(c, "born")
      <3>1. "born" \notin Moving \cup Busy \cup {"draw", "aim"}
        BY Zenon DEF Moving, Busy
      <3>2. fence' \in [Writers -> Fenceposts]
        BY <2>1, Zenon DEF PosInv
      <3> QED BY <1>1, <2>1, <2>3, <2>5, <3>1, <3>2, AwayPos, Zenon
    <2> QED BY <2>2, <2>4, <2>5, Zenon
  <1>3. CASE StartThreads
    <2>1. /\ cur' = cur /\ fence' = fence /\ rules' = rules
          /\ th' = [c \in Contexts |-> IF th[c] = "waiting" THEN "ready" ELSE th[c]]
      BY <1>3, Zenon DEF StartThreads
    <2>2. "ready" \notin Moving \cup Busy \cup {"draw", "aim"} /\ "ready" # "aim"
      BY Zenon DEF Moving, Busy
    <2>3. ASSUME NEW c \in Contexts
          PROVE  Pos(rules, c, th'[c], cur[c]) /\ (th'[c] = "aim" => cur[c].draw \in Writers)
      <3>1. CASE th[c] = "waiting"
        <4>1. th'[c] = "ready"
          BY <2>1, <3>1, Zenon
        <4>2. Pos(rules, c, "ready", cur[c])
          BY <2>2, RestPos, Zenon DEF PosInv
        <4> QED BY <2>2, <4>1, <4>2, Zenon
      <3>2. CASE th[c] # "waiting"
        BY <2>1, <3>2, Zenon DEF PosInv
      <3> QED BY <3>1, <3>2, Zenon
    <2> QED BY <2>1, <2>3, Zenon DEF PosInv
  <1>4. CASE CountThread \/ FreeContexts \/ NextStanza \/ Cleanup \/ GiveUp \/ Return
    <2>1. UNCHANGED <<rules, th, cur, fence>>
      BY <1>4, Zenon DEF CountThread, FreeContexts, NextStanza, Cleanup, GiveUp, Return
    <2> QED BY <2>1, Zenon DEF PosInv
  <1> QED BY <1>2, <1>3, <1>4, RunStanzaPos, Zenon DEF MainStep

(* The steps of a thread.                                                  *)
LEMMA ThreadPos ==
  ASSUME Shape, Alive, PosInv, NEW c \in Contexts, Sane(rules, c), ThreadStep(c) \/ Fails(c)
  PROVE  PosInv'
  <1>1. CASE EndThread(c) \/ OpenFails(c) \/ (DrawBlock(c) /\ main' = "died")
    <2>1. main # "died"
      BY Zenon DEF Alive
    <2>2. UNCHANGED <<rules, th, cur, fence>>
      BY <1>1, <2>1, Zenon DEF EndThread, OpenFails, DrawBlock
    <2> QED BY <2>2, Zenon DEF PosInv
  <1>2. CASE Announce(c) \/ Proceed(c) \/ Leave(c) \/ PatternFails(c) \/ AllocFails(c) \/ TransferFails(c)
    <2>1. rules' = rules /\ cur' = cur /\ \E z \in {"waiting", "open", "close"} : Goto(c, z)
      BY <1>2, Zenon DEF Announce, Proceed, Leave, PatternFails, AllocFails, TransferFails
    <2>2. fence' = fence \/ seg_unlock(c)
      BY <1>2, Zenon DEF Announce, Proceed, Leave, PatternFails, AllocFails, TransferFails
    <2>3. fence' \in [Writers -> Fenceposts]
      BY <2>2, UnlockFence, Zenon DEF PosInv
    <2> PICK z \in {"waiting", "open", "close"} : Goto(c, z)
      BY <2>1, Zenon
    <2>4. z \notin Moving \cup Busy \cup {"draw", "aim"}
      BY Zenon DEF Moving, Busy
    <2> QED BY <2>1, <2>3, <2>4, AwayPos, Zenon
  <1>3. CASE wait_for_fencepost_catchup(c) \/ LockBlocks(c)
    <2> PICK t : t = cur[c]
      BY Zenon
    <2>1. /\ rules' = rules /\ cur' = cur /\ fence' = fence
          /\ \/ th[c] = "catchup" /\ Goto(c, "top")
             \/ th[c] = "lock" /\ Goto(c, "io")
      BY <1>3, Zenon DEF wait_for_fencepost_catchup, LockBlocks
    <2>2. t \in Positions /\ cur' = [cur EXCEPT ![c] = t] /\ fence' \in [Writers -> Fenceposts]
      BY <2>1, Zenon DEF PosInv
    <2>3. Pos(rules, c, th[c], t)
      BY Zenon DEF PosInv
    <2>4. /\ "catchup" \in Moving /\ "top" \in Moving /\ "top" \notin {"draw", "aim"} /\ "top" \notin Busy
          /\ "lock" \in Busy /\ "io" \in Busy /\ "io" \notin {"draw", "aim"} /\ "io" \notin Moving
          /\ "io" # "catchup" /\ "top" # "catchup" /\ "top" # "aim" /\ "io" # "aim"
      BY Zenon DEF Moving, Busy
    <2>5. CASE th[c] = "catchup" /\ Goto(c, "top")
      <3>1. Pos(rules, c, "top", t)
        BY <2>3, <2>4, <2>5, Zenon DEF Pos
      <3> QED BY <2>1, <2>2, <2>4, <2>5, <3>1, SetPos, Zenon
    <2>6. CASE th[c] = "lock" /\ Goto(c, "io")
      <3>1. Pos(rules, c, "io", t)
        BY <2>3, <2>4, <2>6, Zenon DEF Pos
      <3> QED BY <2>1, <2>2, <2>4, <2>6, <3>1, SetPos, Zenon
    <2> QED BY <2>1, <2>5, <2>6, Zenon
  <1> QED BY <1>1, <1>2, <1>3, OpenPos, NextBlocksPos, DrawPos, TransferPos, ClosePos, Zenon DEF ThreadStep, Fails

(* The fenceposts and the contexts at the start.                           *)
LEMMA InitPos ==
  ASSUME Init, Shape, \A c \in Contexts : Sane(rules, c)
  PROVE  PosInv
  <1>1. /\ cur = [c \in Contexts |-> Populated(rules, c)] /\ fence = [w \in Writers |-> initialize_fencepost(rules, w)]
        /\ \A c \in Contexts : th[c] = "none"
    BY Zenon DEF Init
  <1>2. cur \in [Contexts -> Positions]
    BY <1>1, PopulatedPos, Zenon
  <1>3. ASSUME NEW w \in Writers PROVE initialize_fencepost(rules, w) \in Fenceposts
    <2>1. w \in Contexts
      BY Zenon DEF Contexts
    <2>2. Low(rules, w) \in Int /\ High(rules, w) \in Int
      BY <2>1 DEF Sane
    <2> PICK b : b = IF rules.rule[w].direction = "UP" THEN Low(rules, w) ELSE High(rules, w)
      BY Zenon
    <2>3. initialize_fencepost(rules, w) = [min_lba |-> b, max_lba |-> b, status |-> "F"]
      BY Zenon DEF initialize_fencepost, Low, High
    <2> QED BY <2>2, <2>3 DEF Fenceposts
  <1>4. \A c \in Contexts : Pos(rules, c, th[c], cur[c])
    BY <1>1, PopulatedPos, Zenon
  <1>5. \A c \in Contexts : th[c] # "aim"
    BY <1>1, Zenon
  <1> QED BY <1>1, <1>2, <1>3, <1>4, <1>5, Zenon DEF PosInv

(* The positions of the threads are right in every state.                  *)
LEMMA PosInvariant == ASSUME AllFit PROVE Spec => []PosInv
  <1>1. Init /\ AllocInv => PosInv
    BY AllSane, InitPos, Zenon DEF AllocInv
  <1>2. AllocInv /\ PosInv /\ [Next]_vars => PosInv'
    <2> SUFFICES ASSUME AllocInv, PosInv, [Next]_vars PROVE PosInv'
      BY Zenon
    <2>1. Shape /\ \A c \in Contexts : Sane(rules, c)
      BY AllSane, Zenon DEF AllocInv
    <2>2. CASE UNCHANGED vars \/ SIGTERM_hdl \/ sig_function
      <3>1. UNCHANGED <<rules, th, cur, fence>>
        BY <2>2, Zenon DEF vars, SIGTERM_hdl, sig_function
      <3> QED BY <3>1, Zenon DEF PosInv
    <2>3. CASE MainStep
      <3>1. main \in {"stanza", "create", "created", "finished", "next", "leaving", "freed"}
        BY <2>3, Zenon DEF MainStep, RunStanza, CreateThread, CountThread, StartThreads, FreeContexts,
                           NextStanza, Cleanup, GiveUp, Return
      <3>2. Alive
        BY ONLY <3>1, Zenon DEF Alive
      <3> QED BY <2>1, <2>3, <3>2, MainPos, Zenon
    <2>4. ASSUME NEW c \in Contexts, ThreadStep(c) \/ Fails(c) PROVE PosInv'
      <3>1. Alive
        BY <2>4, Zenon DEF ThreadStep, Fails
      <3> QED BY <2>1, <2>4, <3>1, ThreadPos, Zenon
    <2> QED BY <2>2, <2>3, <2>4, Zenon DEF Next
  <1> QED BY <1>1, <1>2, AllocInvariant, PTL DEF Spec

(* A sequential thread locks and transfers only blocks of its own, at      *)
(* least one, for any transfer size, direction, starting block and number  *)
(* of laps: also when a BWRC context is used again by a thread that comes  *)
(* after one that ended in a shortened transfer.                           *)
THEOREM ThreadsStayInside ==
  ASSUME \A f \in RuleFiles : \A c \in Contexts : Fits(f, c)
  PROVE  Spec => []StaysInside
  <1>1. AllFit
    BY Zenon DEF AllFit
  <1>2. AllocInv /\ PosInv => StaysInside
    <2> SUFFICES ASSUME AllocInv, PosInv, NEW c \in Contexts, th[c] \in {"lock", "io"}, rule(c).seek = "SEQ"
                 PROVE  /\ cur[c].num_blks >= 1
                        /\ Segment(cur[c]) \subseteq ctx(c).min_blkno .. ctx(c).max_blkno
      BY Zenon DEF StaysInside
    <2>1. Sane(rules, c)
      BY <1>1, AllSane, Zenon DEF AllocInv
    <2>2. th[c] \in Busy /\ rules.rule[c].seek # "RANDOM"
      BY Names, Zenon DEF Busy
    <2>3. cur[c].blkno \in Int /\ cur[c].num_blks \in Int
      BY Zenon DEF PosInv, Positions
    <2>4. /\ cur[c].num_blks \in 1 .. Whole(rules, c) /\ Low(rules, c) <= cur[c].blkno
          /\ cur[c].blkno + cur[c].num_blks - 1 <= High(rules, c)
      BY <2>2, Zenon DEF PosInv, Pos
    <2>5. Low(rules, c) \in Int /\ High(rules, c) \in Int /\ Whole(rules, c) \in Int
      BY <2>1 DEF Sane
    <2>6. cur[c].num_blks >= 1 /\ cur[c].num_blks # 0
      BY <2>3, <2>4, <2>5
    <2>7. Segment(cur[c]) = cur[c].blkno .. (cur[c].blkno + cur[c].num_blks - 1)
      BY <2>6, Zenon DEF Segment
    <2>8. Segment(cur[c]) \subseteq Low(rules, c) .. High(rules, c)
      BY <2>3, <2>4, <2>5, <2>7
    <2> QED BY <2>6, <2>8, Names, Zenon
  <1> QED BY <1>1, <1>2, AllocInvariant, PosInvariant, PTL

-----------------------------------------------------------------------------
(***************************************************************************)
(* One thread for a context.  main takes the status of the fencepost for   *)
(* the state of the BWRC thread, which marks it only after it has been     *)
(* started.  In the second pass that is too late unless a thread of the    *)
(* first pass is known to have run: the readers that main has waited for   *)
(* have seen its fencepost move.                                           *)
(***************************************************************************)
Early == {"born", "waiting", "ready", "open"}
Before == Early \cup {"catchup"}
Walking == main \in Creating \cup {"stanza", "next", "finishing", "finished"}

(* The threads main has still to create, in this stanza or in this pass.   *)
Listed(c) ==
  \/ main = "create" /\ c \in range(todo)
  \/ main \in {"creating", "created"} /\ c \in range(Tail(todo))
Due(k, w) ==
  /\ w \in range(rules.stanzas[k].threads)
  /\ stanza < k \/ (stanza = k /\ (main = "stanza" \/ Listed(w)))
Pending(w) == \E k \in 1 .. Len(rules.stanzas) : Due(k, w)

Started(w) == th[w] \notin Early /\ ~Pending(w)
Ran(w) == fence[w].min_lba # fence[w].max_lba

Distinct(s) == \A i, k \in 1 .. Len(s) : s[i] = s[k] => i = k

Creations ==
  main \in Creating =>
    /\ ~Skipped(rules.stanzas[stanza], pass)
    /\ range(todo) \subseteq range(rules.stanzas[stanza].threads) /\ Distinct(todo)
    /\ \A c \in Readers : Listed(c) => th[c] = "none"

Marking ==
  /\ \A w \in Writers : th[w] \notin Early \cup {"none"} => fence[w].status = "R"
  /\ \A c \in Readers : th[c] \in Before \cup {"none"} => cur[c].num_blks = Whole(rules, c)

(* A BWRC thread whose fencepost has moved has been started; so has one    *)
(* that a reader of this pass has waited for.                              *)
Unstarted(w) ==
  /\ Pending(w) => th[w] = "none"
  /\ Ran(w) => Started(w)
  /\ \A k \in 1 .. Len(rules.stanzas) :
       w \in range(rules.stanzas[k].threads) /\ Skipped(rules.stanzas[k], 1) => th[w] = "none"

Seen(k, c, w) ==
  /\ stanza > k => Started(w)
  /\ stanza = k /\ main \in {"finished", "next"} => Started(w) \/ exit_flag
  /\ stanza = k /\ main \in Creating \cup {"finishing"} /\ ~Listed(c) =>
       th[c] \in Before \/ Started(w) \/ exit_flag

FirstPass ==
  /\ \A w \in Writers : Unstarted(w)
  /\ \A k \in 1 .. Len(rules.stanzas) : \A c \in Readers : \A w \in Writers :
       Awaits(rules, k, c, w) => Seen(k, c, w)

SecondPass ==
  \A k \in 1 .. Len(rules.stanzas) : \A w \in Writers :
    Due(k, w) /\ ~Skipped(rules.stanzas[k], 2) => th[w] \notin Early

Passes == (pass = 1 => FirstPass) /\ (pass = 2 => SecondPass)

OnceInv ==
  /\ errs \in Nat /\ pass \in Nat \ {0}
  /\ errs = 0 /\ pass <= 2 =>
       main # "twice" /\ (Walking => Creations /\ Marking /\ Passes)

-----------------------------------------------------------------------------
(* A list without its head.                                                *)
LEMMA ListTail ==
  ASSUME NEW S, NEW s \in Seq(S), s # <<>>
  PROVE  /\ range(s) = {Head(s)} \cup range(Tail(s)) /\ Tail(s) \in Seq(S) /\ Head(s) \in range(s)
         /\ Distinct(s) => Distinct(Tail(s)) /\ Head(s) \notin range(Tail(s))
  <1>1. /\ Len(s) \in Nat \ {0} /\ Len(Tail(s)) = Len(s) - 1 /\ Head(s) = s[1] /\ Tail(s) \in Seq(S)
        /\ \A i \in 1 .. Len(Tail(s)) : Tail(s)[i] = s[i + 1]
    OBVIOUS
  <1> PICK n \in Nat : Len(s) = n + 1 /\ Len(Tail(s)) = n
    <2>1. Len(s) - 1 \in Nat /\ Len(s) = (Len(s) - 1) + 1
      BY ONLY <1>1
    <2> QED BY <1>1, <2>1, Zenon
  <1> PICK t : t = Tail(s)
    BY Zenon
  <1>2. \A i \in 1 .. n : t[i] = s[i + 1] /\ i + 1 \in 1 .. (n + 1) /\ i + 1 # 1
    <2>1. \A i \in 1 .. n : i + 1 \in 1 .. (n + 1) /\ i + 1 # 1
      OBVIOUS
    <2> QED BY <1>1, <2>1, Zenon
  <1>3. \A i \in 1 .. (n + 1) : i = 1 \/ (i - 1 \in 1 .. n /\ (i - 1) + 1 = i)
    OBVIOUS
  <1>4. 1 \in 1 .. (n + 1)
    OBVIOUS
  <1>5. range(s) = {s[i] : i \in 1 .. (n + 1)} /\ range(t) = {t[i] : i \in 1 .. n}
    BY Zenon DEF range
  <1>6. ASSUME NEW x \in range(s) PROVE x = s[1] \/ x \in range(t)
    <2>1. PICK i \in 1 .. (n + 1) : x = s[i]
      BY <1>5, <1>6, Zenon
    <2>2. CASE i = 1
      BY <2>1, <2>2, Zenon
    <2>3. CASE i - 1 \in 1 .. n /\ (i - 1) + 1 = i
      <3>1. t[i - 1] = x
        BY <1>2, <2>1, <2>3, Zenon
      <3> QED BY <1>5, <2>3, <3>1, Zenon
    <2> QED BY <1>3, <2>2, <2>3, Zenon
  <1>7. ASSUME NEW x \in range(t) PROVE x \in range(s)
    <2>1. PICK i \in 1 .. n : x = t[i]
      BY <1>5, <1>7, Zenon
    <2>2. x = s[i + 1] /\ i + 1 \in 1 .. (n + 1)
      BY <1>2, <2>1, Zenon
    <2> QED BY <1>5, <2>2, Zenon
  <1>8. s[1] \in range(s)
    BY <1>4, <1>5, Zenon
  <1>9. ASSUME Distinct(s) PROVE Distinct(t) /\ s[1] \notin range(t)
    <2>1. \A i, k \in 1 .. (n + 1) : s[i] = s[k] => i = k
      BY <1>9, Zenon DEF Distinct
    <2>2. ASSUME NEW i \in 1 .. n, NEW k \in 1 .. n, t[i] = t[k] PROVE i = k
      <3>1. /\ s[i + 1] = s[k + 1]
            /\ i + 1 \in 1 .. (n + 1) /\ k + 1 \in 1 .. (n + 1)
        BY <1>2, <2>2, Zenon
      <3>2. i + 1 = k + 1
        BY ONLY <2>1, <3>1, Zenon
      <3> QED BY ONLY <3>2, i \in 1 .. n, k \in 1 .. n, n \in Nat
    <2>3. ASSUME s[1] \in range(t) PROVE FALSE
      <3>1. PICK i \in 1 .. n : s[1] = t[i]
        BY <1>5, <2>3, Zenon
      <3>2. s[i + 1] = s[1] /\ i + 1 \in 1 .. (n + 1) /\ i + 1 # 1
        BY <1>2, <3>1, Zenon
      <3> QED BY ONLY <1>4, <2>1, <3>2, Zenon
    <2>4. Len(t) = n
      BY Zenon
    <2> QED BY <2>2, <2>3, <2>4, Zenon DEF Distinct
  <1> QED BY <1>1, <1>6, <1>7, <1>8, <1>9, Zenon

-----------------------------------------------------------------------------
(* A step within a pass: no thread goes back, main creates one that it had *)
(* still to create, and a reader ends its wait for a fencepost that moved. *)
Calm(w) == (th'[w] \in Early => th[w] \in Early) /\ (th[w] = "none" => th'[w] = "none")
Created(w) ==
  /\ Pending(w) /\ ~Pending(w)'
  /\ \A k \in 1 .. Len(rules.stanzas) :
       w \in range(rules.stanzas[k].threads) => ~Skipped(rules.stanzas[k], pass)

Onward ==
  /\ rules' = rules /\ pass' = pass /\ stanza' = stanza /\ (exit_flag => exit_flag')
  /\ main' = "stanza" => main = "stanza"
  /\ \A c \in Contexts : Listed(c)' => Listed(c) \/ main = "stanza"
  /\ \A w \in Writers : (Calm(w) \/ Created(w)) /\ (Ran(w)' => Ran(w) \/ th[w] = "io")

WaitsEnd(k, c, w) ==
  /\ main' \in {"finished", "next"} =>
       main \in {"finished", "next"} \/ (main = "finishing" /\ th[c] = "none")
  /\ main' \in Creating \cup {"finishing"} /\ ~Listed(c)' =>
       \/ th'[c] \in Before \/ exit_flag \/ Ran(w)
       \/ main \in Creating \cup {"finishing"} /\ ~Listed(c) /\ th[c] \notin Before

ReaderWaits ==
  \A k \in 1 .. Len(rules.stanzas) : \A c \in Readers : \A w \in Writers :
    pass = 1 /\ stanza = k /\ Awaits(rules, k, c, w) => WaitsEnd(k, c, w)

(* A thread that main has to create is not one it has created already.     *)
LEMMA OnwardDue ==
  ASSUME Onward, NEW k, NEW w \in Writers, Due(k, w)'
  PROVE  Due(k, w)
  <1>1. w \in Contexts /\ rules' = rules /\ stanza' = stanza
    BY Zenon DEF Contexts, Onward
  <1>2. w \in range(rules.stanzas[k].threads)
    BY <1>1, Zenon DEF Due
  <1>3. stanza < k \/ (stanza = k /\ (main' = "stanza" \/ Listed(w)'))
    BY <1>1, Zenon DEF Due
  <1> QED BY <1>1, <1>2, <1>3, Zenon DEF Due, Onward

(* Nor one that is pending.                                                *)
LEMMA OnwardPending ==
  ASSUME Onward, NEW w \in Writers, Pending(w)'
  PROVE  Pending(w)
  <1>1. PICK k \in 1 .. Len(rules.stanzas) : Due(k, w)'
    BY Zenon DEF Pending, Onward
  <1> QED BY <1>1, OnwardDue, Zenon DEF Pending

(* A BWRC thread that has been started stays so.                           *)
LEMMA OnwardStarted ==
  ASSUME Onward, NEW w \in Writers, Started(w)
  PROVE  Started(w)'
  <1>1. ~Pending(w) /\ th[w] \notin Early
    BY Zenon DEF Started
  <1>2. ~Pending(w)'
    BY <1>1, OnwardPending, Zenon
  <1>3. Calm(w)
    BY <1>1, Zenon DEF Onward, Created
  <1>4. th'[w] \notin Early
    BY <1>1, <1>3, Zenon DEF Calm
  <1> QED BY <1>2, <1>4, Zenon DEF Started

(* What is known of a BWRC thread in the first pass.                       *)
LEMMA OnwardUnstarted ==
  ASSUME Onward, pass = 1, NEW w \in Writers, Unstarted(w)
  PROVE  Unstarted(w)'
  <1>1. rules' = rules
    BY Zenon DEF Onward
  <1>2. "io" \notin Early /\ "none" # "io"
    BY Zenon DEF Early
  <1>3. ASSUME Pending(w)' PROVE th'[w] = "none"
    <2>1. th[w] = "none" /\ ~Created(w)
      BY <1>3, OnwardPending, Zenon DEF Unstarted, Created
    <2> QED BY <2>1, Zenon DEF Onward, Calm
  <1>4. ASSUME Ran(w)' PROVE Started(w)'
    <2>1. CASE Ran(w)
      BY <2>1, OnwardStarted, Zenon DEF Unstarted
    <2>2. CASE th[w] = "io"
      <3>1. Started(w)
        BY <1>2, <2>2, Zenon DEF Unstarted, Started
      <3> QED BY <3>1, OnwardStarted, Zenon
    <2> QED BY <1>4, <2>1, <2>2, Zenon DEF Onward
  <1>5. ASSUME NEW k \in 1 .. Len(rules.stanzas), w \in range(rules.stanzas[k].threads), Skipped(rules.stanzas[k], 1)
        PROVE  th'[w] = "none"
    <2>1. th[w] = "none"
      BY <1>5, Zenon DEF Unstarted
    <2>2. ~Created(w)
      BY <1>5, Zenon DEF Created
    <2> QED BY <2>1, <2>2, Zenon DEF Onward, Calm
  <1>6. (Pending(w) => th[w] = "none")'
    BY <1>3, Zenon
  <1>7. (Ran(w) => Started(w))'
    BY <1>4, Zenon
  <1>8. (\A k \in 1 .. Len(rules.stanzas) :
          w \in range(rules.stanzas[k].threads) /\ Skipped(rules.stanzas[k], 1) => th[w] = "none")'
    BY <1>1, <1>5, Zenon
  <1> QED BY <1>6, <1>7, <1>8, Zenon DEF Unstarted

(* What a reader has seen of the BWRC thread it waits for.                 *)
LEMMA OnwardSeen ==
  ASSUME Onward, ReaderWaits, pass = 1, NEW k \in 1 .. Len(rules.stanzas), NEW c \in Readers, NEW w \in Writers,
         Awaits(rules, k, c, w), Unstarted(w), Seen(k, c, w)
  PROVE  Seen(k, c, w)'
  <1>1. stanza' = stanza /\ (exit_flag => exit_flag')
    BY Zenon DEF Onward
  <1>2. Started(w) => Started(w)'
    BY OnwardStarted, Zenon
  <1>3. Ran(w) => Started(w)
    BY Zenon DEF Unstarted
  <1>4. stanza > k => Started(w)'
    BY <1>2, Zenon DEF Seen
  <1>5. ASSUME stanza = k, main' \in {"finished", "next"} PROVE Started(w)' \/ exit_flag'
    <2>1. main \in {"finished", "next"} \/ (main = "finishing" /\ th[c] = "none")
      BY <1>5, Zenon DEF ReaderWaits, WaitsEnd
    <2>2. CASE main \in {"finished", "next"}
      BY <1>1, <1>2, <1>5, <2>2, Zenon DEF Seen
    <2>3. CASE main = "finishing" /\ th[c] = "none"
      <3>1. ~Listed(c) /\ th[c] \notin Before /\ main \in Creating \cup {"finishing"}
        BY <2>3, Zenon DEF Listed, Before, Early
      <3> QED BY <1>1, <1>2, <1>5, <3>1, Zenon DEF Seen
    <2> QED BY <2>1, <2>2, <2>3, Zenon
  <1>6. ASSUME stanza = k, main' \in Creating \cup {"finishing"}, ~Listed(c)'
        PROVE  th'[c] \in Before \/ Started(w)' \/ exit_flag'
    <2>1. \/ th'[c] \in Before \/ exit_flag \/ Ran(w)
          \/ main \in Creating \cup {"finishing"} /\ ~Listed(c) /\ th[c] \notin Before
      BY <1>6, Zenon DEF ReaderWaits, WaitsEnd
    <2>2. CASE main \in Creating \cup {"finishing"} /\ ~Listed(c) /\ th[c] \notin Before
      BY <1>1, <1>2, <1>6, <2>2, Zenon DEF Seen
    <2> QED BY <1>1, <1>2, <1>3, <2>1, <2>2, Zenon
  <1>7. (stanza > k => Started(w))'
    BY <1>1, <1>4, Zenon
  <1>8. (stanza = k /\ main \in {"finished", "next"} => Started(w) \/ exit_flag)'
    BY <1>1, <1>5, Zenon
  <1>9. (stanza = k /\ main \in Creating \cup {"finishing"} /\ ~Listed(c) =>
           th[c] \in Before \/ Started(w) \/ exit_flag)'
    BY <1>1, <1>6, Zenon
  <1> QED BY <1>7, <1>8, <1>9, Zenon DEF Seen

(* What is known of the threads in a pass is kept by its steps.            *)
LEMMA OnwardPasses ==
  ASSUME Onward, ReaderWaits, Passes
  PROVE  Passes'
  <1>1. rules' = rules /\ pass' = pass
    BY Zenon DEF Onward
  <1>2. ASSUME pass = 1 PROVE FirstPass'
    <2>1. FirstPass
      BY <1>2, Zenon DEF Passes
    <2>2. \A w \in Writers : Unstarted(w)'
      BY <1>2, <2>1, OnwardUnstarted, Zenon DEF FirstPass
    <2>3. ASSUME NEW k \in 1 .. Len(rules.stanzas), NEW c \in Readers, NEW w \in Writers, Awaits(rules, k, c, w)
          PROVE  Seen(k, c, w)'
      BY <1>2, <2>1, <2>3, OnwardSeen, Zenon DEF FirstPass
    <2>4. (\A k \in 1 .. Len(rules.stanzas) : \A c \in Readers : \A w \in Writers :
             Awaits(rules, k, c, w) => Seen(k, c, w))'
      BY <1>1, <2>3, Zenon
    <2> QED BY <2>2, <2>4, Zenon DEF FirstPass
  <1>3. ASSUME pass = 2 PROVE SecondPass'
    <2>1. SecondPass
      BY <1>3, Zenon DEF Passes
    <2>2. ASSUME NEW k \in 1 .. Len(rules.stanzas), NEW w \in Writers, Due(k, w)', ~Skipped(rules.stanzas[k], 2)
          PROVE  th'[w] \notin Early
      <3>1. Due(k, w)
        BY <2>2, OnwardDue, Zenon
      <3>2. th[w] \notin Early
        BY <2>1, <2>2, <3>1, Zenon DEF SecondPass
      <3>3. Pending(w)'
        BY <1>1, <2>2, Zenon DEF Pending
      <3>4. Calm(w)
        BY <3>3, Zenon DEF Onward, Created
      <3> QED BY <3>2, <3>4, Zenon DEF Calm
    <2> QED BY <1>1, <2>2, Zenon DEF SecondPass
  <1> QED BY <1>1, <1>2, <1>3, Zenon DEF Passes

-----------------------------------------------------------------------------
(* What holds of main's walk through the rule file up to the second pass.  *)
Walk == Creations /\ Marking /\ Passes

(* A thread moves.                                                         *)
LEMMA ThreadWalks ==
  ASSUME Shape, Walk, NEW c \in Contexts, NEW s, Goto(c, s), th[c] # "none", s \in Early => th[c] \in Early,
         UNCHANGED <<rules, stanza, pass, todo, exit_flag>>,
         main' = main \/ (main = "creating" /\ main' = "created"),
         \A w \in Writers : Ran(w)' => Ran(w) \/ th[w] = "io",
         \A w \in Writers : w # c => fence'[w].status = fence[w].status,
         c \in Writers /\ s \notin Early \cup {"none"} => fence'[c].status = "R",
         \A d \in Readers : d # c => cur'[d].num_blks = cur[d].num_blks,
         c \in Readers /\ s \in Before \cup {"none"} => cur'[c].num_blks = Whole(rules, c),
         c \in Readers /\ th[c] \in Before /\ s \notin Before =>
           \A k \in 1 .. Len(rules.stanzas) : \A w \in Writers : Awaits(rules, k, c, w) => exit_flag \/ Ran(w)
  PROVE  Walk'
  <1>1. th'[c] = s /\ \A d \in Contexts : d # c => th'[d] = th[d]
    BY Zenon DEF Shape, Goto
  <1>2. /\ rules' = rules /\ stanza' = stanza /\ pass' = pass /\ todo' = todo /\ exit_flag' = exit_flag
        /\ \A w \in Writers : w \in Contexts
        /\ \A d \in Readers : d \in Contexts
    BY Zenon DEF Contexts
  <1>3. /\ main' = "stanza" => main = "stanza"
        /\ main' \in {"finished", "next"} => main \in {"finished", "next"}
        /\ main' \in Creating \cup {"finishing"} => main \in Creating \cup {"finishing"}
        /\ main' \in Creating => main \in Creating
    BY Zenon DEF Creating
  <1>4. \A d : Listed(d)' <=> Listed(d)
    BY <1>2, Zenon DEF Listed
  <1>5. \A w \in Writers : Calm(w)
    BY <1>1, <1>2, Zenon DEF Calm
  <1>6. Onward
    <2>1. exit_flag => exit_flag'
      BY ONLY <1>2
    <2> QED BY <1>2, <1>3, <1>4, <1>5, <2>1, Zenon DEF Onward
  <1>7. ReaderWaits
    <2> SUFFICES ASSUME NEW k \in 1 .. Len(rules.stanzas), NEW d \in Readers, NEW w \in Writers, Awaits(rules, k, d, w)
                 PROVE  WaitsEnd(k, d, w)
      BY Zenon DEF ReaderWaits
    <2>1. ASSUME main' \in Creating \cup {"finishing"}, ~Listed(d)'
          PROVE  \/ th'[d] \in Before \/ exit_flag \/ Ran(w)
                 \/ main \in Creating \cup {"finishing"} /\ ~Listed(d) /\ th[d] \notin Before
      <3>1. main \in Creating \cup {"finishing"} /\ ~Listed(d)
        BY <1>3, <1>4, <2>1, Zenon
      <3>2. CASE d # c
        BY <1>1, <1>2, <3>1, <3>2, Zenon
      <3>3. CASE d = c
        BY <1>1, <3>1, <3>3, Zenon
      <3> QED BY <3>2, <3>3, Zenon
    <2> QED BY <1>3, <2>1, Zenon DEF WaitsEnd
  <1>8. Creations'
    <2>1. ASSUME main' \in Creating
          PROVE  /\ ~Skipped(rules.stanzas[stanza], pass)
                 /\ range(todo) \subseteq range(rules.stanzas[stanza].threads) /\ Distinct(todo)
                 /\ \A d \in Readers : Listed(d) => th[d] = "none"
      BY <1>3, <2>1, Zenon DEF Walk, Creations
    <2>2. ASSUME main' \in Creating, NEW d \in Readers, Listed(d)'
          PROVE  th'[d] = "none"
      BY <1>1, <1>2, <1>4, <2>1, <2>2, Zenon
    <2> QED BY <1>2, <2>1, <2>2, Zenon DEF Creations
  <1>9. Marking'
    <2>1. ASSUME NEW w \in Writers, th'[w] \notin Early \cup {"none"} PROVE fence'[w].status = "R"
      <3>1. CASE w = c
        BY <1>1, <2>1, <3>1, Zenon
      <3>2. CASE w # c
        BY <1>1, <1>2, <2>1, <3>2, Zenon DEF Walk, Marking
      <3> QED BY <3>1, <3>2, Zenon
    <2>2. ASSUME NEW d \in Readers, th'[d] \in Before \cup {"none"} PROVE cur'[d].num_blks = Whole(rules, d)
      <3>1. CASE d = c
        BY <1>1, <2>2, <3>1, Zenon
      <3>2. CASE d # c
        BY <1>1, <1>2, <2>2, <3>2, Zenon DEF Walk, Marking
      <3> QED BY <3>1, <3>2, Zenon
    <2> QED BY <1>2, <2>1, <2>2, Zenon DEF Marking
  <1> QED BY <1>6, <1>7, <1>8, <1>9, OnwardPasses, Zenon DEF Walk

(* No thread moves; main may go on when its readers are gone.              *)
LEMMA MainWalks ==
  ASSUME Walk, UNCHANGED <<rules, stanza, pass, todo, th, cur, fence>>, exit_flag => exit_flag',
         \/ main' = main
         \/ main = "finishing" /\ main' = "finished" /\ \A c \in Readers : th[c] = "none"
         \/ main = "finished" /\ main' = "next"
  PROVE  Walk'
  <1>1. /\ rules' = rules /\ stanza' = stanza /\ pass' = pass /\ todo' = todo /\ th' = th
        /\ cur' = cur /\ fence' = fence
    BY Zenon
  <1>2. /\ main' = "stanza" => main = "stanza"
        /\ main' \in Creating \cup {"finishing"} => main' = main
        /\ main' \in Creating => main \in Creating
        /\ main' \in {"finished", "next"} =>
             main \in {"finished", "next"} \/ (main = "finishing" /\ \A c \in Readers : th[c] = "none")
    BY Zenon DEF Creating
  <1>3. \A d : Listed(d)' => Listed(d)
    BY <1>1, Zenon DEF Listed
  <1>4. ASSUME main' = main PROVE \A d : Listed(d)' <=> Listed(d)
    BY <1>1, <1>4, Zenon DEF Listed
  <1>5. Onward
    BY <1>1, <1>2, <1>3, Zenon DEF Onward, Calm, Ran
  <1>6. ReaderWaits
    BY <1>1, <1>2, <1>4, Zenon DEF ReaderWaits, WaitsEnd
  <1>7. Creations'
    BY <1>1, <1>2, <1>3, Zenon DEF Walk, Creations
  <1>8. Marking'
    BY <1>1, Zenon DEF Walk, Marking
  <1> QED BY <1>5, <1>6, <1>7, <1>8, OnwardPasses, Zenon DEF Walk

-----------------------------------------------------------------------------
(* A stanza is skipped, or its threads are listed: its readers are gone.   *)
LEMMA RunStanzaWalks ==
  ASSUME AllocInv, Numbered(rules), Walk, RunStanza
  PROVE  Walk'
  <1> DEFINE z == rules.stanzas[stanza]
  <1>1. /\ main = "stanza" /\ stanza \in 1 .. Len(rules.stanzas)
        /\ rules' = rules /\ stanza' = stanza /\ pass' = pass /\ th' = th /\ fence' = fence /\ exit_flag' = exit_flag
    BY Zenon DEF RunStanza, AllocInv, Shape, flags
  <1>2. \/ Skipped(z, pass) /\ main' = "next" /\ cur' = cur
        \/ /\ ~Skipped(z, pass) /\ main' = "create" /\ todo' = z.threads
           /\ cur' = [c \in Contexts |-> IF c \in Readers THEN Populated(rules, c) ELSE cur[c]]
    BY Zenon DEF RunStanza
  <1>3. main' = "next" \/ main' = "create"
    BY <1>2, Zenon
  <1>4. \A c \in Readers : th[c] = "none"
    <2>1. main \in Resting /\ Alive
      BY <1>1, Zenon DEF Resting, Alive
    <2> QED BY <2>1, Zenon DEF AllocInv, Accounts, ReaderContexts, Gone
  <1>5. Onward
    <2>1. exit_flag => exit_flag'
      BY ONLY <1>1
    <2> QED BY <1>1, <1>3, <2>1, Zenon DEF Onward, Calm, Ran
  <1>6. ReaderWaits
    <2> SUFFICES ASSUME NEW c \in Readers, NEW w \in Writers, pass = 1, Awaits(rules, stanza, c, w)
                 PROVE  WaitsEnd(stanza, c, w)
      BY Zenon DEF ReaderWaits
    <2>1. ~Skipped(z, pass) /\ c \in range(z.threads)
      BY Zenon DEF Awaits
    <2>2. main' = "create" /\ todo' = z.threads
      BY <1>2, <2>1, Zenon
    <2>3. Listed(c)'
      BY <2>1, <2>2, Zenon DEF Listed
    <2> QED BY <2>2, <2>3, Zenon DEF WaitsEnd
  <1>7. Creations'
    <2> SUFFICES ASSUME main' \in Creating PROVE Creations'
      BY Zenon DEF Creations
    <2>1. "next" \notin Creating
      BY Zenon DEF Creating
    <2>2. ~Skipped(z, pass) /\ todo' = z.threads
      BY <1>2, <2>1, Zenon
    <2>3. z \in range(rules.stanzas)
      BY <1>1, Zenon DEF range
    <2>4. Distinct(z.threads)
      BY <2>3, Zenon DEF Numbered, Distinct
    <2> QED BY <1>1, <1>4, <2>2, <2>4, Zenon DEF Creations
  <1>8. Marking'
    <2>1. \A w \in Writers : th'[w] \notin Early \cup {"none"} => fence'[w].status = "R"
      BY <1>1, Zenon DEF Walk, Marking
    <2>2. ASSUME NEW c \in Readers PROVE cur'[c].num_blks = Whole(rules, c)
      <3>1. cur[c].num_blks = Whole(rules, c) /\ c \in Contexts
        BY <1>4, Zenon DEF Walk, Marking, Contexts
      <3>2. Populated(rules, c).num_blks = Whole(rules, c)
        BY Zenon DEF Populated, Idle, Whole
      <3>3. cur' = cur \/ cur'[c] = Populated(rules, c)
        BY <1>2, <3>1, Zenon
      <3> QED BY <3>1, <3>2, <3>3, Zenon
    <2> QED BY <1>1, <2>1, <2>2, Zenon DEF Marking
  <1> QED BY <1>5, <1>6, <1>7, <1>8, OnwardPasses, Zenon DEF Walk

(* main goes on in its list.                                               *)
LEMMA CountWalks ==
  ASSUME AllocInv, Walk, CountThread
  PROVE  Walk'
  <1>1. /\ main = "created" /\ main' = "create" /\ todo' = Tail(todo) /\ todo \in Seq(Contexts)
        /\ rules' = rules /\ stanza' = stanza /\ pass' = pass /\ th' = th /\ fence' = fence /\ cur' = cur
        /\ exit_flag' = exit_flag
    BY Zenon DEF CountThread, AllocInv, Shape, flags
  <1>2. todo # <<>>
    <2>1. Alive
      BY <1>1, Zenon DEF Alive
    <2> QED BY <1>1, <2>1, Zenon DEF AllocInv, Accounts, NewThread
  <1>3. \A c : Listed(c)' <=> Listed(c)
    BY <1>1, Zenon DEF Listed
  <1>4. main \in Creating /\ main' \in Creating
    BY <1>1, Zenon DEF Creating
  <1>5. Onward
    <2>1. exit_flag => exit_flag'
      BY ONLY <1>1
    <2> QED BY <1>1, <1>3, <2>1, Zenon DEF Onward, Calm, Ran
  <1>6. ReaderWaits
    BY <1>1, <1>3, <1>4, Zenon DEF ReaderWaits, WaitsEnd
  <1>7. Creations'
    <2>1. range(Tail(todo)) \subseteq range(todo) /\ (Distinct(todo) => Distinct(Tail(todo)))
      <3>1. range(todo) = {Head(todo)} \cup range(Tail(todo)) /\ (Distinct(todo) => Distinct(Tail(todo)))
        BY <1>1, <1>2, ListTail, Zenon
      <3> QED BY <3>1, Zenon
    <2>2. /\ ~Skipped(rules.stanzas[stanza], pass)
          /\ range(todo) \subseteq range(rules.stanzas[stanza].threads) /\ Distinct(todo)
          /\ \A c \in Readers : Listed(c) => th[c] = "none"
      BY <1>4, Zenon DEF Walk, Creations
    <2>3. range(Tail(todo)) \subseteq range(rules.stanzas[stanza].threads)
      BY <2>1, <2>2, Zenon
    <2> QED BY <1>1, <1>3, <2>1, <2>2, <2>3, Zenon DEF Creations
  <1>8. Marking'
    BY <1>1, Zenon DEF Walk, Marking
  <1> QED BY <1>5, <1>6, <1>7, <1>8, OnwardPasses, Zenon DEF Walk

(* The threads of the stanza are let go.                                   *)
LEMMA StartWalks ==
  ASSUME Shape, Walk, StartThreads
  PROVE  Walk'
  <1>1. /\ main = "create" /\ todo = <<>> /\ todo' = todo
        /\ main' = IF is_only_BWRC_stanza(rules.stanzas[stanza]) THEN "next" ELSE "finishing"
        /\ th' = [c \in Contexts |-> IF th[c] = "waiting" THEN "ready" ELSE th[c]]
        /\ rules' = rules /\ stanza' = stanza /\ pass' = pass /\ fence' = fence /\ cur' = cur
        /\ exit_flag' = exit_flag
    BY Zenon DEF StartThreads, flags
  <1>2. range(todo) = {}
    BY <1>1 DEF range
  <1>3. \A c : ~Listed(c) /\ ~Listed(c)'
    <2>1. main' # "create" /\ main' \notin {"creating", "created"}
      BY <1>1, Zenon
    <2> QED BY <1>1, <1>2, <2>1, Zenon DEF Listed
  <1>4. ASSUME NEW c \in Contexts
        PROVE  /\ th'[c] \in Early <=> th[c] \in Early
               /\ th'[c] \in Before <=> th[c] \in Before
               /\ th'[c] = "none" <=> th[c] = "none"
    BY <1>1, Zenon DEF Early, Before
  <1>5. \A w \in Writers : w \in Contexts
    BY Zenon DEF Contexts
  <1>6. \A c \in Readers : c \in Contexts /\ c \notin Writers
    BY RulesAssumption, Zenon DEF Contexts
  <1>7. Onward
    <2>1. exit_flag => exit_flag'
      BY ONLY <1>1
    <2>2. main' # "stanza"
      BY <1>1, Zenon
    <2> QED BY <1>1, <1>3, <1>4, <1>5, <2>1, <2>2, Zenon DEF Onward, Calm, Ran
  <1>8. ReaderWaits
    <2> SUFFICES ASSUME NEW c \in Readers, NEW w \in Writers, Awaits(rules, stanza, c, w)
                 PROVE  WaitsEnd(stanza, c, w)
      BY Zenon DEF ReaderWaits
    <2>1. c \in range(rules.stanzas[stanza].threads)
      BY Zenon DEF Awaits
    <2>2. main' = "finishing"
      BY <1>1, <1>6, <2>1, Zenon DEF is_only_BWRC_stanza
    <2>3. main \in Creating
      BY <1>1, Zenon DEF Creating
    <2> QED BY <1>3, <1>4, <1>6, <2>2, <2>3, Zenon DEF WaitsEnd
  <1>9. Creations'
    <2>1. main' \notin Creating
      BY <1>1, Zenon DEF Creating
    <2> QED BY <2>1, Zenon DEF Creations
  <1>10. Marking'
    <2>1. \A w \in Writers : th'[w] \notin Early \cup {"none"} => fence'[w].status = "R"
      BY <1>1, <1>4, <1>5, Zenon DEF Walk, Marking
    <2>2. \A c \in Readers : th'[c] \in Before \cup {"none"} => cur'[c].num_blks = Whole(rules, c)
      BY <1>1, <1>4, <1>6, Zenon DEF Walk, Marking
    <2> QED BY <1>1, <2>1, <2>2, Zenon DEF Marking
  <1> QED BY <1>7, <1>8, <1>9, <1>10, OnwardPasses, Zenon DEF Walk

(* The next thread of the list is created, or is a BWRC thread that runs;  *)
(* it never is one that has been created and has not marked its fencepost. *)
LEMMA CreateWalks ==
  ASSUME Shape, Numbered(rules), Walk, pass \in {1, 2}, CreateThread
  PROVE  main' # "twice" /\ Walk'
  <1> PICK c : c = Head(todo)
    BY Zenon
  <1> DEFINE z == rules.stanzas[stanza]
  <1>1. /\ main = "create" /\ todo # <<>> /\ todo \in Seq(Contexts) /\ stanza \in 1 .. Len(rules.stanzas)
        /\ rules' = rules /\ stanza' = stanza /\ pass' = pass /\ fence' = fence /\ cur' = cur
        /\ exit_flag' = exit_flag /\ th \in [Contexts -> Places]
    BY Zenon DEF CreateThread, Shape, flags
  <1>2. range(todo) = {c} \cup range(Tail(todo)) /\ c \in range(todo)
    BY <1>1, ListTail, Zenon
  <1>3. /\ ~Skipped(z, pass) /\ range(todo) \subseteq range(z.threads) /\ Distinct(todo)
        /\ \A d \in Readers : Listed(d) => th[d] = "none"
    BY <1>1, Zenon DEF Walk, Creations, Creating
  <1>4. c \notin range(Tail(todo)) /\ Distinct(Tail(todo))
    BY <1>1, <1>3, ListTail, Zenon
  <1>5. c \in Contexts
    BY <1>1
  <1>6. \A d : Listed(d) <=> d \in range(todo)
    BY <1>1, Zenon DEF Listed
  <1>7. \/ c \in Writers /\ todo' = Tail(todo) /\ main' = main /\ th' = th
        \/ ~(c \in Writers /\ fence[c].status # "F") /\ th[c] # "none"
        \/ main' = "creating" /\ th' = [th EXCEPT ![c] = "born"] /\ todo' = todo /\ th[c] = "none"
    BY Zenon DEF CreateThread
  <1>8. /\ main \in Creating /\ "creating" \in Creating /\ "none" \notin Before /\ "born" \in Before
        /\ "born" \in Early /\ "creating" # "stanza" /\ "creating" \notin {"finished", "next"}
        /\ "create" \notin {"finished", "next"}
    BY <1>1, Zenon DEF Creating, Before, Early
  <1>9. exit_flag => exit_flag'
    BY ONLY <1>1
  <1>10. ASSUME c \in Writers, NEW k \in 1 .. Len(rules.stanzas), c \in range(rules.stanzas[k].threads)
         PROVE  k = stanza
    <2>1. Writers \cap range(rules.stanzas[k].threads) \cap range(z.threads) # {}
      BY <1>2, <1>3, <1>10, Zenon
    <2> QED BY <1>1, <2>1, Zenon DEF Numbered
  <1>11. CASE c \in Writers /\ todo' = Tail(todo) /\ main' = main /\ th' = th
    <2>1. \A d : Listed(d)' <=> d \in range(Tail(todo))
      BY <1>1, <1>11, Zenon DEF Listed
    <2>2. \A d : Listed(d)' => Listed(d)
      BY <1>2, <1>6, <2>1, Zenon
    <2>3. \A d \in Readers : Listed(d)' <=> Listed(d)
      BY <1>2, <1>6, <1>11, <2>1, RulesAssumption, Zenon
    <2>4. Onward
      BY <1>1, <1>9, <1>11, <2>2, Zenon DEF Onward, Calm, Ran
    <2>5. ReaderWaits
      BY <1>1, <1>8, <1>11, <2>3, Zenon DEF ReaderWaits, WaitsEnd
    <2>6. range(Tail(todo)) \subseteq range(z.threads)
      BY <1>2, <1>3, Zenon
    <2>7. Creations'
      BY <1>1, <1>3, <1>4, <1>11, <2>2, <2>6, Zenon DEF Creations
    <2>8. Marking'
      BY <1>1, <1>11, Zenon DEF Walk, Marking
    <2>9. main' # "twice"
      BY <1>1, <1>11, Zenon
    <2> QED BY <2>4, <2>5, <2>7, <2>8, <2>9, OnwardPasses, Zenon DEF Walk
  <1>12. CASE ~(c \in Writers /\ fence[c].status # "F") /\ th[c] # "none"
    <2>1. c \notin Readers
      BY <1>2, <1>3, <1>6, <1>12, Zenon
    <2>2. c \in Writers /\ fence[c].status = "F"
      BY <1>5, <1>12, <2>1, Zenon DEF Contexts
    <2>3. th[c] \in Early
      <3>1. "F" # "R"
        BY Zenon
      <3> QED BY <1>12, <2>2, <3>1, Zenon DEF Walk, Marking
    <2>4. Due(stanza, c)
      BY <1>2, <1>3, <1>6, Zenon DEF Due
    <2>5. CASE pass = 1
      <3>1. Unstarted(c)
        BY <2>2, <2>5, Zenon DEF Walk, Passes, FirstPass
      <3> QED BY <1>1, <1>12, <2>4, <3>1, Zenon DEF Unstarted, Pending
    <2>6. CASE pass = 2
      BY <1>1, <1>3, <2>2, <2>3, <2>4, <2>6, Zenon DEF Walk, Passes, SecondPass
    <2> QED BY <2>5, <2>6, Zenon
  <1>13. CASE main' = "creating" /\ th' = [th EXCEPT ![c] = "born"] /\ todo' = todo /\ th[c] = "none"
    <2>1. th'[c] = "born" /\ \A d \in Contexts : d # c => th'[d] = th[d]
      BY <1>1, <1>5, <1>13, Zenon
    <2>2. \A d : Listed(d)' <=> d \in range(Tail(todo))
      BY <1>13, Zenon DEF Listed
    <2>3. \A d : Listed(d)' => Listed(d) /\ d # c
      BY <1>2, <1>4, <1>6, <2>2, Zenon
    <2>4. \A d \in Readers : d # c => (Listed(d)' <=> Listed(d))
      BY <1>2, <1>6, <2>2, Zenon
    <2>5. \A w \in Writers : w \in Contexts
      BY Zenon DEF Contexts
    <2>6. \A d \in Readers : d \in Contexts
      BY Zenon DEF Contexts
    <2>7. ASSUME c \in Writers PROVE Created(c)
      <3>1. Pending(c)
        BY <1>1, <1>2, <1>3, <1>6, Zenon DEF Due, Pending
      <3>2. ASSUME NEW k \in 1 .. Len(rules.stanzas), Due(k, c)' PROVE FALSE
        <4>1. c \in range(rules.stanzas[k].threads)
          BY <1>1, <3>2, Zenon DEF Due
        <4>2. k = stanza
          BY <1>10, <2>7, <4>1, Zenon
        <4>3. stanza < k \/ main' = "stanza" \/ Listed(c)'
          BY <1>1, <3>2, Zenon DEF Due
        <4>4. ~(stanza < stanza)
          BY ONLY <1>1
        <4> QED BY <1>8, <1>13, <2>3, <4>2, <4>3, <4>4, Zenon
      <3>3. ~Pending(c)'
        BY <1>1, <3>2, Zenon DEF Pending
      <3>4. \A k \in 1 .. Len(rules.stanzas) : c \in range(rules.stanzas[k].threads) => ~Skipped(rules.stanzas[k], pass)
        BY <1>3, <1>10, <2>7, Zenon
      <3> QED BY <3>1, <3>3, <3>4, Zenon DEF Created
    <2>8. Onward
      <3>1. ASSUME NEW w \in Writers PROVE Calm(w) \/ Created(w)
        BY <2>1, <2>5, <2>7, Zenon DEF Calm
      <3> QED BY <1>1, <1>8, <1>9, <1>13, <2>3, <3>1, Zenon DEF Onward, Ran
    <2>9. ReaderWaits
      <3> SUFFICES ASSUME NEW d \in Readers, NEW w PROVE WaitsEnd(stanza, d, w)
        BY Zenon DEF ReaderWaits
      <3>1. CASE d = c
        BY <1>8, <1>13, <2>1, <3>1, Zenon DEF WaitsEnd
      <3>2. CASE d # c
        <4>1. th'[d] = th[d] /\ (Listed(d)' <=> Listed(d))
          BY <2>1, <2>4, <2>6, <3>2, Zenon
        <4>2. main' \notin {"finished", "next"} /\ main \in Creating \cup {"finishing"}
          BY <1>8, <1>13, Zenon
        <4> QED BY <4>1, <4>2, Zenon DEF WaitsEnd
      <3> QED BY <3>1, <3>2, Zenon
    <2>10. Creations'
      <3>1. ASSUME NEW d \in Readers, Listed(d)' PROVE th'[d] = "none"
        BY <1>3, <2>1, <2>3, <2>6, <3>1, Zenon
      <3> QED BY <1>1, <1>3, <1>13, <3>1, Zenon DEF Creations
    <2>11. Marking'
      <3>1. ASSUME NEW w \in Writers, th'[w] \notin Early \cup {"none"} PROVE fence'[w].status = "R"
        <4>1. w # c /\ th'[w] = th[w]
          BY <1>8, <2>1, <2>5, <3>1, Zenon
        <4> QED BY <1>1, <3>1, <4>1, Zenon DEF Walk, Marking
      <3>2. ASSUME NEW d \in Readers, th'[d] \in Before \cup {"none"} PROVE cur'[d].num_blks = Whole(rules, d)
        <4>1. th[d] = "none" \/ th'[d] = th[d]
          BY <1>13, <2>1, <2>6, Zenon
        <4> QED BY <1>1, <3>2, <4>1, Zenon DEF Walk, Marking
      <3> QED BY <1>1, <3>1, <3>2, Zenon DEF Marking
    <2>12. main' # "twice"
      BY <1>13, Zenon
    <2> QED BY <2>8, <2>9, <2>10, <2>11, <2>12, OnwardPasses, Zenon DEF Walk
  <1> QED BY <1>7, <1>11, <1>12, <1>13, Zenon

(* main goes on to the next stanza or to the second pass: every BWRC       *)
(* thread that the second pass would start has been seen running.          *)
LEMMA NextWalks ==
  ASSUME Shape, Awaited(rules), Walk, NextStanza, main' = "stanza", pass \in Nat \ {0}, pass' <= 2
  PROVE  Walk'
  <1>1. /\ main = "next" /\ stanza \in 1 .. Len(rules.stanzas) /\ Len(rules.stanzas) \in Nat
        /\ rules' = rules /\ th' = th /\ fence' = fence /\ cur' = cur
    <2>1. Len(rules.stanzas) \in Nat
      BY RulesAssumption DEF Shape
    <2> QED BY <2>1, Zenon DEF NextStanza, Shape
  <1>2. \/ ~Stopping /\ stanza' = stanza + 1 /\ pass' = pass
        \/ ~(stanza < Len(rules.stanzas) /\ ~Stopping) /\ stanza' = 1 /\ pass' = pass + 1 /\ ~exit_flag /\ ~signal_flag
    BY Zenon DEF NextStanza
  <1>3. Creations'
    BY Zenon DEF Creations, Creating
  <1>4. Marking'
    BY <1>1, Zenon DEF Walk, Marking
  <1>5. \A c : ~Listed(c)'
    BY Zenon DEF Listed
  <1>6. CASE ~Stopping /\ stanza' = stanza + 1 /\ pass' = pass
    <2>1. ~exit_flag
      BY <1>6, Zenon DEF Stopping
    <2>2. ASSUME NEW k \in 1 .. Len(rules.stanzas), NEW w \in Writers, Due(k, w)' PROVE Due(k, w)
      <3>1. w \in range(rules.stanzas[k].threads) /\ (stanza + 1 < k \/ stanza + 1 = k)
        BY <1>1, <1>6, <2>2, Zenon DEF Due
      <3>2. stanza < k
        BY ONLY <1>1, <3>1, k \in 1 .. Len(rules.stanzas)
      <3> QED BY <3>1, <3>2, Zenon DEF Due
    <2>3. \A w \in Writers : Pending(w)' => Pending(w)
      BY <1>1, <2>2, Zenon DEF Pending
    <2>4. \A w \in Writers : Started(w) => Started(w)'
      BY <1>1, <2>3, Zenon DEF Started
    <2>5. ASSUME pass = 1 PROVE FirstPass'
      <3>1. FirstPass
        BY <2>5, Zenon DEF Walk, Passes
      <3>2. ASSUME NEW w \in Writers PROVE Unstarted(w)'
        BY <1>1, <2>3, <2>4, <3>1, Zenon DEF FirstPass, Unstarted, Ran
      <3>3. ASSUME NEW k \in 1 .. Len(rules.stanzas), NEW c \in Readers, NEW w \in Writers, Awaits(rules, k, c, w)
            PROVE  Seen(k, c, w)'
        <4>1. Seen(k, c, w)
          BY <3>1, <3>3, Zenon DEF FirstPass
        <4>2. ASSUME stanza + 1 > k PROVE Started(w)
          <5>1. stanza > k \/ stanza = k
            BY ONLY <1>1, <4>2, k \in 1 .. Len(rules.stanzas)
          <5> QED BY <1>1, <2>1, <4>1, <5>1, Zenon DEF Seen
        <4>3. main' \notin {"finished", "next"} /\ main' \notin Creating \cup {"finishing"}
          BY Zenon DEF Creating
        <4> QED BY <1>6, <2>4, <4>2, <4>3, Zenon DEF Seen
      <3>4. (\A k \in 1 .. Len(rules.stanzas) : \A c \in Readers : \A w \in Writers :
               Awaits(rules, k, c, w) => Seen(k, c, w))'
        BY <1>1, <3>3, Zenon
      <3> QED BY <3>2, <3>4, Zenon DEF FirstPass
    <2>6. ASSUME pass = 2 PROVE SecondPass'
      BY <1>1, <2>2, <2>6, Zenon DEF Walk, Passes, SecondPass
    <2> QED BY <1>3, <1>4, <1>6, <2>5, <2>6, Zenon DEF Walk, Passes
  <1>7. CASE ~(stanza < Len(rules.stanzas) /\ ~Stopping) /\ stanza' = 1 /\ pass' = pass + 1 /\ ~exit_flag /\ ~signal_flag
    <2>1. pass = 1 /\ pass' # 1
      BY <1>7
    <2>2. FirstPass
      BY <2>1, Zenon DEF Walk, Passes
    <2>3. ~(stanza < Len(rules.stanzas))
      BY <1>7, Zenon DEF Stopping
    <2>4. ASSUME NEW k \in 1 .. Len(rules.stanzas), NEW w \in Writers, w \in range(rules.stanzas[k].threads),
                 ~Skipped(rules.stanzas[k], 2)
          PROVE  th[w] \notin Early
      <3>1. CASE Skipped(rules.stanzas[k], 1)
        <4>1. th[w] = "none"
          BY <2>2, <2>4, <3>1, Zenon DEF FirstPass, Unstarted
        <4> QED BY <4>1, Zenon DEF Early
      <3>2. CASE ~Skipped(rules.stanzas[k], 1)
        <4>1. \E i \in k .. Len(rules.stanzas) : \E c \in Readers : Awaits(rules, i, c, w)
          BY <2>4, <3>2, Zenon DEF Awaited
        <4> PICK i \in k .. Len(rules.stanzas) : \E c \in Readers : Awaits(rules, i, c, w)
          BY <4>1, Zenon
        <4> PICK c \in Readers : Awaits(rules, i, c, w)
          BY Zenon
        <4>2. i \in 1 .. Len(rules.stanzas) /\ (stanza > i \/ stanza = i)
          BY ONLY <1>1, <2>3, k \in 1 .. Len(rules.stanzas), i \in k .. Len(rules.stanzas)
        <4>3. Seen(i, c, w)
          BY <2>2, <4>2, Zenon DEF FirstPass
        <4>4. Started(w)
          BY <1>1, <1>7, <4>2, <4>3, Zenon DEF Seen
        <4> QED BY <4>4, Zenon DEF Started
      <3> QED BY <3>1, <3>2, Zenon
    <2>5. SecondPass'
      BY <1>1, <2>4, Zenon DEF SecondPass, Due
    <2> QED BY <1>3, <1>4, <2>1, <2>5, Zenon DEF Walk, Passes
  <1> QED BY <1>2, <1>6, <1>7, Zenon

-----------------------------------------------------------------------------
(* A reader that has not waited in vain has seen a fencepost that moved.   *)
LEMMA CatchupRan ==
  ASSUME PosInv, NEW c \in Readers, Sane(rules, c), Marking, wait_for_fencepost_catchup(c),
         NEW k, NEW w \in Writers, Awaits(rules, k, c, w)
  PROVE  exit_flag \/ Ran(w)
  <1>1. /\ th[c] = "catchup" /\ (exit_flag \/ Behind(ctx(c).zone, ctx(c).first_blk, cur[c].num_blks))
        /\ ctx(c).zone = w /\ rules.rule[c].num_blks > 1
    BY Zenon DEF wait_for_fencepost_catchup, Awaits, ctx
  <1>2. cur[c].num_blks = Whole(rules, c) /\ Whole(rules, c) > 1
    BY <1>1, Zenon DEF Marking, Before, Whole
  <1>3. ctx(c).first_blk = First(rules, c) /\ First(rules, c) \in Int /\ Whole(rules, c) \in Nat
    BY Names DEF Sane
  <1>4. fence[w].min_lba \in Int /\ fence[w].max_lba \in Int
    <2>1. fence[w] \in Fenceposts
      BY Zenon DEF PosInv
    <2> QED BY <2>1, Zenon DEF Fenceposts
  <1>5. Behind(w, First(rules, c), Whole(rules, c)) => Ran(w)
    BY ONLY <1>2, <1>3, <1>4 DEF Behind, Ran
  <1> QED BY <1>1, <1>2, <1>3, <1>5, Zenon

(* A step of a thread that changes no fencepost and no context.            *)
LEMMA PlainWalks ==
  ASSUME Shape, Accounts, PosInv, \A d \in Contexts : Sane(rules, d), Walk, NEW c \in Contexts,
         \/ Announce(c) \/ Proceed(c) \/ wait_for_fencepost_catchup(c) \/ Leave(c) \/ LockBlocks(c)
  PROVE  Walk'
  <1>1. UNCHANGED <<rules, stanza, pass, todo, exit_flag>> /\ cur' = cur /\ fence' = fence
    BY Zenon DEF Announce, Proceed, wait_for_fencepost_catchup, Leave, LockBlocks, mainvars, flags
  <1>2. main' = main \/ (main = "creating" /\ main' = "created")
    BY Zenon DEF Announce, Proceed, wait_for_fencepost_catchup, Leave, LockBlocks, mainvars, Accounts, NewThread
  <1>3. \/ th[c] = "born" /\ Goto(c, "waiting")
        \/ th[c] = "ready" /\ Goto(c, "open")
        \/ th[c] = "catchup" /\ Goto(c, "top") /\ wait_for_fencepost_catchup(c)
        \/ th[c] = "top" /\ Goto(c, "close")
        \/ th[c] = "lock" /\ Goto(c, "io")
    BY Zenon DEF Announce, Proceed, wait_for_fencepost_catchup, Leave, LockBlocks
  <1>4. PICK s \in {"waiting", "open", "top", "close", "io"} :
          /\ Goto(c, s) /\ th[c] # "none"
          /\ s \in Early <=> th[c] \in Early
          /\ s \in Before => th[c] \in Before
          /\ s # "none"
          /\ th[c] \in Before /\ s \notin Before => wait_for_fencepost_catchup(c)
    BY <1>3, Zenon DEF Early, Before
  <1>5. \A w \in Writers : Ran(w)' => Ran(w)
    BY <1>1, Zenon DEF Ran
  <1>6. c \in Writers /\ s \notin Early \cup {"none"} => fence'[c].status = "R"
    BY <1>1, <1>4, Zenon DEF Walk, Marking
  <1>7. c \in Readers /\ s \in Before \cup {"none"} => cur'[c].num_blks = Whole(rules, c)
    BY <1>1, <1>4, Zenon DEF Walk, Marking
  <1>8. c \in Readers /\ th[c] \in Before /\ s \notin Before =>
          \A k \in 1 .. Len(rules.stanzas) : \A w \in Writers : Awaits(rules, k, c, w) => exit_flag \/ Ran(w)
    BY <1>4, CatchupRan, Zenon DEF Walk
  <1>9. \A w \in Writers : w # c => fence'[w].status = fence[w].status
    BY <1>1, Zenon
  <1>10. \A d \in Readers : d # c => cur'[d].num_blks = cur[d].num_blks
    BY <1>1, Zenon
  <1> QED BY <1>1, <1>2, <1>4, <1>5, <1>6, <1>7, <1>8, <1>9, <1>10, ThreadWalks, Zenon

(* The context of c alone is changed.                                      *)
LEMMA OneContext ==
  ASSUME PosInv, NEW c \in Contexts, NEW u, cur' = [cur EXCEPT ![c] = u]
  PROVE  cur'[c] = u /\ \A d \in Readers : d # c => cur'[d].num_blks = cur[d].num_blks
  <1>1. \A d \in Readers : d \in Contexts
    BY Zenon DEF Contexts
  <1> QED BY <1>1, Zenon DEF PosInv

(* A step of a running thread that does not end.                           *)
LEMMA RunningWalks ==
  ASSUME Shape, PosInv, Walk, NEW c \in Contexts, th[c] \in {"top", "draw", "aim", "io"},
         NEW s \in {"lock", "draw", "aim", "top"}, Goto(c, s), NEW u, cur' = [cur EXCEPT ![c] = u],
         fence' = fence \/ (th[c] = "io" /\ seg_unlock(c)), UNCHANGED <<rules, mainvars, flags>>
  PROVE  Walk'
  <1>1. UNCHANGED <<rules, stanza, pass, todo, exit_flag>> /\ main' = main
    BY Zenon DEF mainvars, flags
  <1>2. th[c] # "none" /\ s \notin Early /\ s \notin Before \cup {"none"} /\ th[c] \notin Before
    BY Zenon DEF Early, Before
  <1>3. ASSUME NEW w \in Writers
        PROVE  fence'[w].status = fence[w].status /\ (Ran(w)' => Ran(w) \/ th[w] = "io")
    <2>1. fence[w] \in Fenceposts
      BY Zenon DEF PosInv
    <2>2. CASE fence' = fence
      BY <2>2, Zenon DEF Ran
    <2>3. CASE th[c] = "io" /\ seg_unlock(c)
      <3>1. w # c => fence'[w] = fence[w]
        BY <2>3, Zenon DEF seg_unlock
      <3>2. fence'[w].status = fence[w].status
        <4>1. \/ fence'[w] = fence[w]
              \/ fence'[w] = [fence[w] EXCEPT !.max_lba = cur[c].blkno + cur[c].num_blks - 1]
              \/ fence'[w] = [fence[w] EXCEPT !.min_lba = cur[c].blkno]
          BY <2>3, Zenon DEF seg_unlock
        <4> QED BY <2>1, <4>1, Zenon DEF Fenceposts
      <3> QED BY <2>3, <3>1, <3>2, Zenon DEF Ran
    <2> QED BY <2>2, <2>3, Zenon
  <1>4. c \in Writers => fence'[c].status = "R"
    <2>1. th[c] \notin Early \cup {"none"}
      BY <1>2, Zenon DEF Before
    <2> QED BY <1>3, <2>1, Zenon DEF Walk, Marking
  <1>5. \A d \in Readers : d # c => cur'[d].num_blks = cur[d].num_blks
    BY OneContext, Zenon
  <1> QED BY <1>1, <1>2, <1>3, <1>4, <1>5, ThreadWalks, Zenon

(* The disk is opened: a BWRC thread marks its fencepost.                  *)
LEMMA OpenWalks ==
  ASSUME Shape, PosInv, Walk, NEW c \in Contexts, OpenDisk(c)
  PROVE  Walk'
  <1>1. /\ UNCHANGED <<rules, stanza, pass, todo, exit_flag>> /\ main' = main /\ th[c] = "open"
        /\ Goto(c, IF c \in Readers /\ rule(c).seek = "SEQ" THEN "catchup" ELSE "top")
        /\ cur' = [cur EXCEPT ![c] = IF rule(c).seek = "SEQ" THEN init_blkno(c, cur[c]) ELSE cur[c]]
        /\ fence' = [w \in Writers |-> IF w = c THEN [fence[w] EXCEPT !.status = "R"] ELSE fence[w]]
    BY Zenon DEF OpenDisk, mainvars, flags
  <1>2. PICK s \in {"catchup", "top"} : Goto(c, s) /\ (c \in Readers /\ rule(c).seek = "SEQ" => s = "catchup")
    BY <1>1, Zenon
  <1>3. /\ th[c] # "none" /\ s \notin Early /\ s # "none" /\ "catchup" \in Before /\ th[c] \in Before
        /\ "R" \in {"F", "R"}
    BY <1>1, Zenon DEF Early, Before
  <1>4. \A w \in Writers : fence'[w].min_lba = fence[w].min_lba /\ fence'[w].max_lba = fence[w].max_lba
    BY <1>1, <1>3, MarkFence, Zenon
  <1>5. \A w \in Writers : Ran(w)' => Ran(w)
    BY <1>4, Zenon DEF Ran
  <1>6. \A w \in Writers : w # c => fence'[w].status = fence[w].status
    BY <1>1, Zenon
  <1>7. c \in Writers => fence'[c].status = "R"
    <2>1. ASSUME c \in Writers PROVE fence'[c] = [fence[c] EXCEPT !.status = "R"] /\ fence[c] \in Fenceposts
      BY <1>1, <2>1, Zenon DEF PosInv
    <2> QED BY <2>1, Zenon DEF Fenceposts
  <1>8. PICK u : u = IF rule(c).seek = "SEQ" THEN init_blkno(c, cur[c]) ELSE cur[c]
    BY Zenon
  <1>9. cur' = [cur EXCEPT ![c] = u] /\ cur[c] \in Positions
    BY <1>1, <1>8, Zenon DEF PosInv
  <1>10. u.num_blks = cur[c].num_blks
    BY <1>8, <1>9, Zenon DEF init_blkno, Positions
  <1>11. cur'[c] = u /\ \A d \in Readers : d # c => cur'[d].num_blks = cur[d].num_blks
    BY <1>9, OneContext, Zenon
  <1>12. c \in Readers => cur'[c].num_blks = Whole(rules, c)
    BY <1>3, <1>10, <1>11, Zenon DEF Walk, Marking
  <1>13. c \in Readers /\ s \notin Before =>
           \A k \in 1 .. Len(rules.stanzas) : \A w \in Writers : Awaits(rules, k, c, w) => exit_flag \/ Ran(w)
    BY <1>2, <1>3, Zenon DEF Awaits, rule
  <1> QED BY <1>1, <1>2, <1>3, <1>5, <1>6, <1>7, <1>11, <1>12, <1>13, ThreadWalks, Zenon

(* The disk is closed.                                                     *)
LEMMA CloseWalks ==
  ASSUME Shape, PosInv, Walk, NEW c \in Contexts, CloseDisk(c)
  PROVE  Walk'
  <1>1. /\ UNCHANGED <<rules, stanza, pass, todo, exit_flag>> /\ main' = main /\ th[c] = "close"
        /\ Goto(c, "none")
        /\ cur' = [cur EXCEPT ![c] = IF c \in Writers THEN Idle(cur[c].num_blks, cur[c].do_partial)
                                                      ELSE Populated(rules, c)]
        /\ fence' = [w \in Writers |-> IF w = c THEN [fence[w] EXCEPT !.status = "F"] ELSE fence[w]]
    BY Zenon DEF CloseDisk, mainvars, flags
  <1>2. th[c] # "none" /\ "none" \notin Early /\ th[c] \notin Before /\ "F" \in {"F", "R"}
    BY <1>1, Zenon DEF Early, Before
  <1>3. \A w \in Writers : fence'[w].min_lba = fence[w].min_lba /\ fence'[w].max_lba = fence[w].max_lba
    BY <1>1, <1>2, MarkFence, Zenon
  <1>4. \A w \in Writers : Ran(w)' => Ran(w)
    BY <1>3, Zenon DEF Ran
  <1>5. \A w \in Writers : w # c => fence'[w].status = fence[w].status
    BY <1>1, Zenon
  <1>6. PICK u : u = IF c \in Writers THEN Idle(cur[c].num_blks, cur[c].do_partial) ELSE Populated(rules, c)
    BY Zenon
  <1>7. cur'[c] = u /\ \A d \in Readers : d # c => cur'[d].num_blks = cur[d].num_blks
    BY <1>1, <1>6, OneContext, Zenon
  <1>8. c \in Readers => cur'[c].num_blks = Whole(rules, c)
    <2>1. c \in Readers => c \notin Writers
      BY RulesAssumption, Zenon
    <2>2. Populated(rules, c).num_blks = Whole(rules, c)
      BY Zenon DEF Populated, Idle, Whole
    <2> QED BY <1>6, <1>7, <2>1, <2>2, Zenon
  <1> QED BY <1>1, <1>2, <1>4, <1>5, <1>7, <1>8, ThreadWalks, Zenon

(* Every step of a thread keeps main's walk in order.                      *)
LEMMA ThreadStepWalks ==
  ASSUME AllocInv, AllocInv', PosInv, \A d \in Contexts : Sane(rules, d), Walk,
         NEW c \in Contexts, ThreadStep(c), main' # "died"
  PROVE  Walk'
  <1>1. Shape /\ Accounts
    BY Zenon DEF AllocInv, ThreadStep
  <1>2. CASE NextBlocks(c)
    <2>1. /\ th[c] \in {"top", "draw", "aim", "io"} /\ fence' = fence /\ UNCHANGED <<rules, mainvars, flags>>
          /\ \E s \in {"lock", "draw", "aim", "top"} : Goto(c, s)
      BY <1>2, Zenon DEF NextBlocks
    <2>2. \E u : cur' = [cur EXCEPT ![c] = u]
      <3>1. cur = [cur EXCEPT ![c] = cur[c]]
        BY Zenon DEF PosInv
      <3>2. cur' = cur \/ \E u : cur' = [cur EXCEPT ![c] = u]
        BY <1>2, Zenon DEF NextBlocks
      <3> QED BY <3>1, <3>2, Zenon
    <2> QED BY <1>1, <2>1, <2>2, RunningWalks, Zenon
  <1>3. ASSUME NEW w \in Writers, DrawZone(c, w) PROVE Walk'
    <2>1. /\ th[c] \in {"top", "draw", "aim", "io"} /\ fence' = fence /\ UNCHANGED <<rules, mainvars, flags>>
          /\ \E s \in {"lock", "draw", "aim", "top"} : Goto(c, s)
          /\ \E u : cur' = [cur EXCEPT ![c] = u]
      BY <1>3, Zenon DEF DrawZone
    <2> QED BY <1>1, <2>1, RunningWalks, Zenon
  <1>4. CASE DrawBlock(c)
    <2>1. /\ th[c] \in {"top", "draw", "aim", "io"} /\ fence' = fence /\ UNCHANGED <<rules, mainvars, flags>>
          /\ Goto(c, "lock") /\ \E u : cur' = [cur EXCEPT ![c] = u]
      BY <1>4, Zenon DEF DrawBlock, mainvars
    <2> QED BY <1>1, <2>1, RunningWalks, Zenon
  <1>5. CASE Transfer(c)
    <2>1. /\ th[c] = "io" /\ seg_unlock(c) /\ UNCHANGED <<rules, mainvars, flags>>
          /\ Goto(c, "top") /\ \E u : cur' = [cur EXCEPT ![c] = u]
      BY <1>5, Zenon DEF Transfer
    <2> QED BY <1>1, <2>1, RunningWalks, Zenon
  <1>6. CASE EndThread(c)
    <2>1. UNCHANGED <<rules, stanza, pass, todo, th, cur, fence, exit_flag>>
      BY <1>6, Zenon DEF EndThread, flags
    <2>2. main' = main \/ (main = "finishing" /\ main' = "finished")
      BY <1>6, Zenon DEF EndThread
    <2>3. ASSUME main' = "finished" PROVE \A d \in Readers : th[d] = "none"
      <3>1. (main \in Resting /\ Alive)'
        BY <2>3, Zenon DEF Resting, Alive
      <3>2. Accounts'
        BY <3>1, Zenon DEF AllocInv
      <3>3. Gone(Readers)'
        BY <3>1, <3>2, Zenon DEF Accounts, ReaderContexts
      <3> QED BY <2>1, <3>3, Zenon DEF Gone
    <2>4. exit_flag => exit_flag'
      BY ONLY <2>1
    <2> QED BY <2>1, <2>2, <2>3, <2>4, MainWalks, Zenon
  <1> QED BY <1>1, <1>2, <1>3, <1>4, <1>5, <1>6, PlainWalks, OpenWalks, CloseWalks, Zenon DEF ThreadStep

-----------------------------------------------------------------------------
(* The numbers of passes and of failed calls only grow, and only a call    *)
(* that fails raises the latter.                                           *)
LEMMA OnlyGrow ==
  ASSUME errs \in Nat, pass \in Nat \ {0}, [Next]_vars
  PROVE  /\ errs' \in Nat /\ pass' \in Nat \ {0} /\ (errs' = 0 /\ pass' <= 2 => errs = 0 /\ pass \in {1, 2})
         /\ \A c \in Contexts : Fails(c) => errs' # 0
  <1>1. errs' = errs \/ errs' = errs + 1
    <2>1. UNCHANGED vars \/ MainStep \/ SIGTERM_hdl \/ sig_function => errs' = errs
      BY Zenon DEF vars, MainStep, RunStanza, CreateThread, CountThread, StartThreads, FreeContexts, NextStanza,
                   Cleanup, GiveUp, Return, SIGTERM_hdl, sig_function
    <2>2. \A c \in Contexts : ThreadStep(c) => errs' = errs
      BY Zenon DEF ThreadStep, Announce, Proceed, OpenDisk, wait_for_fencepost_catchup, Leave, NextBlocks, DrawZone,
                   DrawBlock, LockBlocks, Transfer, CloseDisk, EndThread
    <2>3. \A c \in Contexts : Fails(c) => errs' = errs + 1
      BY Zenon DEF Fails, OpenFails, PatternFails, AllocFails, TransferFails
    <2> QED BY <2>1, <2>2, <2>3, Zenon DEF Next
  <1>2. pass' = pass \/ pass' = pass + 1
    <2>1. UNCHANGED vars \/ MainStep \/ SIGTERM_hdl \/ sig_function => pass' = pass \/ pass' = pass + 1
      BY Zenon DEF vars, mainvars, MainStep, RunStanza, CreateThread, CountThread, StartThreads, FreeContexts,
                   NextStanza, Cleanup, GiveUp, Return, SIGTERM_hdl, sig_function
    <2>2. \A c \in Contexts : ThreadStep(c) => pass' = pass
      BY Zenon DEF mainvars, ThreadStep, Announce, Proceed, OpenDisk, wait_for_fencepost_catchup, Leave, NextBlocks,
                   DrawZone, DrawBlock, LockBlocks, Transfer, CloseDisk, EndThread
    <2>3. \A c \in Contexts : Fails(c) => pass' = pass
      BY Zenon DEF mainvars, Fails, OpenFails, PatternFails, AllocFails, TransferFails
    <2> QED BY <2>1, <2>2, <2>3, Zenon DEF Next
  <1>3. errs + 1 # 0
    OBVIOUS
  <1>4. \A c \in Contexts : Fails(c) => errs' # 0
    BY <1>3, Zenon DEF Fails, OpenFails, PatternFails, AllocFails, TransferFails
  <1>5. errs' \in Nat /\ pass' \in Nat \ {0} /\ (errs' = 0 /\ pass' <= 2 => errs = 0 /\ pass \in {1, 2})
    BY ONLY <1>1, <1>2, errs \in Nat, pass \in Nat \ {0}
  <1> QED BY <1>4, <1>5, Zenon

(* The steps of main.                                                      *)
LEMMA MainStepWalks ==
  ASSUME AllocInv, Numbered(rules), Awaited(rules), pass \in {1, 2}, pass' <= 2, Walking => Walk, MainStep
  PROVE  main' # "twice" /\ (Walking' => Walk')
  <1>1. Shape
    BY Zenon DEF AllocInv
  <1>2. CASE RunStanza
    <2>1. Walking /\ main' # "twice"
      BY <1>2, Zenon DEF RunStanza, Walking
    <2> QED BY <1>2, <2>1, RunStanzaWalks, Zenon
  <1>3. CASE CreateThread
    <2>1. Walking
      BY <1>3, Zenon DEF CreateThread, Walking, Creating
    <2> QED BY <1>1, <1>3, <2>1, CreateWalks, Zenon
  <1>4. CASE CountThread
    <2>1. Walking /\ main' # "twice"
      BY <1>4, Zenon DEF CountThread, Walking, Creating
    <2> QED BY <1>4, <2>1, CountWalks, Zenon
  <1>5. CASE StartThreads
    <2>1. Walking /\ main' # "twice"
      BY <1>5, Zenon DEF StartThreads, Walking, Creating
    <2> QED BY <1>1, <1>5, <2>1, StartWalks, Zenon
  <1>6. CASE FreeContexts
    <2>1. Walking /\ main = "finished" /\ main' = "next" /\ main' # "twice"
      BY <1>6, Zenon DEF FreeContexts, Walking
    <2>2. UNCHANGED <<rules, stanza, pass, todo, th, cur, fence, exit_flag>>
      BY <1>6, Zenon DEF FreeContexts, flags
    <2>3. exit_flag => exit_flag'
      BY ONLY <2>2
    <2> QED BY <2>1, <2>2, <2>3, MainWalks, Zenon
  <1>7. CASE NextStanza
    <2>1. Walking /\ main' \in {"stanza", "reread", "leaving"}
      BY <1>7, Zenon DEF NextStanza, Walking
    <2>2. Walking' => main' = "stanza"
      BY <2>1, Zenon DEF Walking, Creating
    <2>3. pass \in Nat \ {0}
      OBVIOUS
    <2> QED BY <1>1, <1>7, <2>1, <2>2, <2>3, NextWalks, Zenon
  <1>8. CASE Cleanup \/ GiveUp \/ Return
    <2>1. main' \in {"freed", "gaveup", "done"}
      BY <1>8, Zenon DEF Cleanup, GiveUp, Return
    <2> QED BY <2>1, Zenon DEF Walking, Creating
  <1> QED BY <1>2, <1>3, <1>4, <1>5, <1>6, <1>7, <1>8, Zenon DEF MainStep

(* Every step keeps what is known of the first two passes.                 *)
LEMMA OnceStep ==
  ASSUME AllocInv, AllocInv', PosInv, \A d \in Contexts : Sane(rules, d), Numbered(rules), Awaited(rules),
         OnceInv, [Next]_vars
  PROVE  OnceInv'
  <1>1. /\ errs' \in Nat /\ pass' \in Nat \ {0} /\ (errs' = 0 /\ pass' <= 2 => errs = 0 /\ pass \in {1, 2})
        /\ \A c \in Contexts : Fails(c) => errs' # 0
    BY OnlyGrow, Zenon DEF OnceInv
  <1> SUFFICES ASSUME errs' = 0, pass' <= 2 PROVE main' # "twice" /\ (Walking' => Walk')
    BY <1>1, Zenon DEF OnceInv, Walk
  <1>2. errs = 0 /\ pass \in {1, 2}
    BY <1>1, Zenon
  <1>3. main # "twice" /\ (Walking => Walk)
    <2>1. pass <= 2
      BY <1>2
    <2> QED BY <1>2, <2>1, Zenon DEF OnceInv, Walk
  <1>4. CASE UNCHANGED vars \/ SIGTERM_hdl \/ sig_function
    <2>1. UNCHANGED <<rules, stanza, pass, todo, th, cur, fence>> /\ main' = main
      BY <1>4, Zenon DEF vars, mainvars, SIGTERM_hdl, sig_function
    <2>2. exit_flag' = exit_flag \/ exit_flag' = TRUE
      BY <1>4, Zenon DEF vars, flags, SIGTERM_hdl, sig_function
    <2>3. exit_flag => exit_flag'
      <3>1. CASE exit_flag' = exit_flag
        BY ONLY <3>1
      <3>2. CASE exit_flag' = TRUE
        BY ONLY <3>2, Zenon
      <3> QED BY <2>2, <3>1, <3>2, Zenon
    <2>4. Walking' => Walking
      BY <2>1, Zenon DEF Walking
    <2> QED BY <1>3, <2>1, <2>3, <2>4, MainWalks, Zenon
  <1>5. CASE MainStep
    BY <1>2, <1>3, <1>5, MainStepWalks, Zenon
  <1>6. ASSUME NEW c \in Contexts, ThreadStep(c) PROVE main' # "twice" /\ (Walking' => Walk')
    <2>1. main' = main \/ (th[c] = "born" /\ main' = "created") \/ main' = "died" \/ (main = "finishing" /\ main' = "finished")
      BY <1>6, Zenon DEF mainvars, ThreadStep, Announce, Proceed, OpenDisk, wait_for_fencepost_catchup, Leave,
                         NextBlocks, DrawZone, DrawBlock, LockBlocks, Transfer, CloseDisk, EndThread
    <2>2. Accounts
      BY <1>6, Zenon DEF AllocInv, ThreadStep
    <2>3. th[c] = "born" => main = "creating"
      BY <2>2, Zenon DEF Accounts, NewThread
    <2>4. main' # "twice"
      BY <1>3, <2>1, Zenon
    <2>5. Walking' => Walking /\ main' # "died"
      BY <2>1, <2>3, Zenon DEF Walking, Creating
    <2> QED BY <1>3, <1>6, <2>4, <2>5, ThreadStepWalks, Zenon
  <1> QED BY <1>1, <1>4, <1>5, <1>6, Zenon DEF Next

(* At the start no thread has been created and no fencepost has moved.     *)
LEMMA InitOnce ==
  ASSUME Init, \A c \in Contexts : Sane(rules, c)
  PROVE  OnceInv
  <1>1. /\ main = "stanza" /\ stanza = 1 /\ pass = 1 /\ errs = 0 /\ cur = [c \in Contexts |-> Populated(rules, c)]
        /\ th = [c \in Contexts |-> "none"] /\ fence = [w \in Writers |-> initialize_fencepost(rules, w)]
    BY Zenon DEF Init
  <1>2. /\ \A w \in Writers : w \in Contexts /\ th[w] = "none" /\ ~Ran(w)
        /\ \A c \in Readers : c \in Contexts /\ th[c] = "none"
    BY <1>1, Zenon DEF Contexts, initialize_fencepost, Ran
  <1>3. Creations
    BY <1>1, Zenon DEF Creations, Creating
  <1>4. Marking
    <2>1. \A c \in Readers : cur[c].num_blks = Whole(rules, c)
      BY <1>1, <1>2, Zenon DEF Populated, Idle, Whole
    <2> QED BY <1>2, <2>1, Zenon DEF Marking
  <1>5. FirstPass
    <2>1. \A w \in Writers : Unstarted(w)
      BY <1>2, Zenon DEF Unstarted
    <2>2. ASSUME NEW k \in 1 .. Len(rules.stanzas), NEW c, NEW w PROVE Seen(k, c, w)
      <3>1. ~(1 > k)
        OBVIOUS
      <3>2. main \notin {"finished", "next"} /\ main \notin Creating \cup {"finishing"}
        BY <1>1, Zenon DEF Creating
      <3> QED BY <1>1, <3>1, <3>2, Zenon DEF Seen
    <2> QED BY <2>1, <2>2, Zenon DEF FirstPass
  <1>6. pass # 2 /\ main # "twice" /\ errs \in Nat /\ pass \in Nat \ {0}
    BY <1>1
  <1> QED BY <1>3, <1>4, <1>5, <1>6, Zenon DEF OnceInv, Passes

(* In the first two passes, as long as no call fails, main starts no       *)
(* second thread on the context of one that runs, whatever the rule file   *)
(* has its threads do, provided that a BWRC thread which both passes start *)
(* is waited for by a sequential reader of the first one.                  *)
THEOREM ThreadsStartOnce ==
  ASSUME \A f \in RuleFiles : \A c \in Contexts : Fits(f, c),
         \A f \in RuleFiles : Numbered(f) /\ Awaited(f)
  PROVE  Spec => []OneThreadPerContext
  <1>1. AllFit
    BY Zenon DEF AllFit
  <1>2. Init /\ AllocInv => OnceInv
    BY <1>1, AllSane, InitOnce, Zenon DEF AllocInv
  <1>3. AllocInv /\ AllocInv' /\ PosInv /\ OnceInv /\ [Next]_vars => OnceInv'
    <2> SUFFICES ASSUME AllocInv, AllocInv', PosInv, OnceInv, [Next]_vars PROVE OnceInv'
      BY Zenon
    <2>1. Numbered(rules) /\ Awaited(rules)
      BY Zenon DEF AllocInv, Shape
    <2>2. \A c \in Contexts : Sane(rules, c)
      BY <1>1, AllSane, Zenon DEF AllocInv
    <2> QED BY <2>1, <2>2, OnceStep, Zenon
  <1>4. OnceInv => OneThreadPerContext
    BY DEF OnceInv, OneThreadPerContext
  <1> QED BY <1>1, <1>2, <1>3, <1>4, AllocInvariant, PosInvariant, PTL DEF Spec
=============================================================================
