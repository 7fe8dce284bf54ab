---------------------- MODULE ExecutionLifecycleProofs ----------------------
(***************************************************************************)
(* What ConcurrencyControl and ExecutionLifecycle promise, for every set   *)
(* of executions and runs, every assignment of modes, timeouts and waiting *)
(* nodes, every limit and every number of restarts.                        *)
(*                                                                         *)
(* The inductive invariant of the concurrency control speaks of one queue  *)
(* at a time: QueueInv relates its limit, capacity, items, slots and       *)
(* dropped promises, and each method of ConcurrencyQueue preserves it (the *)
(* three lemmas on values below).                                          *)
(*                                                                         *)
(* That of the lifecycle comes in three layers, each proved on top of the  *)
(* one before:                                                             *)
(*   StatusInv  what the status column says of the runs of an execution,   *)
(*   CallerInv  that a run holds a slot when its entry is finalized, so    *)
(*              that the lifecycle keeps the contract of CCSpec,           *)
(*   SlotInv    that a slot is held through an active entry, and comes     *)
(*              back with it: PlaceInv for the queues, HoldInv for the     *)
(*              entries.                                                   *)
(***************************************************************************)
EXTENDS ExecutionLifecycle, FiniteSetTheorems, SequenceTheorems, TLAPS
-----------------------------------------------------------------------------
(* The concurrency control: one queue. *)

RunsOf(q) == {q[i].run : i \in 1..Len(q)}

\* One queue with limit l, capacity c, items q, slots g, dropped promises d.
QueueInv(l, c, q, g, d) ==
    /\ c \in Int /\ q \in Seq(Item) /\ g \in SUBSET Runs /\ d \in SUBSET Runs
    /\ \A i, j \in 1..Len(q) : q[i].run = q[j].run => i = j
    /\ \A i \in 1..Len(q) : q[i].run \notin g \cup d
    /\ g \cap d = {}
    /\ c = l - Cardinality(g) - Len(q)
    /\ q # << >> => c <= -Len(q)
    /\ Cardinality(g) <= l + Cardinality(d)

IInv ==
    /\ CCTypeOK
    /\ \A t \in Limited :
         QueueInv(Limit[t], capacity[t], queue[t], granted[t], dropped[t])

-----------------------------------------------------------------------------
(* Sets of runs are finite, and one element more or less is one more or less
   of their cardinality.                                                     *)
LEMMA RunSets ==
    ASSUME NEW S \in SUBSET Runs
    PROVE  /\ IsFiniteSet(S) /\ Cardinality(S) \in Nat
           /\ \A r \in Runs : r \notin S =>
                 Cardinality(S \cup {r}) = Cardinality(S) + 1
           /\ \A r \in S : Cardinality(S \ {r}) = Cardinality(S) - 1
<1>1. IsFiniteSet(S)
  BY RunsAssumption, FS_Subset
<1>2. Cardinality(S) \in Nat
  BY <1>1, FS_CardinalityType
<1>3. ASSUME NEW r \in Runs, r \notin S
      PROVE  Cardinality(S \cup {r}) = Cardinality(S) + 1
  BY <1>1, <1>3, FS_AddElement
<1>4. ASSUME NEW r \in S
      PROVE  Cardinality(S \ {r}) = Cardinality(S) - 1
  BY <1>1, <1>4, FS_RemoveElement
<1> QED BY <1>1, <1>2, <1>3, <1>4

(* A limit that has a queue is a positive integer. *)
LEMMA LimitPositive == \A t \in Limited : Limit[t] \in Int /\ Limit[t] > 0
BY LimitAssumption DEF Limited

(* enqueue() of a run unknown to the queue. *)
LEMMA EnqueueKeeps ==
    ASSUME NEW l \in Int, l > 0, NEW c, NEW q, NEW g, NEW d,
           QueueInv(l, c, q, g, d),
           NEW it \in Item, it.run \notin RunsOf(q) \cup g \cup d
    PROVE  /\ c - 1 < 0 => QueueInv(l, c - 1, Append(q, it), g, d)
           /\ ~(c - 1 < 0) => QueueInv(l, c - 1, q, g \cup {it.run}, d)
<1> USE DEF QueueInv
<1>0. it.run \in Runs /\ Len(q) \in Nat /\ (q # << >> => Len(q) > 0)
      /\ (q = << >> => Len(q) = 0)
  BY DEF Item
<1>1. /\ Cardinality(g) \in Nat /\ Cardinality(d) \in Nat
      /\ Cardinality(g \cup {it.run}) = Cardinality(g) + 1
  BY <1>0, RunSets
<1>2. ASSUME c - 1 < 0
      PROVE  QueueInv(l, c - 1, Append(q, it), g, d)
  <2> DEFINE p == Append(q, it)
  <2>1. /\ p \in Seq(Item) /\ p # << >> /\ Len(p) = Len(q) + 1
        /\ \A i \in 1..Len(q) : p[i] = q[i]
        /\ p[Len(q) + 1] = it
    BY AppendProperties
  <2>2. \A i, j \in 1..Len(p) : p[i].run = p[j].run => i = j
    BY <2>1, <1>0 DEF RunsOf
  <2>3. \A i \in 1..Len(p) : p[i].run \notin g \cup d
    BY <2>1, <1>0
  <2>4. c - 1 = l - Cardinality(g) - Len(p)
    BY <2>1, <1>0, <1>1
  <2>5. c - 1 <= -Len(p)
    BY <2>1, <1>0, <1>1, <1>2
  <2> QED BY <2>1, <2>2, <2>3, <2>4, <2>5
<1>3. ASSUME ~(c - 1 < 0)
      PROVE  QueueInv(l, c - 1, q, g \cup {it.run}, d)
  <2>1. q = << >>
    BY <1>0, <1>3
  <2>2. Cardinality(g \cup {it.run}) <= l + Cardinality(d)
    BY <1>0, <1>1, <1>3, <2>1
  <2>3. c - 1 = l - Cardinality(g \cup {it.run}) - Len(q)
    BY <1>0, <1>1
  <2>4. (g \cup {it.run}) \cap d = {} /\ g \cup {it.run} \in SUBSET Runs
    BY <1>0
  <2>5. \A i \in 1..Len(q) : q[i].run \notin (g \cup {it.run}) \cup d
    BY <2>1, <1>0
  <2> QED BY <2>1, <2>2, <2>3, <2>4, <2>5
<1> QED BY <1>2, <1>3

(* Once one slot is free or one item is gone, resolveNext() lets the next item
   through: l, g and d may be off by the one that dequeue() or remove() accounts
   for, which `lent` stands for.                                             *)
LEMMA ResolveNextKeeps ==
    ASSUME NEW l \in Int, l > 0, NEW c \in Int, NEW q \in Seq(Item),
           NEW g \in SUBSET Runs, NEW d \in SUBSET Runs,
           \A i, j \in 1..Len(q) : q[i].run = q[j].run => i = j,
           \A i \in 1..Len(q) : q[i].run \notin g \cup d,
           g \cap d = {},
           c = l - Cardinality(g) - Len(q),
           q # << >> => c <= -(Len(q) - 1),
           q = << >> => Cardinality(g) <= l + Cardinality(d),
           q # << >> => Cardinality(g) < l + Cardinality(d)
    PROVE  QueueInv(l, c, ResolveNext(q)[1], g \cup ResolveNext(q)[2], d)
<1>0. /\ Cardinality(g) \in Nat /\ Cardinality(d) \in Nat /\ Len(q) \in Nat
      /\ q # << >> => Len(q) > 0
  BY RunSets
<1>1. CASE q = << >>
  BY <1>0, <1>1 DEF QueueInv, ResolveNext
<1>2. CASE q # << >>
  <2> DEFINE h == Head(q).run
             p == Tail(q)
  <2>1. /\ p \in Seq(Item) /\ Len(p) = Len(q) - 1
        /\ \A i \in 1..Len(p) : p[i] = q[i + 1]
    BY <1>2, HeadTailProperties
  <2>10. q[1] \in Item /\ Head(q) = q[1]
    BY <1>0, <1>2
  <2>9. h \in Runs /\ h = q[1].run
    BY <2>10 DEF Item
  <2>2. h \notin g \cup d /\ \A i \in 1..Len(p) : p[i].run # h
    BY <2>1, <2>9, <1>0, <1>2
  <2>3. Cardinality(g \cup {h}) = Cardinality(g) + 1
    BY <2>9, <2>2, RunSets
  <2>4. \A i, j \in 1..Len(p) : p[i].run = p[j].run => i = j
    BY <2>1, <1>0
  <2>5. \A i \in 1..Len(p) : p[i].run \notin (g \cup {h}) \cup d
    BY <2>1, <2>2, <1>0
  <2>6. /\ c = l - Cardinality(g \cup {h}) - Len(p)
        /\ c <= -Len(p)
        /\ Cardinality(g \cup {h}) <= l + Cardinality(d)
    BY <2>1, <2>3, <1>0, <1>2
  <2>7. (g \cup {h}) \cap d = {} /\ g \cup {h} \in SUBSET Runs
    BY <2>9, <2>2
  <2>8. ResolveNext(q)[1] = p /\ ResolveNext(q)[2] = {h}
    BY <1>2 DEF ResolveNext
  <2> HIDE DEF h, p
  <2> QED BY <2>1, <2>4, <2>5, <2>6, <2>7, <2>8 DEF QueueInv
<1> QED BY <1>1, <1>2

(* dequeue() by a run that holds a slot. *)
LEMMA DequeueKeeps ==
    ASSUME NEW l \in Int, l > 0, NEW c, NEW q, NEW g, NEW d,
           QueueInv(l, c, q, g, d), NEW r \in g
    PROVE  QueueInv(l, c + 1, ResolveNext(q)[1],
                    (g \ {r}) \cup ResolveNext(q)[2], d)
<1>0. /\ c \in Int /\ q \in Seq(Item) /\ g \in SUBSET Runs /\ d \in SUBSET Runs
      /\ Len(q) \in Nat /\ g \ {r} \in SUBSET Runs
  BY DEF QueueInv
<1>1. /\ Cardinality(g) \in Nat /\ Cardinality(d) \in Nat
      /\ Cardinality(g \ {r}) = Cardinality(g) - 1
  BY <1>0, RunSets
<1>5. /\ c = l - Cardinality(g) - Len(q)
      /\ q # << >> => c <= -Len(q)
      /\ Cardinality(g) <= l + Cardinality(d)
  BY DEF QueueInv
<1>2. /\ c + 1 = l - Cardinality(g \ {r}) - Len(q)
      /\ q # << >> => c + 1 <= -(Len(q) - 1)
      /\ q = << >> => Cardinality(g \ {r}) <= l + Cardinality(d)
      /\ q # << >> => Cardinality(g \ {r}) < l + Cardinality(d)
  <2>1. Cardinality(g \ {r}) \in Int
    BY <1>1
  <2>2. c + 1 = l - Cardinality(g \ {r}) - Len(q)
    BY <2>1, <1>0, <1>1, <1>5
  <2>3. ASSUME q # << >> PROVE c + 1 <= -(Len(q) - 1)
    <3>1. c <= -Len(q)
      BY <1>5, <2>3
    <3> QED BY <1>0, <3>1
  <2>4. Cardinality(g \ {r}) < l + Cardinality(d)
    BY <2>1, <1>1, <1>5
  <2>5. Cardinality(g \ {r}) <= l + Cardinality(d)
    BY <2>1, <1>1, <2>4
  <2> QED BY <2>2, <2>3, <2>4, <2>5
<1>3. /\ \A i, j \in 1..Len(q) : q[i].run = q[j].run => i = j
      /\ \A i \in 1..Len(q) : q[i].run \notin (g \ {r}) \cup d
      /\ (g \ {r}) \cap d = {}
  BY <1>0 DEF QueueInv
<1>4. c + 1 \in Int
  BY <1>0
<1> QED BY <1>0, <1>2, <1>3, <1>4, ResolveNextKeeps

(* The queue without its k-th item. *)
LEMMA WithoutProperties ==
    ASSUME NEW q \in Seq(Item), NEW k \in 1..Len(q)
    PROVE  /\ Without(q, k) \in Seq(Item)
           /\ Len(Without(q, k)) = Len(q) - 1
           /\ \A i \in 1..(Len(q) - 1) :
                 Without(q, k)[i] = IF i < k THEN q[i] ELSE q[i + 1]
<1> DEFINE a == SubSeq(q, 1, k - 1)
           b == SubSeq(q, k + 1, Len(q))
<1>1. /\ a \in Seq(Item) /\ Len(a) = k - 1
      /\ \A i \in 1..(k - 1) : a[i] = q[i]
  <2>1. \A i \in 1..(k - 1) : q[i] \in Item
    OBVIOUS
  <2> QED BY <2>1, SubSeqProperties
<1>2. /\ b \in Seq(Item) /\ Len(b) = Len(q) - k
      /\ \A i \in 1..(Len(q) - k) : b[i] = q[k + i]
  <2>1. \A i \in (k + 1)..Len(q) : q[i] \in Item
    OBVIOUS
  <2>2. /\ b \in Seq(Item)
        /\ Len(b) = IF k + 1 <= Len(q) THEN Len(q) - (k + 1) + 1 ELSE 0
        /\ \A i \in 1..(Len(q) - (k + 1) + 1) : b[i] = q[(k + 1) + i - 1]
    BY <2>1, SubSeqProperties
  <2> QED BY <2>2
<1> HIDE DEF a, b
<1>3. /\ a \o b \in Seq(Item)
      /\ Len(a \o b) = Len(a) + Len(b)
      /\ \A i \in 1..(Len(a) + Len(b)) :
            (a \o b)[i] = IF i <= Len(a) THEN a[i] ELSE b[i - Len(a)]
  BY <1>1, <1>2, ConcatProperties
<1>4. /\ a \o b \in Seq(Item)
      /\ Len(a \o b) = Len(q) - 1
      /\ \A i \in 1..(Len(q) - 1) :
            (a \o b)[i] = IF i < k THEN q[i] ELSE q[i + 1]
  <2>1. Len(q) \in Nat /\ k \in Int
    OBVIOUS
  <2>2. Len(a) + Len(b) = Len(q) - 1
    BY <1>1, <1>2, <2>1
  <2>3. ASSUME NEW i \in 1..(Len(q) - 1)
        PROVE  (a \o b)[i] = IF i < k THEN q[i] ELSE q[i + 1]
    <3>1. CASE i < k
      BY <3>1, <1>1, <1>3, <2>1, <2>2
    <3>2. CASE ~(i < k)
      <4>1. /\ i - (k - 1) \in 1..(Len(q) - k)
            /\ k + (i - (k - 1)) = i + 1
        BY <3>2, <2>1
      <4>2. (a \o b)[i] = b[i - (k - 1)]
        BY <3>2, <1>1, <1>3, <2>1, <2>2
      <4> QED BY <4>1, <4>2, <3>2, <1>2
    <3> QED BY <3>1, <3>2
  <2> QED BY <1>3, <2>2, <2>3
<1>5. Without(q, k) = a \o b
  BY DEF Without, a, b
<1> QED BY <1>4, <1>5

(* remove() of the k-th item: its promise is dropped, the next one resolves. *)
LEMMA RemoveKeeps ==
    ASSUME NEW l \in Int, l > 0, NEW c, NEW q, NEW g, NEW d,
           QueueInv(l, c, q, g, d), NEW k \in 1..Len(q)
    PROVE  QueueInv(l, c + 1, ResolveNext(Without(q, k))[1],
                    g \cup ResolveNext(Without(q, k))[2], d \cup {q[k].run})
<1> DEFINE x == q[k].run
           p == Without(q, k)
<1>8. /\ c \in Int /\ q \in Seq(Item) /\ g \in SUBSET Runs /\ d \in SUBSET Runs
      /\ Len(q) \in Nat /\ q # << >> /\ x \notin g \cup d
  BY DEF QueueInv
<1>9. q[k] \in Item
  BY <1>8
<1>10. x \in Runs
  BY <1>9 DEF Item
<1>0. /\ c \in Int /\ q \in Seq(Item) /\ g \in SUBSET Runs /\ d \in SUBSET Runs
      /\ Len(q) \in Nat /\ q # << >> /\ x \in Runs /\ x \notin g \cup d
      /\ d \cup {x} \in SUBSET Runs
  BY <1>8, <1>10
<1>1. /\ Cardinality(g) \in Nat /\ Cardinality(d) \in Nat
      /\ Cardinality(d \cup {x}) = Cardinality(d) + 1
  BY <1>0, RunSets
<1>2. /\ p \in Seq(Item) /\ Len(p) = Len(q) - 1
      /\ \A i \in 1..(Len(q) - 1) : p[i] = IF i < k THEN q[i] ELSE q[i + 1]
  BY <1>0, WithoutProperties
<1> HIDE DEF p
<1>3. \A i, j \in 1..Len(p) : p[i].run = p[j].run => i = j
  <2> SUFFICES ASSUME NEW i \in 1..Len(p), NEW j \in 1..Len(p),
                      p[i].run = p[j].run
               PROVE  i = j
    OBVIOUS
  <2> DEFINE pos(n) == IF n < k THEN n ELSE n + 1
  <2>1. /\ p[i] = q[pos(i)] /\ p[j] = q[pos(j)]
        /\ pos(i) \in 1..Len(q) /\ pos(j) \in 1..Len(q)
    BY <1>0, <1>2
  <2>2. pos(i) = pos(j)
    BY <2>1 DEF QueueInv
  <2> QED BY <2>2, <1>0, <1>2
<1>4. \A i \in 1..Len(p) : p[i].run \notin g \cup (d \cup {x})
  <2> SUFFICES ASSUME NEW i \in 1..Len(p)
               PROVE  p[i].run \notin g \cup (d \cup {x})
    OBVIOUS
  <2>1. PICK n \in 1..Len(q) : n # k /\ p[i] = q[n]
    BY <1>0, <1>2
  <2> QED BY <2>1 DEF QueueInv
<1>5. /\ c + 1 = l - Cardinality(g) - Len(p)
      /\ p # << >> => c + 1 <= -(Len(p) - 1)
      /\ p = << >> => Cardinality(g) <= l + Cardinality(d \cup {x})
      /\ p # << >> => Cardinality(g) < l + Cardinality(d \cup {x})
      /\ g \cap (d \cup {x}) = {}
  <2>1. /\ c = l - Cardinality(g) - Len(q) /\ c <= -Len(q)
        /\ Cardinality(g) <= l + Cardinality(d) /\ g \cap d = {}
    BY <1>0 DEF QueueInv
  <2>2. Len(p) = Len(q) - 1
    BY <1>2
  <2> HIDE DEF x
  <2>3. g \cap (d \cup {x}) = {}
    BY <1>0, <2>1
  <2>4. c + 1 = l - Cardinality(g) - Len(p) /\ c + 1 <= -(Len(p) - 1)
    BY <1>0, <1>1, <2>1, <2>2
  <2>5. Cardinality(g) < l + Cardinality(d \cup {x})
    BY <1>0, <1>1, <2>1, <2>2
  <2>6. Cardinality(g) <= l + Cardinality(d \cup {x})
    BY <1>0, <1>1, <2>1
  <2> QED BY <2>3, <2>4, <2>5, <2>6
<1> HIDE DEF x
<1>7. c + 1 \in Int
  BY <1>0
<1>6. QueueInv(l, c + 1, ResolveNext(p)[1], g \cup ResolveNext(p)[2], d \cup {x})
  BY <1>0, <1>2, <1>3, <1>4, <1>5, <1>7, ResolveNextKeeps
<1> QED BY <1>6 DEF p, x

-----------------------------------------------------------------------------
(* An initial queue has its whole limit as capacity. *)
LEMMA InitialQueue == \A t \in Limited : QueueInv(Limit[t], Limit[t], << >>, {}, {})
<1> SUFFICES ASSUME NEW t \in Limited
             PROVE  QueueInv(Limit[t], Limit[t], << >>, {}, {})
  OBVIOUS
<1>1. Cardinality({}) = 0
  BY FS_EmptySet
<1>2. << >> \in Seq(Item) /\ Len(<< >>) = 0
  OBVIOUS
<1> QED BY <1>1, <1>2, LimitPositive DEF QueueInv

(* A step that replaces the state of one queue keeps the invariant. *)
LEMMA OneQueueKeeps ==
    ASSUME IInv, isEnabled' = isEnabled,
           NEW t \in Limited, NEW c, NEW q, NEW g, NEW d,
           QueueInv(Limit[t], c, q, g, d),
           capacity' = [capacity EXCEPT ![t] = c],
           queue' = [queue EXCEPT ![t] = q],
           granted' = [granted EXCEPT ![t] = g],
           dropped' = [dropped EXCEPT ![t] = d]
    PROVE  IInv'
<1>1. CCTypeOK'
  BY DEF IInv, CCTypeOK, QueueInv
<1>2. ASSUME NEW u \in Limited
      PROVE  QueueInv(Limit[u], capacity'[u], queue'[u], granted'[u], dropped'[u])
  <2>1. CASE u = t
    BY <2>1 DEF IInv, CCTypeOK
  <2>2. CASE u # t
    BY <2>2 DEF IInv, CCTypeOK
  <2> QED BY <2>1, <2>2
<1> QED BY <1>1, <1>2 DEF IInv

(* The invariant holds in every initial state. *)
LEMMA InitIInv == CCInit => IInv
<1> SUFFICES ASSUME CCInit PROVE IInv
  OBVIOUS
<1>1. CCTypeOK
  BY LimitPositive DEF CCInit, CCTypeOK
<1>2. \A t \in Limited :
        QueueInv(Limit[t], capacity[t], queue[t], granted[t], dropped[t])
  BY InitialQueue DEF CCInit
<1> QED BY <1>1, <1>2 DEF IInv

(* Every step of the service and its callers keeps the invariant. *)
LEMMA NextIInv == IInv /\ [CCNext]_ccVars => IInv'
<1> SUFFICES ASSUME IInv, [CCNext]_ccVars PROVE IInv'
  OBVIOUS
<1>0. ASSUME UNCHANGED ccVars PROVE IInv'
  BY <1>0 DEF ccVars, IInv, CCTypeOK
<1>1. ASSUME NEW e \in Executions, NEW r \in Runs, Unknown(r), Throttle(e, r)
      PROVE  IInv'
  <2>1. CASE ~isEnabled \/ IsUnlimited(e)
    BY <1>0, <1>1, <2>1 DEF Throttle
  <2>2. CASE ~(~isEnabled \/ IsUnlimited(e))
    <3>1. PICK t \in QueuesOf(e) : Enqueue(t, e, r)
      BY <1>1, <2>2 DEF Throttle
    <3>2. t \in Limited /\ Limit[t] \in Int /\ Limit[t] > 0
      BY LimitPositive DEF QueuesOf
    <3> DEFINE it == [executionId |-> e, run |-> r]
    <3>3. it \in Item /\ it.run = r
      BY DEF Item
    <3>4. /\ QueueInv(Limit[t], capacity[t], queue[t], granted[t], dropped[t])
          /\ it.run \notin RunsOf(queue[t]) \cup granted[t] \cup dropped[t]
      BY <1>1, <3>2, <3>3 DEF IInv, Unknown, Queued, RunsOf
    <3>5. /\ capacity[t] - 1 < 0 =>
                QueueInv(Limit[t], capacity[t] - 1, Append(queue[t], it),
                         granted[t], dropped[t])
          /\ ~(capacity[t] - 1 < 0) =>
                QueueInv(Limit[t], capacity[t] - 1, queue[t],
                         granted[t] \cup {r}, dropped[t])
      BY <3>2, <3>3, <3>4, EnqueueKeeps
    <3>6. CASE capacity[t] - 1 < 0
      <4>1. /\ isEnabled' = isEnabled
            /\ capacity' = [capacity EXCEPT ![t] = capacity[t] - 1]
            /\ queue' = [queue EXCEPT ![t] = Append(queue[t], it)]
            /\ granted' = [granted EXCEPT ![t] = granted[t]]
            /\ dropped' = [dropped EXCEPT ![t] = dropped[t]]
        BY <3>1, <3>2, <3>6 DEF Enqueue, IInv, CCTypeOK
      <4> QED BY <3>2, <3>5, <3>6, <4>1, OneQueueKeeps
    <3>7. CASE ~(capacity[t] - 1 < 0)
      <4>1. /\ isEnabled' = isEnabled
            /\ capacity' = [capacity EXCEPT ![t] = capacity[t] - 1]
            /\ queue' = [queue EXCEPT ![t] = queue[t]]
            /\ granted' = [granted EXCEPT ![t] = granted[t] \cup {r}]
            /\ dropped' = [dropped EXCEPT ![t] = dropped[t]]
        BY <3>1, <3>2, <3>7 DEF Enqueue, IInv, CCTypeOK
      <4> QED BY <3>2, <3>5, <3>7, <4>1, OneQueueKeeps
    <3> QED BY <3>6, <3>7
  <2> QED BY <2>1, <2>2
<1>2. ASSUME NEW e \in Executions, NEW r \in Runs,
             isEnabled => MayRelease(e, r), Release(e, r)
      PROVE  IInv'
  <2>1. CASE ~isEnabled \/ IsUnlimited(e)
    BY <1>0, <1>2, <2>1 DEF Release
  <2>2. CASE ~(~isEnabled \/ IsUnlimited(e))
    <3>1. PICK t \in QueuesOf(e) : Dequeue(t, r)
      BY <1>2, <2>2 DEF Release
    <3>2. /\ t \in Limited /\ Limit[t] \in Int /\ Limit[t] > 0
          /\ r \in granted[t]
      BY <1>2, <2>2, LimitPositive DEF QueuesOf, MayRelease
    <3> DEFINE n == ResolveNext(queue[t])
    <3>3. QueueInv(Limit[t], capacity[t] + 1, n[1],
                   (granted[t] \ {r}) \cup n[2], dropped[t])
      BY <3>2, DequeueKeeps DEF IInv
    <3>4. /\ isEnabled' = isEnabled
          /\ capacity' = [capacity EXCEPT ![t] = capacity[t] + 1]
          /\ queue' = [queue EXCEPT ![t] = n[1]]
          /\ granted' = [granted EXCEPT ![t] = (granted[t] \ {r}) \cup n[2]]
          /\ dropped' = [dropped EXCEPT ![t] = dropped[t]]
      BY <3>1, <3>2 DEF Dequeue, IInv, CCTypeOK
    <3> HIDE DEF n
    <3> QED BY <3>2, <3>3, <3>4, OneQueueKeeps
  <2> QED BY <2>1, <2>2
<1>3. ASSUME NEW e \in Executions, Remove(e)
      PROVE  IInv'
  <2>1. CASE UNCHANGED ccVars
    BY <1>0, <2>1
  <2>2. ASSUME NEW t \in QueuesOf(e), NEW i \in 1..Len(queue[t]), RemoveAt(t, i)
        PROVE  IInv'
    <3>1. t \in Limited /\ Limit[t] \in Int /\ Limit[t] > 0
      BY LimitPositive DEF QueuesOf
    <3> DEFINE n == ResolveNext(Without(queue[t], i))
               x == queue[t][i].run
    <3>2. QueueInv(Limit[t], capacity[t] + 1, n[1], granted[t] \cup n[2],
                   dropped[t] \cup {x})
      BY <3>1, <2>2, RemoveKeeps DEF IInv
    <3>3. /\ isEnabled' = isEnabled
          /\ capacity' = [capacity EXCEPT ![t] = capacity[t] + 1]
          /\ queue' = [queue EXCEPT ![t] = n[1]]
          /\ granted' = [granted EXCEPT ![t] = granted[t] \cup n[2]]
          /\ dropped' = [dropped EXCEPT ![t] = dropped[t] \cup {x}]
      BY <2>2, <3>1 DEF RemoveAt, IInv, CCTypeOK
    <3> HIDE DEF n, x
    <3> QED BY <3>1, <3>2, <3>3, OneQueueKeeps
  <2> QED BY <1>3, <2>1, <2>2 DEF Remove
<1>4. ASSUME Disable PROVE IInv'
  BY <1>4 DEF Disable, IInv, CCTypeOK
<1>5. ASSUME Reset PROVE IInv'
  <2>1. CCTypeOK'
    BY <1>5, LimitPositive DEF Reset, CCTypeOK
  <2>2. \A t \in Limited :
          QueueInv(Limit[t], capacity'[t], queue'[t], granted'[t], dropped'[t])
    BY <1>5, InitialQueue DEF Reset
  <2> QED BY <2>1, <2>2 DEF IInv
<1> QED BY <1>0, <1>1, <1>2, <1>3, <1>4, <1>5 DEF CCNext

(* The capacity of every queue accounts for each run let through and each one
   queued, whatever is enqueued, released, removed or reset in whatever order. *)
THEOREM AccountingHolds == CCSpec => []CapacityAccounting
<1>1. IInv => CapacityAccounting
  BY DEF IInv, QueueInv, CapacityAccounting
<1> QED BY <1>1, InitIInv, NextIInv, PTL DEF CCSpec

(* A run is queued only while at least as many runs as the limit hold a slot. *)
THEOREM WorkConservingHolds == CCSpec => []WorkConserving
<1>1. IInv => WorkConserving
  <2> SUFFICES ASSUME IInv, NEW t \in Limited, queue[t] # << >>
               PROVE  Cardinality(granted[t]) >= Limit[t]
    BY DEF WorkConserving
  <2>1. QueueInv(Limit[t], capacity[t], queue[t], granted[t], dropped[t])
    BY DEF IInv
  <2>2. /\ capacity[t] = Limit[t] - Cardinality(granted[t]) - Len(queue[t])
        /\ capacity[t] <= -Len(queue[t])
        /\ granted[t] \in SUBSET Runs /\ Len(queue[t]) \in Nat
    BY <2>1 DEF QueueInv
  <2>3. Cardinality(granted[t]) \in Nat
    BY <2>2, RunSets
  <2> QED BY <2>2, <2>3, LimitPositive
<1> QED BY <1>1, InitIInv, NextIInv, PTL DEF CCSpec

(* The limit is exceeded by at most the number of queued runs removed. *)
THEOREM OverAdmissionHolds == CCSpec => []OverAdmissionBounded
<1>1. IInv => OverAdmissionBounded
  BY DEF IInv, QueueInv, OverAdmissionBounded
<1> QED BY <1>1, InitIInv, NextIInv, PTL DEF CCSpec

(* Type correctness of the service. *)
THEOREM TypeHolds == CCSpec => []CCTypeOK
<1>1. IInv => CCTypeOK
  BY DEF IInv
<1> QED BY <1>1, InitIInv, NextIInv, PTL DEF CCSpec
-----------------------------------------------------------------------------
(* The lifecycle. *)

\* States of a run between setRunning() and the end of its engine's saving.
LiveStates == {"marked", "checking", "preparing", "launching", "executing",
               "waitRequested", "saving-success", "saving-error",
               "saving-waiting", "saving-canceled"}

\* States after the run put its entry into activeExecutions.
EnteredStates == (LiveStates \ {"marked"}) \cup {"checkFailed", "saved", "done"}

Live(r)     == pc[r] \in LiveStates
Entered(r)  == pc[r] \in EnteredStates
Gone(r)     == pc[r] \in {"idle", "dead"}
Starting(r) == pc[r] \in {"called", "throttled", "admitted"} /\ call[r].kind = "fresh"

Begun(r)    == Starting(r) \/ Live(r) \/ Entered(r)

SameExecution(r, s) == ExecutionOf(r) = ExecutionOf(s)

\* An execution that was not created yet.
Uncreated(e) ==
    /\ e \notin waitTill \cup bootQueue
    /\ \A r \in Runs : ~Gone(r) => ExecutionOf(r) # e

StatusTypes ==
    /\ db \in [Executions -> Status]
    /\ call \in [Runs -> Call \cup {NoCall}]
    /\ pc \in [Runs -> RunState]
    /\ waitTill \in SUBSET Executions
    /\ bootQueue \in SUBSET Executions

StatusInv ==
    /\ StatusTypes
    /\ \A r \in Runs : ~Gone(r) => call[r] \in Call
    /\ phase = "down" => \A r \in Runs : Gone(r)
    /\ \A e \in Executions : db[e] = "none" => Uncreated(e)
    /\ \A r \in Runs : Starting(r) => db[ExecutionOf(r)] \in {"new", "canceled"}
    /\ \A r \in Runs : Live(r) => db[ExecutionOf(r)] \in {"running", "canceled"}
    /\ \A r, s \in Runs : Live(r) /\ Live(s) /\ SameExecution(r, s) => r = s
    /\ \A r, s \in Runs : Starting(r) /\ SameExecution(r, s) /\ Begun(s) => r = s

\* The entry of run x of execution e still owes the release of its slot.
Unsettled(e) == active[e] # None /\ ~entry[active[e]].settled

CallerInv ==
    /\ IInv
    /\ active \in [Executions -> Runs \cup {None}]
    /\ entry \in [Runs -> Entry]
    /\ \A r \in Runs : pc[r] \in {"idle", "called"} => Unknown(r)
    /\ \A r \in Runs : pc[r] = "admitted" => ~isEnabled \/ IsUnlimited(ExecutionOf(r))
    /\ \A e \in Executions : active[e] # None =>
         ExecutionOf(active[e]) = e /\ Entered(active[e])
    /\ \A e \in Executions : active[e] # None /\ ~Unsettled(e) =>
         entry[active[e]].status = "waiting"
    /\ timers \in SUBSET Runs /\ \A r \in timers : Entered(r)
    /\ isEnabled => \A r \in Runs : pc[r] = "marked" => MayRelease(ExecutionOf(r), r)
    /\ isEnabled => \A e \in Executions : Unsettled(e) => MayRelease(e, active[e])

\* Run r has a slot that no wait excuses.
Slotted(r) == isEnabled /\ \E t \in Limited : r \in granted[t]
Holds(r)   == Slotted(r) /\ Entered(r) /\ entry[r].status # "waiting"

PlaceInv ==
    /\ detached \in SUBSET Runs
    /\ \A t \in Limited : \A r \in Queued(t) : pc[r] = "throttled"
    /\ \A t \in Limited : \A r \in Queued(t) \cup granted[t] :
         t \in QueuesOf(ExecutionOf(r))
    /\ \A r \in detached : Entered(r) /\ active[ExecutionOf(r)] # r

HoldInv ==
    /\ \A r \in Runs : Holds(r) => /\ active[ExecutionOf(r)] = r /\ ~entry[r].settled
                                   /\ db[ExecutionOf(r)] # "waiting"
                                   /\ pc[r] \notin {"waitRequested", "saving-waiting", "done"}
    /\ \A r, s \in Runs : Live(r) /\ Holds(s) /\ SameExecution(r, s) => r = s

SlotInv == PlaceInv /\ HoldInv

-----------------------------------------------------------------------------
(* The status of an execution and its runs. *)

(* No run has begun in the initial states. *)
LEMMA StatusInit == Init => StatusInv
BY DEF Init, StatusInv, StatusTypes, Uncreated, Status, RunState, Gone, Starting,
       Live, Entered, Begun, LiveStates, EnteredStates, NoCall

(* A run that put its entry, or is about to, moves on; no status changes. *)
LEMMA MoveKeeps ==
    ASSUME StatusInv, NEW r \in Runs, NEW x \in EnteredStates,
           pc' = [pc EXCEPT ![r] = x], Live(r) \/ Entered(r),
           x \in LiveStates => Live(r),
           db' = db, call' = call, waitTill' = waitTill, bootQueue' = bootQueue,
           phase # "down", phase' = phase
    PROVE  StatusInv'
<1> USE DEF ExecutionOf, SameExecution, Live, Entered, Gone, Starting, Begun
<1>0. /\ StatusTypes /\ x \in RunState
      /\ pc'[r] = x /\ \A s \in Runs : s # r => pc'[s] = pc[s]
  BY DEF StatusInv, StatusTypes, EnteredStates, LiveStates, RunState
<1>9. \A s \in Runs : /\ Live(s)' => Live(s)
                      /\ Starting(s)' => Starting(s)
                      /\ Begun(s)' => Begun(s)
                      /\ ~Gone(s)' => ~Gone(s)
  BY <1>0 DEF EnteredStates, LiveStates
<1>1. StatusTypes'
  BY <1>0 DEF StatusTypes
<1>2. \A s \in Runs : ~Gone(s)' => call'[s] \in Call
  BY <1>9 DEF StatusInv
<1>3. \A e \in Executions : db'[e] = "none" => Uncreated(e)'
  BY <1>9 DEF StatusInv, Uncreated
<1>4. \A s \in Runs : Starting(s)' => db'[ExecutionOf(s)'] \in {"new", "canceled"}
  BY <1>9 DEF StatusInv
<1>5. \A s \in Runs : Live(s)' => db'[ExecutionOf(s)'] \in {"running", "canceled"}
  BY <1>9 DEF StatusInv
<1>6. \A q, s \in Runs : Live(q)' /\ Live(s)' /\ SameExecution(q, s)' => q = s
  BY <1>9 DEF StatusInv
<1>7. \A q, s \in Runs : Starting(q)' /\ SameExecution(q, s)' /\ Begun(s)' => q = s
  BY <1>9 DEF StatusInv
<1> HIDE DEF ExecutionOf, SameExecution, Live, Entered, Gone, Starting, Begun
<1> QED BY <1>1, <1>2, <1>3, <1>4, <1>5, <1>6, <1>7 DEF StatusInv

(* A cancelled or stopped execution, and steps that touch no run. *)
LEMMA CancelKeeps ==
    ASSUME StatusInv, UNCHANGED <<call, pc, bootQueue>>,
           waitTill' \in SUBSET waitTill,
           phase' = "down" => phase = "down",
           \/ db' = db
           \/ \E e \in Executions : db' = [db EXCEPT ![e] = "canceled"]
    PROVE  StatusInv'
<1> USE DEF ExecutionOf, SameExecution, Live, Entered, Gone, Starting, Begun
<1>1. /\ db' \in [Executions -> Status]
      /\ \A e \in Executions : db'[e] \in {db[e], "canceled"}
  BY DEF StatusInv, StatusTypes, Status
<1>2. StatusTypes'
  BY <1>1 DEF StatusInv, StatusTypes
<1>3. \A e \in Executions : db'[e] = "none" => Uncreated(e)'
  BY <1>1 DEF StatusInv, Uncreated
<1>4. \A s \in Runs : ~Gone(s) => ExecutionOf(s) \in Executions
  BY DEF StatusInv, Call
<1>5. \A s \in Runs : Starting(s)' => db'[ExecutionOf(s)'] \in {"new", "canceled"}
  BY <1>1, <1>4 DEF StatusInv
<1>6. \A s \in Runs : Live(s)' => db'[ExecutionOf(s)'] \in {"running", "canceled"}
  BY <1>1, <1>4 DEF StatusInv, LiveStates
<1> QED BY <1>2, <1>3, <1>5, <1>6 DEF StatusInv

(* A run is started for an execution that no run has begun, or not afresh. *)
LEMMA StartKeeps ==
    ASSUME StatusInv, NEW r \in Runs, StartRun(r)
    PROVE  StatusInv'
<1> USE DEF ExecutionOf, SameExecution, Live, Entered, Gone, Starting, Begun
<1>0. /\ phase = "up" /\ phase' = phase /\ pc[r] = "idle"
      /\ pc' = [pc EXCEPT ![r] = "called"]
  BY DEF StartRun, CreateExecution, BeginResume, RunEnqueued, Goto
<1>1. PICK e \in Executions, k \in Kinds :
        /\ call' = [call EXCEPT ![r] = [execution |-> e, kind |-> k]]
        /\ waitTill' = waitTill /\ bootQueue' \in SUBSET bootQueue
        /\ \/ k = "fresh" /\ db[e] = "none" /\ db' = [db EXCEPT ![e] = "new"]
           \/ k # "fresh" /\ db' = db /\ e \in waitTill \cup bootQueue
  BY DEF StartRun, CreateExecution, BeginResume, RunEnqueued, Kinds
<1>2. /\ [execution |-> e, kind |-> k] \in Call
      /\ call'[r] = [execution |-> e, kind |-> k] /\ pc'[r] = "called"
      /\ \A s \in Runs : s # r => call'[s] = call[s] /\ pc'[s] = pc[s]
      /\ db[e] # "none" \/ k = "fresh"
      /\ \A f \in Executions : f # e => db'[f] = db[f]
      /\ db'[e] # "none"
  BY <1>0, <1>1 DEF StatusInv, StatusTypes, Call, Uncreated
<1>3. StatusTypes'
  BY <1>0, <1>1, <1>2 DEF StatusInv, StatusTypes, RunState, Status
<1>4. \A s \in Runs : ~Gone(s)' => call'[s] \in Call
  BY <1>2 DEF StatusInv
<1>5. \A f \in Executions : db'[f] = "none" => Uncreated(f)'
  BY <1>1, <1>2 DEF StatusInv, Uncreated
<1>6. \A s \in Runs : ~Gone(s) => ExecutionOf(s) \in Executions
  BY DEF StatusInv, Call
<1>7. k = "fresh" => \A s \in Runs : ~Gone(s) => ExecutionOf(s) # e
  BY <1>1 DEF StatusInv, Uncreated
<1>8. \A s \in Runs : Starting(s)' => db'[ExecutionOf(s)'] \in {"new", "canceled"}
  BY <1>1, <1>2, <1>6, <1>7 DEF StatusInv, StatusTypes
<1>9. \A s \in Runs : Live(s)' => s # r /\ Live(s)
  BY <1>2 DEF LiveStates
<1>10. \A s \in Runs : Entered(s)' => s # r /\ Entered(s)
  BY <1>2 DEF LiveStates, EnteredStates
<1>11. \A s \in Runs : Live(s)' => db'[ExecutionOf(s)'] \in {"running", "canceled"}
  BY <1>1, <1>2, <1>6, <1>7, <1>9 DEF StatusInv, StatusTypes, LiveStates
<1>12. \A q, s \in Runs : Live(q)' /\ Live(s)' /\ SameExecution(q, s)' => q = s
  BY <1>2, <1>9 DEF StatusInv
<1>13. \A q, s \in Runs : Starting(q)' /\ SameExecution(q, s)' /\ Begun(s)' => q = s
  <2> SUFFICES ASSUME NEW q \in Runs, NEW s \in Runs, q # s,
                      Starting(q)', SameExecution(q, s)', Begun(s)'
               PROVE  FALSE
    OBVIOUS
  <2>1. CASE q = r
    BY <2>1, <1>2, <1>7, <1>9, <1>10 DEF LiveStates, EnteredStates
  <2>2. CASE s = r
    BY <2>2, <1>2, <1>7, <1>9, <1>10
  <2>3. CASE q # r /\ s # r
    BY <2>3, <1>2, <1>9, <1>10 DEF StatusInv
  <2> QED BY <2>1, <2>2, <2>3
<1> HIDE DEF ExecutionOf, SameExecution, Live, Entered, Gone, Starting, Begun
<1> QED BY <1>0, <1>3, <1>4, <1>5, <1>8, <1>11, <1>12, <1>13 DEF StatusInv

(* A run that was called awaits throttle(), or is let through at once. *)
LEMMA ThrottleKeeps ==
    ASSUME StatusInv, NEW r \in Runs, CallThrottle(r)
    PROVE  StatusInv'
<1> USE DEF ExecutionOf, SameExecution, Live, Entered, Gone, Starting, Begun
<1>1. PICK x \in {"throttled", "admitted"} : pc' = [pc EXCEPT ![r] = x]
  BY DEF CallThrottle, Goto
<1>2. /\ pc[r] = "called" /\ phase # "down"
      /\ UNCHANGED <<db, call, waitTill, bootQueue, phase>>
  BY DEF CallThrottle, Running
<1>3. /\ pc'[r] = x /\ \A s \in Runs : s # r => pc'[s] = pc[s]
      /\ StatusTypes'
  BY <1>1, <1>2 DEF StatusInv, StatusTypes, RunState
<1>4. \A s \in Runs : /\ Live(s)' <=> Live(s)
                      /\ Entered(s)' <=> Entered(s)
                      /\ Starting(s)' <=> Starting(s)
                      /\ Gone(s)' <=> Gone(s)
  BY <1>2, <1>3 DEF LiveStates, EnteredStates
<1>5. \A e \in Executions : db'[e] = "none" => Uncreated(e)'
  BY <1>2, <1>4 DEF StatusInv, Uncreated
<1> QED BY <1>2, <1>3, <1>4, <1>5 DEF StatusInv

(* A run marks its execution running: it is the only one that may. *)
LEMMA MarkKeeps ==
    ASSUME StatusInv, NEW r \in Runs, MarkNewRunning(r) \/ MarkExistingRunning(r)
    PROVE  StatusInv'
<1> USE DEF ExecutionOf, SameExecution, Live, Entered, Gone, Starting, Begun
<1> DEFINE e == ExecutionOf(r)
<1>0. /\ phase # "down" /\ phase' = phase
      /\ pc[r] \in {"throttled", "admitted"}
      /\ UNCHANGED <<call, bootQueue>> /\ waitTill' \in SUBSET waitTill
  BY DEF MarkNewRunning, MarkExistingRunning, Running, Admitted, StatusInv, StatusTypes
<1>1. e \in Executions
  BY <1>0 DEF StatusInv, Call
<1>2. CASE /\ pc' = [pc EXCEPT ![r] = "marked"]
           /\ db' = [db EXCEPT ![e] = "running"]
           /\ call[r].kind = "fresh" \/ db[e] = "waiting"
  <2>1. /\ pc'[r] = "marked" /\ db'[e] = "running"
        /\ \A s \in Runs : s # r => pc'[s] = pc[s]
        /\ \A f \in Executions : f # e => db'[f] = db[f]
        /\ StatusTypes'
    BY <1>0, <1>1, <1>2 DEF StatusInv, StatusTypes, RunState, Status
  <2>2. ASSUME NEW s \in Runs, s # r, ExecutionOf(s) = e
        PROVE  ~Live(s) /\ ~Starting(s)
    <3>1. CASE call[r].kind = "fresh"
      BY <3>1, <2>2, <1>0 DEF StatusInv
    <3>2. CASE db[e] = "waiting"
      BY <3>2, <2>2 DEF StatusInv
    <3> QED BY <3>1, <3>2, <1>2
  <2>3. \A s \in Runs : s # r => /\ Live(s)' <=> Live(s)
                                 /\ Entered(s)' <=> Entered(s)
                                 /\ Starting(s)' <=> Starting(s)
                                 /\ Gone(s)' <=> Gone(s)
    BY <2>1, <1>0
  <2>4. ~Starting(r)' /\ Live(r)' /\ ~Gone(r)' /\ ~Gone(r)
    BY <2>1, <1>0 DEF LiveStates
  <2>5. \A f \in Executions : db'[f] = "none" => Uncreated(f)'
    BY <2>1, <2>3, <2>4, <1>0 DEF StatusInv, Uncreated
  <2>6. \A s \in Runs : ~Gone(s) => ExecutionOf(s) \in Executions
    BY DEF StatusInv, Call
  <2>7. \A s \in Runs : Starting(s)' => db'[ExecutionOf(s)'] \in {"new", "canceled"}
    BY <2>1, <2>2, <2>3, <2>4, <2>6, <1>0 DEF StatusInv
  <2>8. \A s \in Runs : Live(s)' => db'[ExecutionOf(s)'] \in {"running", "canceled"}
    BY <2>1, <2>2, <2>3, <2>4, <2>6, <1>0 DEF StatusInv, LiveStates
  <2>9. \A q, s \in Runs : Live(q)' /\ Live(s)' /\ SameExecution(q, s)' => q = s
    BY <2>2, <2>3, <1>0 DEF StatusInv
  <2>10. \A q, s \in Runs : Starting(q)' /\ SameExecution(q, s)' /\ Begun(s)' => q = s
    BY <2>2, <2>3, <2>4, <1>0 DEF StatusInv
  <2>11. \A s \in Runs : ~Gone(s)' => call'[s] \in Call
    BY <2>3, <2>4, <1>0 DEF StatusInv
  <2> HIDE DEF ExecutionOf, SameExecution, Live, Entered, Gone, Starting, Begun
  <2> QED BY <2>1, <2>5, <2>7, <2>8, <2>9, <2>10, <2>11, <1>0 DEF StatusInv
<1>3. CASE pc' = [pc EXCEPT ![r] = "refused"] /\ db' = db /\ call[r].kind # "fresh"
  <2>1. /\ pc'[r] = "refused" /\ \A s \in Runs : s # r => pc'[s] = pc[s]
        /\ StatusTypes'
    BY <1>0, <1>3 DEF StatusInv, StatusTypes, RunState
  <2>2. \A s \in Runs : /\ Live(s)' <=> Live(s)
                        /\ Entered(s)' <=> Entered(s)
                        /\ Starting(s)' <=> Starting(s)
                        /\ Gone(s)' <=> Gone(s)
    BY <2>1, <1>0, <1>3 DEF LiveStates, EnteredStates
  <2>3. \A f \in Executions : db'[f] = "none" => Uncreated(f)'
    BY <2>2, <1>0, <1>3 DEF StatusInv, Uncreated
  <2> QED BY <2>1, <2>2, <2>3, <1>0, <1>3 DEF StatusInv
<1> QED BY <1>2, <1>3 DEF MarkNewRunning, MarkExistingRunning, Goto

(* A live run writes the status of its execution: no other run is concerned. *)
LEMMA WriteKeeps ==
    ASSUME StatusInv, NEW r \in Runs, Live(r), phase # "down",
           UNCHANGED <<call, bootQueue, phase>>,
           NEW x \in EnteredStates, pc' = [pc EXCEPT ![r] = x],
           NEW st \in Status \ {"none", "new"},
           db' = [db EXCEPT ![ExecutionOf(r)] = st],
           x \in LiveStates => st = "running",
           waitTill' \in SUBSET (waitTill \cup {ExecutionOf(r)})
    PROVE  StatusInv'
<1> USE DEF ExecutionOf, SameExecution, Live, Entered, Gone, Starting, Begun
<1> DEFINE e == ExecutionOf(r)
<1>1. e \in Executions /\ db[e] \in {"running", "canceled"}
  BY DEF StatusInv, Call, LiveStates
<1>2. /\ pc'[r] = x /\ db'[e] = st
      /\ \A s \in Runs : s # r => pc'[s] = pc[s]
      /\ \A f \in Executions : f # e => db'[f] = db[f]
      /\ StatusTypes'
  BY <1>1 DEF StatusInv, StatusTypes, RunState, EnteredStates, LiveStates
<1>3. \A s \in Runs : s # r /\ ExecutionOf(s) = e => ~Live(s) /\ ~Starting(s)
  BY DEF StatusInv
<1>4. \A s \in Runs : s # r => /\ Live(s)' <=> Live(s)
                               /\ Entered(s)' <=> Entered(s)
                               /\ Starting(s)' <=> Starting(s)
                               /\ Gone(s)' <=> Gone(s)
  BY <1>2
<1>5. ~Starting(r)' /\ Entered(r)' /\ ~Gone(r)' /\ ~Gone(r)
  BY <1>2 DEF LiveStates, EnteredStates
<1>6. \A f \in Executions : db'[f] = "none" => Uncreated(f)'
  BY <1>2, <1>4, <1>5 DEF StatusInv, Uncreated
<1>7. \A s \in Runs : ~Gone(s) => ExecutionOf(s) \in Executions
  BY DEF StatusInv, Call
<1>8. \A s \in Runs : Starting(s)' => db'[ExecutionOf(s)'] \in {"new", "canceled"}
  BY <1>2, <1>3, <1>4, <1>5, <1>7 DEF StatusInv
<1>9. \A s \in Runs : Live(s)' => db'[ExecutionOf(s)'] \in {"running", "canceled"}
  BY <1>2, <1>3, <1>4, <1>5, <1>7 DEF StatusInv, LiveStates
<1>10. \A q, s \in Runs : Live(q)' /\ Live(s)' /\ SameExecution(q, s)' => q = s
  BY <1>3, <1>4 DEF StatusInv
<1>11. \A q, s \in Runs : Starting(q)' /\ SameExecution(q, s)' /\ Begun(s)' => q = s
  BY <1>3, <1>4, <1>5 DEF StatusInv
<1>12. \A s \in Runs : ~Gone(s)' => call'[s] \in Call
  BY <1>4, <1>5 DEF StatusInv
<1> HIDE DEF ExecutionOf, SameExecution, Live, Entered, Gone, Starting, Begun
<1> QED BY <1>2, <1>6, <1>8, <1>9, <1>10, <1>11, <1>12 DEF StatusInv

(* While the process is down no run is there, so recovery disturbs none. *)
LEMMA DownKeeps ==
    ASSUME StatusInv, GoDown \/ Boot
    PROVE  StatusInv'
<1> USE DEF ExecutionOf, SameExecution, Live, Entered, Gone, Starting, Begun
<1>1. CASE GoDown
  <2>1. \A r \in Runs : pc'[r] \in {"idle", "dead"}
    BY <1>1 DEF GoDown
  <2>2. StatusTypes'
    BY <1>1 DEF GoDown, StatusInv, StatusTypes, RunState
  <2>3. \A r \in Runs : Gone(r)' /\ ~Live(r)' /\ ~Entered(r)' /\ ~Starting(r)'
    BY <2>1 DEF LiveStates, EnteredStates
  <2>4. \A e \in Executions : db'[e] = "none" => Uncreated(e)'
    BY <1>1, <2>3 DEF GoDown, StatusInv, Uncreated
  <2> QED BY <2>2, <2>3, <2>4 DEF StatusInv
<1>2. CASE Boot
  <2>1. /\ UNCHANGED <<call, pc, waitTill>> /\ phase = "down" /\ phase' = "up"
        /\ bootQueue' = {e \in Executions : db[e] = "new"}
    BY <1>2 DEF Boot
  <2>2. \A r \in Runs : Gone(r)' /\ ~Live(r)' /\ ~Entered(r)' /\ ~Starting(r)'
    BY <2>1 DEF StatusInv, LiveStates, EnteredStates
  <2>3. \A e \in Executions : db'[e] \in {db[e], "crashed"}
    BY <1>2 DEF Boot
  <2>4. db' \in [Executions -> Status]
    BY <1>2 DEF Boot, StatusInv, StatusTypes, Status
  <2>5. StatusTypes'
    BY <2>1, <2>4 DEF StatusInv, StatusTypes
  <2>6. \A e \in Executions : db'[e] = "none" => Uncreated(e)'
    BY <2>1, <2>2, <2>3 DEF StatusInv, Uncreated
  <2> QED BY <2>1, <2>2, <2>5, <2>6 DEF StatusInv
<1> QED BY <1>1, <1>2

(* What a run does by itself keeps the invariant. *)
LEMMA RunKeeps ==
    ASSUME StatusInv, NEW r \in Runs, RunStep(r)
    PROVE  StatusInv'
<1> USE DEF Goto, Running, Live, Entered
<1>1. CASE CallThrottle(r)
  BY <1>1, ThrottleKeeps
<1>2. CASE MarkNewRunning(r) \/ MarkExistingRunning(r)
  BY <1>2, MarkKeeps
<1>3. CASE Activate(r)
  BY <1>3, MoveKeeps DEF Activate, EnteredStates, LiveStates
<1>4. CASE CheckFails(r)
  <2>1. /\ pc[r] = "checking" /\ phase # "down"
        /\ UNCHANGED <<call, bootQueue, phase>> /\ waitTill' = waitTill
        /\ pc' = [pc EXCEPT ![r] = "checkFailed"]
        /\ db' = [db EXCEPT ![ExecutionOf(r)] = "error"]
    BY <1>4 DEF CheckFails
  <2>2. "checking" \in LiveStates /\ "checkFailed" \in EnteredStates \ LiveStates
        /\ "error" \in Status \ {"none", "new"}
    BY DEF EnteredStates, LiveStates, Status
  <2> QED BY <2>1, <2>2, WriteKeeps
<1>5. CASE FinalizeFailedCheck(r)
  BY <1>5, MoveKeeps DEF FinalizeFailedCheck, EnteredStates, LiveStates
<1>6. CASE CheckPasses(r)
  <2>1. PICK x \in {"done", "preparing"} : pc' = [pc EXCEPT ![r] = x]
    BY <1>6 DEF CheckPasses
  <2>2. /\ pc[r] = "checking" /\ phase # "down"
        /\ UNCHANGED <<db, call, waitTill, bootQueue, phase>>
    BY <1>6 DEF CheckPasses
  <2> QED BY <2>1, <2>2, MoveKeeps DEF EnteredStates, LiveStates
<1>7. CASE SetRunning(r)
  BY <1>7, WriteKeeps DEF SetRunning, EnteredStates, LiveStates, Status
<1>8. CASE Launch(r)
  BY <1>8, MoveKeeps DEF Launch, EnteredStates, LiveStates
<1>9. CASE PutExecutionToWait(r)
  BY <1>9, MoveKeeps DEF PutExecutionToWait, EnteredStates, LiveStates
<1>10. CASE EndEngine(r)
  <2>1. PICK o \in DOMAIN SavingState : EngineEnds(r, o)
    BY <1>10 DEF EndEngine
  <2>2. o \in {"success", "error", "waiting", "canceled"}
    BY DEF SavingState
  <2> DEFINE x == IF r \in cancelled THEN "saved" ELSE SavingState[o]
  <2>5. x \in {"saved", "saving-success", "saving-error", "saving-waiting",
               "saving-canceled"}
    BY <2>2 DEF SavingState
  <2>3. pc' = [pc EXCEPT ![r] = x]
    BY <2>1 DEF EngineEnds
  <2> HIDE DEF x
  <2>4. /\ pc[r] \in {"executing", "waitRequested"} /\ phase # "down"
        /\ UNCHANGED <<db, call, waitTill, bootQueue, phase>>
    BY <2>1 DEF EngineEnds
  <2> QED BY <2>3, <2>4, <2>5, MoveKeeps DEF EnteredStates, LiveStates
<1>11. CASE Save(r)
  <2>1. PICK o \in DOMAIN SavingState : SaveResult(r, o)
    BY <1>11 DEF Save
  <2>2. o \in {"success", "error", "waiting", "canceled"}
    BY DEF SavingState
  <2>3. /\ pc[r] \in LiveStates /\ phase # "down"
        /\ UNCHANGED <<call, bootQueue, phase>>
        /\ pc' = [pc EXCEPT ![r] = "saved"]
        /\ db' = [db EXCEPT ![ExecutionOf(r)] = o]
        /\ waitTill' \in SUBSET (waitTill \cup {ExecutionOf(r)})
    BY <2>1, <2>2 DEF SaveResult, SavingState, LiveStates
  <2>4. "saved" \in EnteredStates \ LiveStates /\ o \in Status \ {"none", "new"}
    BY <2>2 DEF EnteredStates, LiveStates, Status
  <2> QED BY <2>3, <2>4, WriteKeeps
<1>12. CASE EngineResolves(r)
  BY <1>12, MoveKeeps DEF EngineResolves, EnteredStates, LiveStates
<1> QED BY <1>1, <1>2, <1>3, <1>4, <1>5, <1>6, <1>7, <1>8, <1>9, <1>10, <1>11,
           <1>12 DEF RunStep

(* Every step keeps what the status column says of the runs. *)
LEMMA StatusNext == StatusInv /\ [Next]_vars => StatusInv'
<1> SUFFICES ASSUME StatusInv, [Next]_vars PROVE StatusInv'
  OBVIOUS
<1>1. ASSUME UNCHANGED vars PROVE StatusInv'
  BY <1>1, CancelKeeps DEF vars, lifeVars
<1>2. ASSUME NEW r \in Runs, StartRun(r) PROVE StatusInv'
  BY <1>2, StartKeeps
<1>3. ASSUME NEW r \in Runs, RunStep(r) PROVE StatusInv'
  BY <1>3, RunKeeps
<1>4. ASSUME NEW r \in Runs, SaveCanceled(r) PROVE StatusInv'
  <2>1. CASE ExecutionOf(r) \in Executions
    BY <1>4, <2>1, CancelKeeps DEF SaveCanceled
  <2>2. CASE ExecutionOf(r) \notin Executions
    <3>1. db' = db
      BY <1>4, <2>2 DEF SaveCanceled, StatusInv, StatusTypes
    <3> QED BY <1>4, <3>1, CancelKeeps DEF SaveCanceled
  <2> QED BY <2>1, <2>2
<1>5. ASSUME NEW r \in Runs, TimeoutFires(r) PROVE StatusInv'
  BY <1>5, CancelKeeps DEF TimeoutFires
<1>6. ASSUME NEW e \in Executions, StopStep(e) PROVE StatusInv'
  <2>1. CASE StopRead(e)
    BY <2>1, CancelKeeps DEF StopRead
  <2>2. CASE StopApply(e)
    BY <2>2, CancelKeeps DEF StopApply
  <2>3. CASE StopSave(e)
    BY <2>3, CancelKeeps DEF StopSave
  <2> QED BY <1>6, <2>1, <2>2, <2>3 DEF StopStep
<1>7. ASSUME Shutdown PROVE StatusInv'
  BY <1>7, CancelKeeps DEF Shutdown
<1>8. ASSUME Exit \/ Crash \/ Boot PROVE StatusInv'
  BY <1>8, DownKeeps DEF Exit, Crash
<1> QED BY <1>1, <1>2, <1>3, <1>4, <1>5, <1>6, <1>7, <1>8 DEF Next

(* Only a cancellation overwrites what was saved as final. *)
LEMMA FinalStep ==
    ASSUME StatusInv, [Next]_vars, NEW e \in Executions,
           db[e] \in {"success", "error", "crashed"}, db'[e] # db[e]
    PROVE  db'[e] = "canceled"
<1> USE DEF Live, Starting, ExecutionOf
<1>0. db \in [Executions -> Status]
  BY DEF StatusInv, StatusTypes
<1>1. CASE UNCHANGED vars
  BY <1>1 DEF vars, lifeVars
<1>2. ASSUME NEW r \in Runs, StartRun(r) PROVE FALSE
  BY <1>0, <1>2 DEF StartRun, CreateExecution, BeginResume, RunEnqueued
<1>3. ASSUME NEW r \in Runs, MarkNewRunning(r) PROVE FALSE
  BY <1>0, <1>3 DEF MarkNewRunning, Admitted, StatusInv
<1>4. ASSUME NEW r \in Runs, MarkExistingRunning(r) PROVE FALSE
  BY <1>0, <1>4 DEF MarkExistingRunning
<1>5. ASSUME NEW r \in Runs, CheckFails(r) \/ SetRunning(r) \/ Save(r) PROVE FALSE
  <2>1. PICK st : db' = [db EXCEPT ![ExecutionOf(r)] = st]
    BY <1>5 DEF CheckFails, SetRunning, Save, SaveResult
  <2>2. Live(r)
    <3>1. \A o \in DOMAIN SavingState : SavingState[o] \in LiveStates
      BY DEF SavingState, LiveStates
    <3> QED BY <1>5, <3>1 DEF CheckFails, SetRunning, Save, SaveResult, LiveStates
  <2> QED BY <1>0, <2>1, <2>2 DEF StatusInv
<1>6. ASSUME NEW r \in Runs,
             \/ CallThrottle(r) \/ Activate(r) \/ FinalizeFailedCheck(r)
             \/ CheckPasses(r) \/ Launch(r) \/ PutExecutionToWait(r)
             \/ EndEngine(r) \/ EngineResolves(r) \/ TimeoutFires(r)
      PROVE  FALSE
  BY <1>6 DEF CallThrottle, Activate, FinalizeFailedCheck, CheckPasses, Launch,
              PutExecutionToWait, EndEngine, EngineEnds, EngineResolves, TimeoutFires
<1>7. CASE \E r \in Runs : SaveCanceled(r)
  BY <1>0, <1>7 DEF SaveCanceled
<1>8. CASE \E f \in Executions : StopStep(f)
  BY <1>0, <1>8 DEF StopStep, StopRead, StopApply, StopSave
<1>9. CASE Shutdown \/ Exit \/ Crash \/ Boot
  BY <1>0, <1>9 DEF Shutdown, Exit, Crash, GoDown, Boot
<1> QED BY <1>1, <1>2, <1>3, <1>4, <1>5, <1>6, <1>7, <1>8, <1>9 DEF Next, RunStep

(* No two engines run one execution at once, however runs, resumptions, stops,
   timeouts, shutdowns and crashes interleave.                                *)
THEOREM SingleEngineHolds == Spec => []SingleEngine
<1>1. StatusInv => SingleEngine
  <2> SUFFICES ASSUME StatusInv, NEW r \in Runs, NEW s \in Runs, r # s,
                      InLoop(r), InLoop(s), ExecutionOf(r) = ExecutionOf(s)
               PROVE  FALSE
    BY DEF SingleEngine
  <2>1. Live(r) /\ Live(s)
    BY DEF Live, InLoop, LiveStates
  <2> QED BY <2>1 DEF StatusInv, SameExecution
<1> QED BY <1>1, StatusInit, StatusNext, PTL DEF Spec

(* What was saved as succeeded, failed or crashed is only overwritten by a
   cancellation, in every interleaving and across restarts.                   *)
THEOREM FinalStatusHolds == Spec => FinalStatusStays
<1>1. StatusInv /\ [Next]_vars =>
        [\A e \in Executions :
           db[e] \in {"success", "error", "crashed"} /\ db'[e] # db[e]
              => db'[e] = "canceled"]_vars
  BY FinalStep
<1> QED BY <1>1, StatusInit, StatusNext, PTL DEF Spec, FinalStatusStays

-----------------------------------------------------------------------------
(* The lifecycle as a caller of the concurrency control. *)

\* A step of the service adds at most the runs R to a queue, and takes their
\* slots from at most the runs X; who leaves a queue gets a slot or is dropped.
Shifts(R, X) ==
    /\ isEnabled' = isEnabled
    /\ \A t \in Limited :
         /\ Queued(t)' \subseteq Queued(t) \cup R
         /\ granted'[t] \subseteq granted[t] \cup Queued(t) \cup R
         /\ dropped'[t] \subseteq dropped[t] \cup Queued(t)
         /\ granted[t] \ X \subseteq granted'[t]

(* Nothing moves when the service is not called. *)
LEMMA ShiftsNone == UNCHANGED ccVars => Shifts({}, {})
BY DEF ccVars, Shifts, Queued

(* What resolveNext() leaves in a queue was there, as was what it resolves. *)
LEMMA ResolveNextMoves ==
    ASSUME NEW q \in Seq(Item)
    PROVE  /\ RunsOf(ResolveNext(q)[1]) \subseteq RunsOf(q)
           /\ ResolveNext(q)[2] \subseteq RunsOf(q)
<1>1. CASE q = << >>
  BY <1>1 DEF ResolveNext, RunsOf
<1>2. CASE q # << >>
  <2>1. /\ Len(Tail(q)) = Len(q) - 1 /\ Len(q) \in Nat /\ Len(q) > 0
        /\ \A i \in 1..Len(Tail(q)) : Tail(q)[i] = q[i + 1]
        /\ Head(q) = q[1]
    BY <1>2, HeadTailProperties
  <2>2. RunsOf(Tail(q)) \subseteq RunsOf(q)
    BY <2>1 DEF RunsOf
  <2>3. Head(q).run \in RunsOf(q)
    BY <2>1 DEF RunsOf
  <2> QED BY <1>2, <2>2, <2>3 DEF ResolveNext
<1> QED BY <1>1, <1>2

(* throttle() of run r. *)
LEMMA ThrottleShifts ==
    ASSUME IInv, NEW e \in Executions, NEW r \in Runs, Throttle(e, r)
    PROVE  /\ Shifts({r}, {})
           /\ \A t \in Limited \ QueuesOf(e) :
                 Queued(t)' = Queued(t) /\ granted'[t] = granted[t]
<1>1. CASE ~isEnabled \/ IsUnlimited(e)
  BY <1>1 DEF Throttle, ccVars, Shifts, Queued
<1>2. CASE ~(~isEnabled \/ IsUnlimited(e))
  <2>1. PICK t \in QueuesOf(e) : Enqueue(t, e, r)
    BY <1>2 DEF Throttle
  <2>2. t \in Limited
    BY DEF QueuesOf
  <2> DEFINE it == [executionId |-> e, run |-> r]
  <2>3. it \in Item /\ it.run = r /\ queue[t] \in Seq(Item)
    BY <2>2 DEF Item, IInv, CCTypeOK
  <2>4. RunsOf(Append(queue[t], it)) \subseteq RunsOf(queue[t]) \cup {r}
    <3>1. /\ Len(Append(queue[t], it)) = Len(queue[t]) + 1
          /\ \A i \in 1..Len(queue[t]) : Append(queue[t], it)[i] = queue[t][i]
          /\ Append(queue[t], it)[Len(queue[t]) + 1] = it
          /\ Len(queue[t]) \in Nat
      BY <2>3, AppendProperties
    <3> QED BY <2>3, <3>1 DEF RunsOf
  <2>5. /\ isEnabled' = isEnabled /\ dropped' = dropped
        /\ queue'[t] \in {queue[t], Append(queue[t], it)}
        /\ granted'[t] \in {granted[t], granted[t] \cup {r}}
        /\ \A u \in Limited : u # t =>
              queue'[u] = queue[u] /\ granted'[u] = granted[u]
    BY <2>1, <2>2 DEF Enqueue, IInv, CCTypeOK
  <2>6. RunsOf(queue'[t]) \subseteq RunsOf(queue[t]) \cup {r}
    BY <2>4, <2>5
  <2>7. \A u \in Limited : Queued(u) = RunsOf(queue[u]) /\ Queued(u)' = RunsOf(queue'[u])
    BY DEF Queued, RunsOf
  <2> QED BY <2>1, <2>2, <2>5, <2>6, <2>7 DEF Shifts
<1> QED BY <1>1, <1>2

(* release() by run x, whose slot is gone afterwards. *)
LEMMA ReleaseShifts ==
    ASSUME IInv, NEW e \in Executions, NEW x \in Runs,
           isEnabled => MayRelease(e, x), Release(e, x)
    PROVE  /\ Shifts({}, {x})
           /\ isEnabled => \A t \in QueuesOf(e) : x \notin granted'[t]
<1>1. CASE ~isEnabled \/ IsUnlimited(e)
  BY <1>1 DEF Release, ccVars, Shifts, Queued, IsUnlimited
<1>2. CASE ~(~isEnabled \/ IsUnlimited(e))
  <2>1. PICK t \in QueuesOf(e) : Dequeue(t, x)
    BY <1>2 DEF Release
  <2>2. t \in Limited /\ \A u \in QueuesOf(e) : u = t
    BY DEF QueuesOf, ProductionModes
  <2> DEFINE n == ResolveNext(queue[t])
  <2>3. /\ queue[t] \in Seq(Item) /\ x \in granted[t]
        /\ x \notin RunsOf(queue[t])
    BY <1>2, <2>1, <2>2 DEF IInv, CCTypeOK, QueueInv, RunsOf, MayRelease
  <2>4. RunsOf(n[1]) \subseteq RunsOf(queue[t]) /\ n[2] \subseteq RunsOf(queue[t])
    BY <2>3, ResolveNextMoves
  <2>5. /\ isEnabled' = isEnabled /\ dropped' = dropped
        /\ queue'[t] = n[1] /\ granted'[t] = (granted[t] \ {x}) \cup n[2]
        /\ \A u \in Limited : u # t =>
              queue'[u] = queue[u] /\ granted'[u] = granted[u]
    BY <2>1, <2>2 DEF Dequeue, IInv, CCTypeOK
  <2> HIDE DEF n
  <2>7. \A u \in Limited : Queued(u) = RunsOf(queue[u]) /\ Queued(u)' = RunsOf(queue'[u])
    BY DEF Queued, RunsOf
  <2>8. Shifts({}, {x})
    BY <2>2, <2>4, <2>5, <2>7 DEF Shifts
  <2> QED BY <2>2, <2>3, <2>4, <2>5, <2>8
<1> QED BY <1>1, <1>2

(* remove() of the queued run of execution e. *)
LEMMA RemoveShifts ==
    ASSUME IInv, NEW e \in Executions, Remove(e)
    PROVE  Shifts({}, {})
<1>1. CASE UNCHANGED ccVars
  BY <1>1, ShiftsNone
<1>2. ASSUME NEW t \in QueuesOf(e), NEW i \in 1..Len(queue[t]), RemoveAt(t, i)
      PROVE  Shifts({}, {})
  <2>1. t \in Limited
    BY DEF QueuesOf
  <2> DEFINE p == Without(queue[t], i)
             n == ResolveNext(p)
  <2>2. queue[t] \in Seq(Item)
    BY <2>1 DEF IInv, CCTypeOK
  <2>3. /\ p \in Seq(Item) /\ Len(p) = Len(queue[t]) - 1
        /\ \A j \in 1..(Len(queue[t]) - 1) :
              p[j] = IF j < i THEN queue[t][j] ELSE queue[t][j + 1]
    BY <2>2, WithoutProperties
  <2> HIDE DEF p
  <2>4. RunsOf(p) \subseteq RunsOf(queue[t])
    <3> DEFINE l == Len(queue[t])
    <3>1. l \in Nat
      BY <2>2
    <3>2. /\ Len(p) = l - 1 /\ i \in 1..l
          /\ \A j \in 1..(l - 1) : p[j] = IF j < i THEN queue[t][j] ELSE queue[t][j + 1]
      BY <2>3
    <3>3. RunsOf(queue[t]) = {queue[t][j].run : j \in 1..l}
      BY DEF RunsOf
    <3> HIDE DEF l
    <3>4. ASSUME NEW j \in 1..Len(p) PROVE p[j].run \in RunsOf(queue[t])
      <4>1. j \in 1..l /\ j + 1 \in 1..l /\ j \in 1..(l - 1)
        BY <3>1, <3>2
      <4> QED BY <3>2, <3>3, <4>1
    <3> QED BY <3>4 DEF RunsOf
  <2>5. RunsOf(n[1]) \subseteq RunsOf(p) /\ n[2] \subseteq RunsOf(p)
    BY <2>3, ResolveNextMoves
  <2>6. /\ isEnabled' = isEnabled
        /\ dropped'[t] = dropped[t] \cup {queue[t][i].run}
        /\ queue'[t] = n[1] /\ granted'[t] = granted[t] \cup n[2]
        /\ \A u \in Limited : u # t =>
              /\ queue'[u] = queue[u] /\ granted'[u] = granted[u]
              /\ dropped'[u] = dropped[u]
    BY <1>2, <2>1 DEF RemoveAt, IInv, CCTypeOK, p
  <2> HIDE DEF n
  <2>7. queue[t][i].run \in RunsOf(queue[t])
    BY DEF RunsOf
  <2>8. \A u \in Limited : Queued(u) = RunsOf(queue[u]) /\ Queued(u)' = RunsOf(queue'[u])
    BY DEF Queued, RunsOf
  <2> QED BY <2>1, <2>4, <2>5, <2>6, <2>7, <2>8 DEF Shifts
<1> QED BY <1>1, <1>2 DEF Remove

\* Entries are settled once, and then wait or go; X are those settled.
EntriesKeep(X) ==
    /\ active' \in [Executions -> Runs \cup {None}]
    /\ entry' \in [Runs -> Entry]
    /\ \A e \in Executions : active'[e] # None =>
         /\ active'[e] = active[e]
         /\ entry'[active[e]].settled =>
               entry[active[e]].settled \/ entry'[active[e]].status = "waiting"
         /\ entry[active[e]].settled => entry'[active[e]].settled
         /\ entry[active[e]].status = "waiting" => entry'[active[e]].status = "waiting"
         /\ active[e] \in X => entry'[active[e]].settled

\* Runs do not go back, and none is let through.
RunsKeep ==
    /\ \A r \in Runs : pc'[r] \in {"idle", "called"} => pc[r] \in {"idle", "called"}
    /\ \A r \in Runs : pc'[r] \in {"admitted", "marked"} =>
         pc'[r] = pc[r] /\ call'[r] = call[r]
    /\ \A r \in Runs : Entered(r) => pc'[r] \in EnteredStates /\ call'[r] = call[r]
    /\ timers' \in SUBSET Runs /\ \A r \in timers' : pc'[r] \in EnteredStates

(* What a step must see to besides the service: entries settle once, only the
   slots of settled entries go, and runs do not go back.                      *)
LEMMA CallerKeeps ==
    ASSUME CallerInv, IInv', NEW R, NEW X, Shifts(R, X),
           active' \in [Executions -> Runs \cup {None}],
           entry' \in [Runs -> Entry],
           \A e \in Executions : active'[e] # None =>
              \/ /\ active'[e] = active[e]
                 /\ entry'[active[e]].settled =>
                       entry[active[e]].settled \/ entry'[active[e]].status = "waiting"
                 /\ entry[active[e]].settled => entry'[active[e]].settled
                 /\ entry[active[e]].status = "waiting" =>
                       entry'[active[e]].status = "waiting"
                 /\ active[e] \in X => entry'[active[e]].settled
              \/ /\ call'[active'[e]].execution = e /\ pc'[active'[e]] \in EnteredStates
                 /\ ~entry'[active'[e]].settled
                 /\ isEnabled' => (\A t \in QueuesOf(e) : active'[e] \in granted'[t]),
           \A r \in Runs : pc'[r] \in {"idle", "called"} =>
              pc[r] \in {"idle", "called"} /\ r \notin R,
           \A r \in Runs : pc'[r] = "admitted" =>
              \/ pc[r] = "admitted" /\ call'[r] = call[r]
              \/ ~isEnabled' \/ IsUnlimited(ExecutionOf(r))',
           \A r \in Runs : Entered(r) => Entered(r)' /\ call'[r] = call[r],
           \A r \in Runs : pc'[r] = "marked" =>
              \/ pc[r] = "marked" /\ call'[r] = call[r] /\ r \notin X
              \/ isEnabled' => MayRelease(ExecutionOf(r), r)',
           timers' \in SUBSET Runs, \A r \in timers' : Entered(r)'
    PROVE  CallerInv'
<1>1. \A e \in Executions, r \in Runs : MayRelease(e, r) /\ r \notin X => MayRelease(e, r)'
  BY DEF MayRelease, Shifts, QueuesOf
<1>2. \A r \in Runs : Unknown(r) /\ r \notin R => Unknown(r)'
  BY DEF Unknown, Shifts
<1>3. \A r \in Runs : pc'[r] \in {"idle", "called"} => Unknown(r)'
  BY <1>2 DEF CallerInv
<1>4. \A r \in Runs : pc'[r] = "admitted" => ~isEnabled' \/ IsUnlimited(ExecutionOf(r))'
  BY DEF CallerInv, Shifts, ExecutionOf
<1>5. ASSUME NEW e \in Executions, active'[e] # None
      PROVE  /\ call'[active'[e]].execution = e /\ pc'[active'[e]] \in EnteredStates
             /\ ~Unsettled(e)' => entry'[active'[e]].status = "waiting"
             /\ isEnabled' => (Unsettled(e)' => (\A t \in QueuesOf(e) : active'[e] \in granted'[t]))
  <2>1. CASE active'[e] = active[e] /\ active[e] \in Runs
    <3>1. /\ ExecutionOf(active[e]) = e /\ Entered(active[e])
          /\ entry[active[e]].settled => entry[active[e]].status = "waiting"
          /\ isEnabled => (~entry[active[e]].settled => MayRelease(e, active[e]))
      BY <1>5, <2>1 DEF CallerInv, Unsettled
    <3>2. isEnabled' = isEnabled
      BY DEF Shifts
    <3>3. CASE /\ call'[active'[e]].execution = e /\ pc'[active'[e]] \in EnteredStates
               /\ ~entry'[active'[e]].settled
               /\ isEnabled' => (\A t \in QueuesOf(e) : active'[e] \in granted'[t])
      BY <3>3, <1>5 DEF Unsettled, MayRelease
    <3>4. CASE /\ entry'[active[e]].settled =>
                     entry[active[e]].settled \/ entry'[active[e]].status = "waiting"
               /\ entry[active[e]].settled => entry'[active[e]].settled
               /\ entry[active[e]].status = "waiting" =>
                     entry'[active[e]].status = "waiting"
               /\ active[e] \in X => entry'[active[e]].settled
      <4>1. call'[active'[e]].execution = e /\ pc'[active'[e]] \in EnteredStates
        BY <2>1, <3>1 DEF ExecutionOf, Entered
      <4>2. ~Unsettled(e)' => entry'[active'[e]].status = "waiting"
        BY <1>5, <2>1, <3>1, <3>4 DEF Unsettled, MayRelease
      <4>3. isEnabled' => (Unsettled(e)' => (\A t \in QueuesOf(e) : active'[e] \in granted'[t]))
        BY <1>1, <1>5, <2>1, <3>1, <3>2, <3>4 DEF Unsettled, MayRelease
      <4> QED BY <4>1, <4>2, <4>3
    <3> QED BY <1>5, <2>1, <3>3, <3>4
  <2>2. CASE /\ call'[active'[e]].execution = e /\ pc'[active'[e]] \in EnteredStates
             /\ ~entry'[active'[e]].settled
             /\ isEnabled' => (\A t \in QueuesOf(e) : active'[e] \in granted'[t])
    BY <2>2, <1>5 DEF Unsettled, MayRelease
  <2>3. active'[e] \in Runs
    BY <1>5
  <2> QED BY <1>5, <2>1, <2>2, <2>3
<1>6. isEnabled' => \A r \in Runs : pc'[r] = "marked" => MayRelease(ExecutionOf(r), r)'
  <2> SUFFICES ASSUME isEnabled', NEW r \in Runs, pc'[r] = "marked"
               PROVE  MayRelease(ExecutionOf(r), r)'
    OBVIOUS
  <2>1. CASE pc[r] = "marked" /\ call'[r] = call[r] /\ r \notin X
    <3>1. isEnabled /\ MayRelease(ExecutionOf(r), r)
      BY <2>1 DEF CallerInv, Shifts
    <3> QED BY <3>1, <2>1 DEF MayRelease, Shifts, QueuesOf, ExecutionOf
  <2> QED BY <2>1
<1>7. \A e \in Executions : Unsettled(e)' => active'[e] # None
  BY DEF Unsettled, MayRelease
<1> QED BY <1>3, <1>4, <1>5, <1>6, <1>7 DEF CallerInv, ExecutionOf, Entered, Unsettled, MayRelease

(* The usual step: no run throttles, is marked or puts its entry. *)
LEMMA StepKeeps ==
    ASSUME CallerInv, [CCNext]_ccVars, NEW X, \A x \in X : Entered(x),
           Shifts({}, X), EntriesKeep(X), RunsKeep
    PROVE  CallerInv'
<1>1. IInv'
  BY NextIInv DEF CallerInv
<1>2. \A r \in X : pc[r] # "marked"
  BY DEF Entered, EnteredStates
<1> DEFINE R == {}
<1>3. Shifts(R, X)
  OBVIOUS
<1>4. \A r \in Runs : pc'[r] \in {"idle", "called"} =>
          pc[r] \in {"idle", "called"} /\ r \notin R
  BY DEF RunsKeep
<1>5. \A r \in Runs : pc'[r] = "admitted" =>
          \/ pc[r] = "admitted" /\ call'[r] = call[r]
          \/ ~isEnabled' \/ IsUnlimited(ExecutionOf(r))'
  BY DEF RunsKeep
<1>6. \A r \in Runs : pc'[r] = "marked" =>
          \/ pc[r] = "marked" /\ call'[r] = call[r] /\ r \notin X
          \/ isEnabled' => MayRelease(ExecutionOf(r), r)'
  BY <1>2 DEF RunsKeep
<1>7. /\ timers' \in SUBSET Runs /\ \A r \in timers' : Entered(r)'
      /\ \A r \in Runs : Entered(r) => Entered(r)' /\ call'[r] = call[r]
  BY DEF RunsKeep, Entered
<1> HIDE DEF R
<1> QED BY <1>1, <1>3, <1>4, <1>5, <1>6, <1>7, CallerKeeps DEF EntriesKeep

(* Entries that are not touched. *)
LEMMA SameEntries ==
    CallerInv /\ UNCHANGED <<active, entry>> => EntriesKeep({})
BY DEF CallerInv, EntriesKeep

(* Runs that are not touched, and a run that moves on after it put its entry. *)
LEMMA SameRuns ==
    CallerInv /\ UNCHANGED <<pc, call>> /\ timers' \in SUBSET timers => RunsKeep
BY DEF CallerInv, RunsKeep, Entered

LEMMA RunMoves ==
    ASSUME CallerInv, StatusInv, NEW r \in Runs, Entered(r), NEW x \in EnteredStates,
           pc' = [pc EXCEPT ![r] = x], call' = call,
           timers' \in SUBSET (timers \cup {r})
    PROVE  RunsKeep
<1>1. /\ pc'[r] = x /\ \A s \in Runs : s # r => pc'[s] = pc[s]
  BY DEF StatusInv, StatusTypes
<1>2. x \notin {"idle", "called", "admitted", "marked"}
  BY DEF EnteredStates, LiveStates
<1> QED BY <1>1, <1>2 DEF RunsKeep, CallerInv, Entered

(* finalizeExecution() releases for a run that holds a slot. *)
LEMMA FinalizeCalls ==
    ASSUME CallerInv, NEW e \in Executions, Finalize(e)
    PROVE  /\ [CCNext]_ccVars
           /\ \E X \in SUBSET Runs :
                /\ \A x \in X : Entered(x)
                /\ Shifts({}, X) /\ EntriesKeep(X)
<1>1. CASE active[e] = None \/ entry[active[e]].settled
  <2>1. UNCHANGED <<ccVars, active, entry>>
    BY <1>1 DEF Finalize
  <2> QED BY <2>1, ShiftsNone, SameEntries
<1>2. CASE ~(active[e] = None \/ entry[active[e]].settled)
  <2> DEFINE x == active[e]
  <2>1. /\ x \in Runs /\ Entered(x) /\ ExecutionOf(x) = e
        /\ isEnabled => MayRelease(e, x)
        /\ entry \in [Runs -> Entry] /\ entry[x] \in Entry
        /\ active \in [Executions -> Runs \cup {None}]
    BY <1>2 DEF CallerInv, Unsettled
  <2>2. Release(e, x)
    BY <1>2 DEF Finalize
  <2>3. CCNext
    BY <2>1, <2>2 DEF CCNext
  <2>4. Shifts({}, {x})
    BY <2>1, <2>2, ReleaseShifts DEF CallerInv
  <2>5. \A f \in Executions : f # e /\ active[f] # None => active[f] # x
    BY <2>1 DEF CallerInv
  <2>6. EntriesKeep({x})
    <3>1. CASE entry[x].status = "waiting"
      <4>1. /\ active' = active
            /\ entry' = [entry EXCEPT ![x].settled = TRUE, ![x].workflow = None]
        BY <1>2, <3>1 DEF Finalize
      <4>2. entry' = [entry EXCEPT ![x] = [[@ EXCEPT !.settled = TRUE]
                                              EXCEPT !.workflow = None]]
        BY <4>1
      <4>3. \A a \in Entry :
               LET b == [[a EXCEPT !.settled = TRUE] EXCEPT !.workflow = None]
               IN  b \in Entry /\ b.settled /\ b.status = a.status
        BY DEF Entry
      <4>4. /\ entry' \in [Runs -> Entry]
            /\ entry'[x].settled /\ entry'[x].status = "waiting"
            /\ \A s \in Runs : s # x => entry'[s] = entry[s]
        BY <2>1, <3>1, <4>2, <4>3
      <4> QED BY <2>1, <4>1, <4>4 DEF EntriesKeep
    <3>2. CASE entry[x].status # "waiting"
      <4>1. /\ active' = [active EXCEPT ![e] = None]
            /\ entry' = [entry EXCEPT ![x].settled = TRUE]
        BY <1>2, <3>2 DEF Finalize
      <4>2. entry' = [entry EXCEPT ![x] = [@ EXCEPT !.settled = TRUE]]
        BY <4>1
      <4>3. \A a \in Entry : [a EXCEPT !.settled = TRUE] \in Entry
        BY DEF Entry
      <4>4. /\ entry' \in [Runs -> Entry]
            /\ \A s \in Runs : s # x => entry'[s] = entry[s]
            /\ active' \in [Executions -> Runs \cup {None}]
            /\ active'[e] = None
            /\ \A f \in Executions : f # e => active'[f] = active[f]
        BY <2>1, <4>1, <4>2, <4>3
      <4> QED BY <2>1, <2>5, <4>4 DEF EntriesKeep
    <3> QED BY <3>1, <3>2
  <2> QED BY <2>1, <2>3, <2>4, <2>6
<1> QED BY <1>1, <1>2

(* stopExecution() rejects a promise, and so releases, only for a run that
   holds a slot.                                                              *)
LEMMA StopCalls ==
    ASSUME CallerInv, NEW e \in Executions, StopExecution(e)
    PROVE  /\ [CCNext]_ccVars
           /\ \E X \in SUBSET Runs :
                /\ \A x \in X : Entered(x)
                /\ Shifts({}, X) /\ EntriesKeep(X)
<1> DEFINE x == active[e]
<1>1. /\ entry \in [Runs -> Entry]
      /\ active \in [Executions -> Runs \cup {None}]
      /\ active' = [active EXCEPT ![e] = None]
      /\ entry' = [s \in Runs |-> IF s \in ToReject({e})
                                  THEN [entry[s] EXCEPT !.settled = TRUE]
                                  ELSE entry[s]]
  BY DEF CallerInv, StopExecution, StopEntries
<1>2. \A a \in Entry : [a EXCEPT !.settled = TRUE] \in Entry
  BY DEF Entry
<1>3. /\ active' \in [Executions -> Runs \cup {None}] /\ active'[e] = None
      /\ \A f \in Executions : f # e => active'[f] = active[f]
      /\ entry' \in [Runs -> Entry]
      /\ \A s \in Runs : s \notin ToReject({e}) => entry'[s] = entry[s]
  BY <1>1, <1>2
<1>4. ToReject({e}) \in SUBSET {x}
  BY DEF ToReject
<1>5. \A f \in Executions : f # e /\ active[f] # None => active[f] # x
  BY DEF CallerInv
<1>6. CASE ToReject({e}) = {}
  <2>1. UNCHANGED ccVars
    BY <1>6 DEF StopExecution
  <2>2. EntriesKeep({})
    BY <1>3, <1>6 DEF EntriesKeep
  <2> QED BY <2>1, <2>2, ShiftsNone
<1>7. CASE ToReject({e}) # {}
  <2>1. x # None /\ entry[x].status # "waiting" /\ Release(e, x)
    BY <1>7 DEF ToReject, StopExecution
  <2>2. /\ x \in Runs /\ Entered(x)
        /\ isEnabled => MayRelease(e, x)
    BY <2>1, <1>1 DEF CallerInv, Unsettled
  <2>3. CCNext
    BY <2>1, <2>2 DEF CCNext
  <2>4. Shifts({}, {x})
    BY <2>1, <2>2, ReleaseShifts DEF CallerInv
  <2>5. EntriesKeep({x})
    BY <1>3, <1>4, <1>5 DEF EntriesKeep
  <2> QED BY <2>2, <2>3, <2>4, <2>5
<1> QED BY <1>6, <1>7

\* A step keeps the contract of CCSpec and the invariant that shows it does.
CallerStep == [CCNext]_ccVars /\ CallerInv'

(* Starting a run calls nothing yet. *)
LEMMA CallerStart ==
    ASSUME CallerInv, StatusInv, NEW r \in Runs, StartRun(r)
    PROVE  CallerStep
<1>1. /\ pc[r] = "idle" /\ pc' = [pc EXCEPT ![r] = "called"]
      /\ UNCHANGED <<ccVars, active, entry, timers>>
      /\ \A s \in Runs : s # r => call'[s] = call[s]
  BY DEF StartRun, CreateExecution, BeginResume, RunEnqueued, Goto, StatusInv, StatusTypes
<1>2. /\ pc'[r] = "called" /\ ~Entered(r)
      /\ \A s \in Runs : s # r => pc'[s] = pc[s]
  BY <1>1 DEF StatusInv, StatusTypes, Entered, EnteredStates, LiveStates
<1>3. RunsKeep
  BY <1>1, <1>2 DEF RunsKeep, CallerInv, Entered
<1>4. EntriesKeep({}) /\ Shifts({}, {}) /\ [CCNext]_ccVars
  BY <1>1, SameEntries, ShiftsNone
<1> QED BY <1>3, <1>4, StepKeeps DEF CallerStep

(* throttle() is called by a run the service does not know. *)
LEMMA CallerThrottles ==
    ASSUME CallerInv, StatusInv, NEW r \in Runs, CallThrottle(r)
    PROVE  CallerStep
<1> DEFINE e == ExecutionOf(r)
           x == IF ~isEnabled \/ IsUnlimited(e) THEN "admitted" ELSE "throttled"
<1>1. /\ pc[r] = "called" /\ Throttle(e, r) /\ pc' = [pc EXCEPT ![r] = x]
      /\ UNCHANGED <<call, active, entry, timers>>
  BY DEF CallThrottle, Goto
<1>2. e \in Executions /\ Unknown(r)
  BY <1>1 DEF StatusInv, Call, Gone, ExecutionOf, CallerInv
<1>3. [CCNext]_ccVars
  BY <1>1, <1>2 DEF CCNext
<1>4. IInv'
  BY <1>3, NextIInv DEF CallerInv
<1>5. Shifts({r}, {})
  BY <1>1, <1>2, ThrottleShifts DEF CallerInv
<1>6. /\ pc'[r] = x /\ ~Entered(r)
      /\ \A s \in Runs : s # r => pc'[s] = pc[s]
  BY <1>1 DEF StatusInv, StatusTypes, Entered, EnteredStates, LiveStates
<1>7. pc'[r] = "admitted" => ~isEnabled' \/ IsUnlimited(ExecutionOf(r))'
  BY <1>1, <1>5, <1>6 DEF Shifts, IsUnlimited, ExecutionOf, QueuesOf, Limited
<1>8. /\ active' \in [Executions -> Runs \cup {None}] /\ entry' \in [Runs -> Entry]
      /\ timers' \in SUBSET Runs
      /\ \A s \in Runs : Entered(s) => Entered(s)' /\ call'[s] = call[s]
      /\ \A s \in timers' : Entered(s)'
      /\ pc'[r] \notin {"idle", "called", "marked"}
  BY <1>1, <1>6 DEF CallerInv, Entered
<1>9. CallerInv'
  BY <1>1, <1>4, <1>5, <1>6, <1>7, <1>8, CallerKeeps
<1> QED BY <1>3, <1>9 DEF CallerStep

(* A run that throttle() let through has a slot, if slots are counted. *)
LEMMA CallerMarks ==
    ASSUME CallerInv, StatusInv, NEW r \in Runs,
           MarkNewRunning(r) \/ MarkExistingRunning(r)
    PROVE  CallerStep
<1>1. /\ Admitted(r) /\ pc[r] \in {"throttled", "admitted"}
      /\ UNCHANGED <<ccVars, call, active, entry, timers>>
  BY DEF MarkNewRunning, MarkExistingRunning, Admitted
<1>2. PICK x \in {"marked", "refused"} : pc' = [pc EXCEPT ![r] = x]
  BY DEF MarkNewRunning, MarkExistingRunning, Goto
<1>3. /\ pc'[r] = x /\ ~Entered(r)
      /\ \A s \in Runs : s # r => pc'[s] = pc[s]
  BY <1>1, <1>2 DEF StatusInv, StatusTypes, Entered, EnteredStates, LiveStates
<1>4. \A e \in Executions : \A t, u \in QueuesOf(e) : t = u
  BY DEF QueuesOf, ProductionModes
<1>5. ExecutionOf(r) \in Executions
  BY <1>1 DEF StatusInv, Call, Gone, ExecutionOf
<1>6. isEnabled => MayRelease(ExecutionOf(r), r)
  BY <1>1, <1>4, <1>5 DEF CallerInv, Admitted, MayRelease, IsUnlimited
<1>7. (isEnabled => MayRelease(ExecutionOf(r), r))'
  BY <1>1, <1>6 DEF ccVars, MayRelease, ExecutionOf, QueuesOf, Limited
<1>8. Shifts({}, {}) /\ IInv'
  BY <1>1, ShiftsNone, NextIInv DEF CallerInv
<1>9. /\ active' \in [Executions -> Runs \cup {None}] /\ entry' \in [Runs -> Entry]
      /\ timers' \in SUBSET Runs
      /\ \A s \in Runs : Entered(s) => Entered(s)' /\ call'[s] = call[s]
      /\ \A s \in timers' : Entered(s)'
      /\ pc'[r] \notin {"idle", "called", "admitted"}
  BY <1>1, <1>3 DEF CallerInv, Entered
<1>10. CallerInv'
  BY <1>1, <1>3, <1>7, <1>8, <1>9, CallerKeeps
<1> QED BY <1>1, <1>10 DEF CallerStep

(* The entry of a run that holds a slot replaces the one before. *)
LEMMA CallerActivates ==
    ASSUME CallerInv, StatusInv, NEW r \in Runs, Activate(r)
    PROVE  CallerStep
<1> DEFINE e == ExecutionOf(r)
           b == active[e] # None /\ entry[active[e]].response
           n == [NoEntry EXCEPT !.response = b]
<1>1. /\ pc[r] = "marked" /\ pc' = [pc EXCEPT ![r] = "checking"]
      /\ active' = [active EXCEPT ![e] = r] /\ entry' = [entry EXCEPT ![r] = n]
      /\ UNCHANGED <<ccVars, call, timers>>
  BY DEF Activate, Goto
<1>2. e \in Executions
  BY <1>1 DEF StatusInv, Call, Gone, ExecutionOf
<1>3. b \in BOOLEAN
  <2>1. CASE active[e] = None
    BY <2>1
  <2>2. CASE active[e] # None
    <3>1. entry[active[e]] \in Entry
      BY <1>2, <2>2 DEF CallerInv
    <3> QED BY <3>1, <2>2 DEF Entry
  <2> QED BY <2>1, <2>2
<1> HIDE DEF b
<1>4. n \in Entry /\ ~n.settled
  BY <1>3 DEF Entry, NoEntry
<1> HIDE DEF n
<1>5. /\ pc'[r] = "checking" /\ pc'[r] \in EnteredStates /\ ~Entered(r)
      /\ \A s \in Runs : s # r => pc'[s] = pc[s]
  BY <1>1 DEF StatusInv, StatusTypes, Entered, EnteredStates, LiveStates
<1>6. /\ active' \in [Executions -> Runs \cup {None}] /\ entry' \in [Runs -> Entry]
      /\ active'[e] = r /\ ~entry'[r].settled
      /\ \A f \in Executions : f # e => active'[f] = active[f]
      /\ \A s \in Runs : s # r => entry'[s] = entry[s]
  BY <1>1, <1>2, <1>4 DEF CallerInv
<1>7. \A f \in Executions : active[f] # None => active[f] # r /\ active[f] \in Runs
  BY <1>5 DEF CallerInv
<1>8. /\ call'[r].execution = e
      /\ isEnabled' => \A t \in QueuesOf(e) : r \in granted'[t]
  BY <1>1 DEF CallerInv, MayRelease, ExecutionOf, ccVars
<1>9. Shifts({}, {}) /\ IInv'
  BY <1>1, ShiftsNone, NextIInv DEF CallerInv
<1>10. /\ timers' \in SUBSET Runs
       /\ \A s \in Runs : Entered(s) => Entered(s)' /\ call'[s] = call[s]
       /\ \A s \in timers' : Entered(s)'
  BY <1>1, <1>5 DEF CallerInv, Entered
<1>11. \A f \in Executions : active'[f] # None =>
              \/ /\ active'[f] = active[f]
                 /\ entry'[active[f]] = entry[active[f]]
              \/ /\ call'[active'[f]].execution = f /\ pc'[active'[f]] \in EnteredStates
                 /\ ~entry'[active'[f]].settled
                 /\ isEnabled' => \A t \in QueuesOf(f) : active'[f] \in granted'[t]
  BY <1>5, <1>6, <1>7, <1>8
<1> HIDE DEF e
<1> DEFINE R == {}
<1>13. \A f \in Executions : active'[f] # None =>
              \/ /\ active'[f] = active[f]
                 /\ entry'[active[f]].settled =>
                       entry[active[f]].settled \/ entry'[active[f]].status = "waiting"
                 /\ entry[active[f]].settled => entry'[active[f]].settled
                 /\ entry[active[f]].status = "waiting" =>
                       entry'[active[f]].status = "waiting"
                 /\ active[f] \in R => entry'[active[f]].settled
              \/ /\ call'[active'[f]].execution = f /\ pc'[active'[f]] \in EnteredStates
                 /\ ~entry'[active'[f]].settled
                 /\ isEnabled' => \A t \in QueuesOf(f) : active'[f] \in granted'[t]
  BY <1>11
<1>14. /\ \A s \in Runs : pc'[s] \in {"idle", "called"} =>
              pc[s] \in {"idle", "called"} /\ s \notin R
       /\ \A s \in Runs : pc'[s] = "admitted" => pc[s] = "admitted" /\ call'[s] = call[s]
       /\ \A s \in Runs : pc'[s] = "marked" =>
              pc[s] = "marked" /\ call'[s] = call[s] /\ s \notin R
  BY <1>1, <1>5
<1>15. Shifts(R, R)
  BY <1>9
<1> HIDE DEF R
<1>12. CallerInv'
  BY <1>6, <1>9, <1>10, <1>13, <1>14, <1>15, CallerKeeps
<1> QED BY <1>1, <1>12 DEF CallerStep

(* A run that put its entry moves on without calling the service. *)
LEMMA CallerRuns ==
    ASSUME CallerInv, StatusInv, NEW r \in Runs,
           \/ CheckFails(r) \/ CheckPasses(r) \/ SetRunning(r) \/ Launch(r)
           \/ PutExecutionToWait(r) \/ EndEngine(r) \/ Save(r)
    PROVE  CallerStep
<1> DEFINE e == ExecutionOf(r)
<1>1. UNCHANGED <<ccVars, active, call>> /\ timers' \in SUBSET (timers \cup {r})
  BY DEF CheckFails, CheckPasses, SetRunning, Launch, PutExecutionToWait, EndEngine,
         EngineEnds, Save, SaveResult
<1>2. \A o \in DOMAIN SavingState : SavingState[o] \in EnteredStates
  BY DEF SavingState, EnteredStates, LiveStates
<1>3. Entered(r)
  BY <1>2 DEF CheckFails, CheckPasses, SetRunning, Launch, PutExecutionToWait, EndEngine,
              EngineEnds, Save, SaveResult, Entered, EnteredStates, LiveStates
<1>4. PICK x \in EnteredStates : pc' = [pc EXCEPT ![r] = x]
  <2>1. CASE EndEngine(r)
    <3>1. PICK o \in DOMAIN SavingState : EngineEnds(r, o)
      BY <2>1 DEF EndEngine
    <3>2. (IF r \in cancelled THEN "saved" ELSE SavingState[o]) \in EnteredStates
      BY <1>2 DEF EnteredStates
    <3> QED BY <3>1, <3>2 DEF EngineEnds, Goto
  <2>2. CASE ~EndEngine(r)
    BY <2>2 DEF CheckFails, CheckPasses, SetRunning, Launch, PutExecutionToWait, Save,
                SaveResult, Goto, EnteredStates, LiveStates
  <2> QED BY <2>1, <2>2
<1>5. e \in Executions /\ RunsKeep
  <2>1. ~Gone(r)
    BY <1>3 DEF Entered, EnteredStates, LiveStates, Gone
  <2>2. e \in Executions
    BY <2>1 DEF StatusInv, Call, ExecutionOf
  <2> QED BY <1>1, <1>3, <1>4, <2>2, RunMoves
<1>6. EntriesKeep({})
  <2>1. CASE entry' = entry
    BY <1>1, <2>1, SameEntries
  <2>2. CASE \E s \in Runs :
               \/ entry' = [entry EXCEPT ![s].response = TRUE]
               \/ entry' = [entry EXCEPT ![s].workflow = r]
               \/ entry' = [entry EXCEPT ![s].status = "waiting"]
    <3>1. PICK s \in Runs :
               \/ entry' = [entry EXCEPT ![s] = [@ EXCEPT !.response = TRUE]]
               \/ entry' = [entry EXCEPT ![s] = [@ EXCEPT !.workflow = r]]
               \/ entry' = [entry EXCEPT ![s] = [@ EXCEPT !.status = "waiting"]]
      BY <2>2
    <3>2. \A a \in Entry :
            /\ [a EXCEPT !.response = TRUE] \in Entry
            /\ [a EXCEPT !.workflow = r] \in Entry
            /\ [a EXCEPT !.status = "waiting"] \in Entry
            /\ [a EXCEPT !.response = TRUE].settled = a.settled
            /\ [a EXCEPT !.workflow = r].settled = a.settled
            /\ [a EXCEPT !.status = "waiting"].settled = a.settled
            /\ [a EXCEPT !.response = TRUE].status = a.status
            /\ [a EXCEPT !.workflow = r].status = a.status
            /\ [a EXCEPT !.status = "waiting"].status = "waiting"
      BY DEF Entry
    <3>3. entry \in [Runs -> Entry] /\ active \in [Executions -> Runs \cup {None}]
      BY DEF CallerInv
    <3>4. /\ entry' \in [Runs -> Entry]
          /\ \A q \in Runs : /\ entry'[q].settled = entry[q].settled
                             /\ entry'[q].status \in {entry[q].status, "waiting"}
      <4>1. PICK b \in Entry :
              /\ entry' = [entry EXCEPT ![s] = b]
              /\ b.settled = entry[s].settled
              /\ b.status \in {entry[s].status, "waiting"}
        <5>1. entry[s] \in Entry
          BY <3>3
        <5>2. CASE entry' = [entry EXCEPT ![s] = [@ EXCEPT !.response = TRUE]]
          BY <3>2, <5>1, <5>2
        <5>3. CASE entry' = [entry EXCEPT ![s] = [@ EXCEPT !.workflow = r]]
          BY <3>2, <5>1, <5>3
        <5>4. CASE entry' = [entry EXCEPT ![s] = [@ EXCEPT !.status = "waiting"]]
          BY <3>2, <5>1, <5>4
        <5> QED BY <3>1, <5>2, <5>3, <5>4
      <4> QED BY <3>3, <4>1
    <3> QED BY <1>1, <3>3, <3>4 DEF EntriesKeep
  <2>3. active[e] # None => active[e] \in Runs
    BY <1>5 DEF CallerInv
  <2>4. \/ entry' = entry
        \/ /\ active[e] # None
           /\ \/ entry' = [entry EXCEPT ![active[e]].response = TRUE]
              \/ entry' = [entry EXCEPT ![active[e]].workflow = r]
              \/ entry' = [entry EXCEPT ![active[e]].status = "waiting"]
    BY DEF CheckFails, CheckPasses, SetRunning, Launch, PutExecutionToWait, EndEngine,
           EngineEnds, Save, SaveResult
  <2> QED BY <2>1, <2>2, <2>3, <2>4
<1>7. Shifts({}, {}) /\ [CCNext]_ccVars
  BY <1>1, ShiftsNone
<1> QED BY <1>5, <1>6, <1>7, StepKeeps DEF CallerStep

(* The end of a run finalizes the entry that is active by then. *)
LEMMA CallerFinalizes ==
    ASSUME CallerInv, StatusInv, NEW r \in Runs,
           FinalizeFailedCheck(r) \/ EngineResolves(r)
    PROVE  CallerStep
<1> DEFINE e == ExecutionOf(r)
<1>1. /\ pc[r] \in {"checkFailed", "saved"} /\ pc' = [pc EXCEPT ![r] = "done"]
      /\ call' = call /\ timers' \in SUBSET (timers \cup {r})
      /\ \/ Finalize(e)
         \/ UNCHANGED <<ccVars, active, entry>>
  BY DEF FinalizeFailedCheck, EngineResolves, Goto
<1>2. Entered(r) /\ e \in Executions
  BY <1>1 DEF StatusInv, Call, Gone, ExecutionOf, Entered, EnteredStates
<1>3. RunsKeep
  BY <1>1, <1>2, RunMoves DEF EnteredStates
<1>4. CASE Finalize(e)
  BY <1>2, <1>3, <1>4, FinalizeCalls, StepKeeps DEF CallerStep
<1>5. CASE UNCHANGED <<ccVars, active, entry>>
  BY <1>3, <1>5, SameEntries, ShiftsNone, StepKeeps DEF CallerStep
<1> QED BY <1>1, <1>4, <1>5

(* Stops, timeouts and late saves. *)
LEMMA CallerStops ==
    ASSUME CallerInv, StatusInv,
           \/ \E r \in Runs : SaveCanceled(r) \/ TimeoutFires(r)
           \/ \E e \in Executions : StopStep(e)
    PROVE  CallerStep
<1>1. UNCHANGED <<pc, call>> /\ timers' \in SUBSET timers
  BY DEF SaveCanceled, TimeoutFires, StopStep, StopRead, StopApply, StopSave
<1>2. RunsKeep
  BY <1>1, SameRuns
<1>3. CASE UNCHANGED <<ccVars, active, entry>>
  BY <1>2, <1>3, SameEntries, ShiftsNone, StepKeeps DEF CallerStep
<1>4. ASSUME NEW e \in Executions, StopExecution(e) PROVE CallerStep
  BY <1>2, <1>4, StopCalls, StepKeeps DEF CallerStep
<1>5. ASSUME NEW e \in Executions, Remove(e), UNCHANGED <<active, entry>>
      PROVE  CallerStep
  <2>1. CCNext
    BY <1>5 DEF CCNext
  <2>2. Shifts({}, {}) /\ EntriesKeep({})
    BY <1>5, RemoveShifts, SameEntries DEF CallerInv
  <2> QED BY <1>2, <2>1, <2>2, StepKeeps DEF CallerStep
<1>6. ASSUME NEW r \in Runs, TimeoutFires(r) PROVE CallerStep
  <2>1. ~Gone(r)
    BY <1>6 DEF TimeoutFires, CallerInv, Entered, EnteredStates, LiveStates, Gone
  <2>2. ExecutionOf(r) \in Executions
    BY <2>1 DEF StatusInv, Call, ExecutionOf
  <2> QED BY <1>4, <1>6, <2>2 DEF TimeoutFires
<1>7. ASSUME NEW e \in Executions, StopApply(e) PROVE CallerStep
  BY <1>4, <1>5, <1>7 DEF StopApply
<1>8. ASSUME NEW r \in Runs, SaveCanceled(r) PROVE CallerStep
  BY <1>3, <1>8 DEF SaveCanceled
<1>9. ASSUME NEW e \in Executions, StopRead(e) \/ StopSave(e) PROVE CallerStep
  BY <1>3, <1>9 DEF StopRead, StopSave
<1> QED BY <1>6, <1>7, <1>8, <1>9 DEF StopStep

(* A shutdown disables the service; a new process starts it afresh. *)
LEMMA CallerGoesDown ==
    ASSUME CallerInv, StatusInv, Shutdown \/ GoDown
    PROVE  CallerStep
<1>1. CASE Shutdown
  <2>1. [CCNext]_ccVars /\ ~isEnabled' /\ UNCHANGED <<pc, call, timers>>
    BY <1>1 DEF Shutdown, Disable, CCNext
  <2> DEFINE responding == {e \in ActiveOnes : entry[active[e]].response}
             waiting == {e \in ActiveOnes \ responding :
                           entry[active[e]].status = "waiting"}
  <2>2. /\ entry' = [x \in Runs |-> IF x \in ToReject(responding)
                                    THEN [entry[x] EXCEPT !.settled = TRUE]
                                    ELSE entry[x]]
        /\ active' = [e \in Executions |-> IF e \in responding \cup waiting
                                           THEN None ELSE active[e]]
    BY <1>1 DEF Shutdown, StopEntries
  <2>3. \A a \in Entry : [a EXCEPT !.settled = TRUE] \in Entry
    BY DEF Entry
  <2>4. /\ active' \in [Executions -> Runs \cup {None}]
        /\ entry' \in [Runs -> Entry]
    BY <2>2, <2>3 DEF CallerInv
  <2>5. ASSUME NEW e \in Executions, active'[e] # None
        PROVE  /\ active'[e] = active[e] /\ active[e] \in Runs
               /\ entry'[active[e]] = entry[active[e]]
    <3>1. e \notin responding /\ active'[e] = active[e] /\ active[e] \in Runs
      BY <2>2, <2>5 DEF CallerInv
    <3>2. active[e] \notin ToReject(responding)
      <4>1. SUFFICES ASSUME NEW f \in responding, active[f] = active[e], active[f] # None
                     PROVE  FALSE
        BY DEF ToReject
      <4>2. f \in Executions /\ f # e
        BY <3>1 DEF ActiveOnes
      <4> QED BY <2>5, <3>1, <4>1, <4>2 DEF CallerInv
    <3> QED BY <2>2, <3>1, <3>2
  <2> HIDE DEF responding, waiting
  <2>6. IInv'
    BY <2>1, NextIInv DEF CallerInv
  <2>7. \A r \in Runs : Unknown(r) => Unknown(r)'
    BY <1>1 DEF Shutdown, Disable, Unknown, Queued
  <2>8. CallerInv'
    BY <2>1, <2>4, <2>5, <2>6, <2>7 DEF CallerInv, Unsettled, ExecutionOf, Entered
  <2> QED BY <2>1, <2>8 DEF CallerStep
<1>2. CASE GoDown
  <2>1. Reset /\ CCNext
    BY <1>2 DEF GoDown, CCNext
  <2>2. IInv'
    BY <2>1, NextIInv DEF CallerInv
  <2>3. \A r \in Runs : Unknown(r)'
    BY <2>1 DEF Reset, Unknown, Queued
  <2>4. NoEntry \in Entry
    BY DEF NoEntry, Entry
  <2>5. /\ active' \in [Executions -> Runs \cup {None}]
        /\ entry' \in [Runs -> Entry]
        /\ \A e \in Executions : active'[e] = None
        /\ \A r \in Runs : pc'[r] \in {"idle", "dead"}
        /\ timers' = {}
    BY <1>2, <2>4 DEF GoDown
  <2>6. CallerInv'
    BY <2>2, <2>3, <2>5 DEF CallerInv, Unsettled
  <2> QED BY <2>1, <2>6 DEF CallerStep
<1> QED BY <1>1, <1>2

(* Every step of the lifecycle is one CCSpec allows. *)
LEMMA CallerNext == CallerInv /\ StatusInv /\ [Next]_vars => CallerStep
<1> SUFFICES ASSUME CallerInv, StatusInv, [Next]_vars PROVE CallerStep
  OBVIOUS
<1>1. ASSUME UNCHANGED <<ccVars, active, entry, pc, call, timers>> PROVE CallerStep
  BY <1>1, SameEntries, SameRuns, ShiftsNone, StepKeeps DEF CallerStep
<1>2. CASE UNCHANGED vars \/ Boot
  BY <1>1, <1>2 DEF vars, lifeVars, Boot
<1>3. ASSUME NEW r \in Runs, StartRun(r) PROVE CallerStep
  BY <1>3, CallerStart
<1>4. ASSUME NEW r \in Runs, RunStep(r) PROVE CallerStep
  BY <1>4, CallerThrottles, CallerMarks, CallerActivates, CallerRuns, CallerFinalizes
     DEF RunStep
<1>5. CASE \/ \E r \in Runs : SaveCanceled(r) \/ TimeoutFires(r)
           \/ \E e \in Executions : StopStep(e)
  BY <1>5, CallerStops
<1>6. CASE Shutdown \/ Exit \/ Crash
  BY <1>6, CallerGoesDown DEF Exit, Crash
<1> QED BY <1>2, <1>3, <1>4, <1>5, <1>6 DEF Next

(* No run is known to the service initially. *)
LEMMA CallerInit == Init => CallerInv
<1> SUFFICES ASSUME Init PROVE CallerInv
  OBVIOUS
<1>1. IInv
  BY InitIInv DEF Init
<1>2. \A r \in Runs : Unknown(r)
  BY DEF Init, CCInit, Unknown, Queued
<1>3. NoEntry \in Entry
  BY DEF NoEntry, Entry
<1> QED BY <1>1, <1>2, <1>3 DEF Init, CallerInv, Unsettled

(* The lifecycle keeps the contract of the concurrency control: a run that it
   throttles is not known yet, and only a run with a slot is released, whatever
   stops, timeouts, failed checks, shutdowns and crashes come between.        *)
THEOREM LifecycleIsCaller == Spec => CCSpec
<1>1. Init => CCInit
  BY DEF Init
<1>2. CallerInv /\ StatusInv /\ [Next]_vars => [CCNext]_ccVars /\ CallerInv'
  BY CallerNext DEF CallerStep
<1> QED BY <1>1, <1>2, StatusInit, StatusNext, CallerInit, PTL DEF Spec, CCSpec

(* What CCSpec promises holds of the lifecycle as well: no capacity idles behind
   a waiting run, and a removal lets at most one run too many through.        *)
THEOREM LifecycleQueuesHold == Spec => [](WorkConserving /\ OverAdmissionBounded)
BY LifecycleIsCaller, WorkConservingHolds, OverAdmissionHolds, PTL

-----------------------------------------------------------------------------
(* Where the slots are. *)

(* A run is queued or has a slot, not both, and has called throttle(). *)
LEMMA KnownRuns ==
    ASSUME CallerInv, NEW t \in Limited
    PROVE  /\ Queued(t) \in SUBSET Runs /\ granted[t] \in SUBSET Runs
           /\ Queued(t) \cap granted[t] = {}
           /\ \A r \in Queued(t) \cup granted[t] : pc[r] \notin {"idle", "called"}
<1>1. QueueInv(Limit[t], capacity[t], queue[t], granted[t], dropped[t])
  BY DEF CallerInv, IInv
<1>2. queue[t] \in Seq(Item) /\ granted[t] \in SUBSET Runs
  BY <1>1 DEF QueueInv
<1>3. \A i \in 1..Len(queue[t]) : queue[t][i] \in Item
  BY <1>2
<1>4. Queued(t) \in SUBSET Runs
  BY <1>3 DEF Queued, Item
<1>5. Queued(t) \cap granted[t] = {}
  BY <1>1 DEF QueueInv, Queued
<1> QED BY <1>2, <1>4, <1>5 DEF CallerInv, Unknown

(* The service and the entries it releases for are untouched. *)
LEMMA PlaceSame ==
    ASSUME PlaceInv, CallerInv, StatusInv, UNCHANGED <<ccVars, active>>,
           \A r \in Runs : pc[r] # "idle" => call'[r] = call[r],
           \A r \in Runs : pc[r] = "throttled" => pc'[r] = "throttled",
           \A r \in Runs : Entered(r) => pc'[r] \in EnteredStates,
           detached' = detached
    PROVE  PlaceInv'
<1> USE DEF ExecutionOf
<1>1. \A t \in Limited : \A r \in Queued(t) \cup granted[t] : r \in Runs /\ pc[r] # "idle"
  BY KnownRuns
<1>2. \A t \in Limited : Queued(t)' = Queued(t) /\ granted'[t] = granted[t]
  BY DEF Queued, ccVars
<1>3. \A t \in Limited : \A r \in Queued(t)' : pc'[r] = "throttled"
  BY <1>1, <1>2 DEF PlaceInv
<1>4. \A t \in Limited : \A r \in Queued(t)' \cup granted'[t] : t \in QueuesOf(ExecutionOf(r))'
  BY <1>1, <1>2 DEF PlaceInv, QueuesOf, Limited
<1>5. \A r \in detached : pc'[r] \in EnteredStates /\ active'[ExecutionOf(r)'] # r
  <2>1. \A r \in detached : Entered(r) /\ pc[r] # "idle" /\ r \in Runs
    BY DEF PlaceInv, Entered, EnteredStates, LiveStates
  <2> QED BY <2>1 DEF PlaceInv
<1> QED BY <1>3, <1>4, <1>5 DEF PlaceInv, Entered

(* A slot is given back, and the next queued runs get theirs. *)
LEMMA PlaceShifts ==
    ASSUME PlaceInv, CallerInv, NEW X, Shifts({}, X), EntriesKeep(X),
           call' = call, detached' = detached,
           \A r \in Runs : pc[r] = "throttled" => pc'[r] = "throttled",
           \A r \in Runs : Entered(r) => pc'[r] \in EnteredStates,
           \A r \in detached : ExecutionOf(r) \in Executions
    PROVE  PlaceInv'
<1> USE DEF ExecutionOf
<1>1. \A t \in Limited : \A r \in Queued(t) \cup granted[t] : r \in Runs
  BY KnownRuns
<1>2. \A t \in Limited : \A r \in Queued(t)' : pc'[r] = "throttled"
  BY <1>1 DEF Shifts, PlaceInv
<1>3. \A t \in Limited : \A r \in Queued(t)' \cup granted'[t] : t \in QueuesOf(ExecutionOf(r))'
  BY <1>1 DEF Shifts, PlaceInv, QueuesOf, Limited
<1>4. \A r \in detached : pc'[r] \in EnteredStates /\ active'[ExecutionOf(r)'] # r
  BY NoneAssumption DEF PlaceInv, EntriesKeep
<1> QED BY <1>2, <1>3, <1>4 DEF PlaceInv, Entered

(* The steps of one run. *)
LEMMA PlaceRuns ==
    ASSUME PlaceInv, CallerInv, StatusInv, NEW r \in Runs, RunStep(r)
    PROVE  PlaceInv'
<1> DEFINE e == ExecutionOf(r)
<1>0. /\ pc \in [Runs -> RunState] /\ pc[r] \notin {"idle", "dead"}
      /\ call' = call /\ e \in Executions
  <2>1. \A o \in DOMAIN SavingState : SavingState[o] \in EnteredStates
    BY DEF SavingState, EnteredStates, LiveStates
  <2>2. pc[r] \notin {"idle", "dead"} /\ call' = call
    BY <2>1 DEF RunStep, CallThrottle, MarkNewRunning, MarkExistingRunning, Admitted,
        Activate, CheckFails, FinalizeFailedCheck, CheckPasses, SetRunning, Launch,
        PutExecutionToWait, EndEngine, EngineEnds, Save, SaveResult, EngineResolves,
        EnteredStates, LiveStates
  <2> QED BY <2>2 DEF StatusInv, StatusTypes, Call, Gone, ExecutionOf
<1>1. CASE CallThrottle(r)
  <2> DEFINE x == IF ~isEnabled \/ IsUnlimited(e) THEN "admitted" ELSE "throttled"
  <2>1. /\ pc[r] = "called" /\ Throttle(e, r) /\ pc' = [pc EXCEPT ![r] = x]
        /\ UNCHANGED <<active, detached>>
    BY <1>1 DEF CallThrottle, Goto
  <2>2. /\ pc'[r] = x /\ ~Entered(r) /\ Unknown(r)
        /\ \A s \in Runs : s # r => pc'[s] = pc[s]
    BY <1>0, <2>1 DEF Entered, EnteredStates, LiveStates, CallerInv
  <2>3. /\ Shifts({r}, {})
        /\ \A t \in Limited \ QueuesOf(e) :
              Queued(t)' = Queued(t) /\ granted'[t] = granted[t]
    BY <1>0, <2>1, ThrottleShifts DEF CallerInv
  <2>4. \A t \in Limited : \A s \in Queued(t) \cup granted[t] : s \in Runs /\ s # r
    BY <2>2, KnownRuns DEF Unknown
  <2>5. \A t \in Limited : r \in Queued(t)' \cup granted'[t] => t \in QueuesOf(e)
    BY <2>2, <2>3 DEF Unknown
  <2>6. \A t \in Limited : r \in Queued(t)' => x = "throttled"
    <3>1. CASE ~isEnabled \/ IsUnlimited(e)
      <4>1. \A t \in Limited : Queued(t)' = Queued(t)
        BY <2>1, <3>1 DEF Throttle, ccVars, Queued
      <4> QED BY <2>4, <4>1
    <3> QED BY <3>1
  <2> HIDE DEF x
  <2>7. \A t \in Limited : \A s \in Queued(t)' : pc'[s] = "throttled"
    BY <2>2, <2>3, <2>4, <2>6 DEF Shifts, PlaceInv
  <2>8. \A t \in Limited : \A s \in Queued(t)' \cup granted'[t] : t \in QueuesOf(ExecutionOf(s))'
    BY <1>0, <2>3, <2>4, <2>5 DEF Shifts, PlaceInv, QueuesOf, Limited, ExecutionOf
  <2> QED BY <1>0, <2>1, <2>2, <2>7, <2>8 DEF PlaceInv, Entered, ExecutionOf
<1>2. CASE MarkNewRunning(r) \/ MarkExistingRunning(r)
  <2>1. PICK x \in {"marked", "refused"} : pc' = [pc EXCEPT ![r] = x]
    BY <1>2 DEF MarkNewRunning, MarkExistingRunning, Goto
  <2>2. UNCHANGED <<ccVars, active, detached>> /\ Admitted(r)
    BY <1>2 DEF MarkNewRunning, MarkExistingRunning
  <2>3. \A t \in Limited : r \notin Queued(t)
    <3>1. \A t \in Limited : r \in Queued(t) => r \notin granted[t] /\ t \in QueuesOf(e)
      BY KnownRuns DEF PlaceInv
    <3>2. \A t, u \in QueuesOf(e) : t = u /\ t \in Limited
      BY DEF QueuesOf, ProductionModes
    <3> QED BY <2>2, <3>1, <3>2 DEF Admitted, PlaceInv
  <2>4. /\ pc'[r] = x /\ ~Entered(r) /\ \A s \in Runs : s # r => pc'[s] = pc[s]
    BY <1>0, <2>1, <2>2 DEF Admitted, Entered, EnteredStates, LiveStates
  <2>5. \A t \in Limited : /\ Queued(t)' = Queued(t) /\ granted'[t] = granted[t]
                           /\ Queued(t) \in SUBSET Runs
    BY <2>2, KnownRuns DEF ccVars, Queued
  <2>6. \A t \in Limited : \A s \in Queued(t)' : pc'[s] = "throttled"
    BY <2>3, <2>4, <2>5 DEF PlaceInv
  <2>7. \A t \in Limited : \A s \in Queued(t)' \cup granted'[t] : t \in QueuesOf(ExecutionOf(s))'
    BY <1>0, <2>5 DEF PlaceInv, ExecutionOf, QueuesOf, Limited
  <2> QED BY <1>0, <2>2, <2>4, <2>6, <2>7 DEF PlaceInv, Entered, ExecutionOf
<1>3. CASE Activate(r)
  <2>1. /\ pc[r] = "marked" /\ pc' = [pc EXCEPT ![r] = "checking"]
        /\ active' = [active EXCEPT ![e] = r] /\ UNCHANGED <<ccVars, detached>>
    BY <1>3 DEF Activate, Goto
  <2>2. /\ r \notin detached /\ pc'[r] = "checking"
        /\ \A s \in Runs : s # r => pc'[s] = pc[s]
    BY <1>0, <2>1 DEF PlaceInv, Entered, EnteredStates, LiveStates
  <2>3. \A t \in Limited : /\ Queued(t)' = Queued(t) /\ granted'[t] = granted[t]
                           /\ Queued(t) \in SUBSET Runs
    BY <2>1, KnownRuns DEF ccVars, Queued
  <2>4. \A t \in Limited : \A s \in Queued(t)' : pc'[s] = "throttled"
    BY <2>1, <2>2, <2>3 DEF PlaceInv
  <2>5. \A t \in Limited : \A s \in Queued(t)' \cup granted'[t] : t \in QueuesOf(ExecutionOf(s))'
    BY <1>0, <2>3 DEF PlaceInv, ExecutionOf, QueuesOf, Limited
  <2>6. \A f \in Executions : active'[f] = active[f] \/ active'[f] = r
    BY <2>1, <1>0 DEF CallerInv
  <2>8. \A s \in detached : ExecutionOf(s) \in Executions
    BY DEF PlaceInv, Entered, EnteredStates, LiveStates, StatusInv, Gone, Call, ExecutionOf
  <2>7. \A s \in detached : Entered(s)' /\ (active[ExecutionOf(s)] # s)'
    BY <1>0, <2>1, <2>2, <2>6, <2>8 DEF PlaceInv, Entered, ExecutionOf
  <2> QED BY <2>1, <2>4, <2>5, <2>7 DEF PlaceInv
<1>4. CASE Launch(r)
  <2>1. /\ pc[r] = "launching" /\ pc' = [pc EXCEPT ![r] = "executing"]
        /\ UNCHANGED <<ccVars, active>>
        /\ detached' = IF active[e] = None THEN detached \cup {r} ELSE detached
    BY <1>4 DEF Launch, Goto
  <2>2. /\ pc'[r] = "executing" /\ \A s \in Runs : s # r => pc'[s] = pc[s]
    BY <1>0, <2>1
  <2>3. \A t \in Limited : /\ Queued(t)' = Queued(t) /\ granted'[t] = granted[t]
                           /\ Queued(t) \in SUBSET Runs
    BY <2>1, KnownRuns DEF ccVars, Queued
  <2>4. \A t \in Limited : \A s \in Queued(t)' : pc'[s] = "throttled"
    BY <2>1, <2>2, <2>3 DEF PlaceInv
  <2>5. \A t \in Limited : \A s \in Queued(t)' \cup granted'[t] : t \in QueuesOf(ExecutionOf(s))'
    BY <1>0, <2>3 DEF PlaceInv, ExecutionOf, QueuesOf, Limited
  <2>6. \A s \in detached' : Entered(s)' /\ (active[ExecutionOf(s)] # s)'
    BY <1>0, <2>1, <2>2, NoneAssumption
       DEF PlaceInv, Entered, ExecutionOf, EnteredStates, LiveStates
  <2> QED BY <2>1, <2>4, <2>5, <2>6 DEF PlaceInv
<1>5. CASE FinalizeFailedCheck(r) \/ EngineResolves(r)
  <2>1. /\ pc[r] \in {"checkFailed", "saved"} /\ pc' = [pc EXCEPT ![r] = "done"]
        /\ detached' = detached
        /\ Finalize(e) \/ UNCHANGED <<ccVars, active, entry>>
    BY <1>5 DEF FinalizeFailedCheck, EngineResolves, Goto
  <2>2. PICK X \in SUBSET Runs : Shifts({}, X) /\ EntriesKeep(X)
    BY <1>0, <2>1, FinalizeCalls, SameEntries, ShiftsNone
  <2>3. \A s \in detached : ExecutionOf(s) \in Executions
    BY DEF PlaceInv, Entered, EnteredStates, LiveStates, StatusInv, Gone, Call, ExecutionOf
  <2> QED BY <1>0, <2>1, <2>2, <2>3, PlaceShifts DEF Entered, EnteredStates
<1>6. CASE \/ CheckFails(r) \/ CheckPasses(r) \/ SetRunning(r) \/ PutExecutionToWait(r)
           \/ EndEngine(r) \/ Save(r)
  <2>2. \A o \in DOMAIN SavingState : SavingState[o] \in EnteredStates
    BY DEF SavingState, EnteredStates, LiveStates
  <2>3. /\ UNCHANGED <<ccVars, active, detached>>
        /\ Entered(r)
    BY <1>6, <2>2 DEF CheckFails, CheckPasses, SetRunning, PutExecutionToWait, EndEngine,
        EngineEnds, Save, SaveResult, Entered, EnteredStates, LiveStates
  <2>4. PICK x \in EnteredStates : pc' = [pc EXCEPT ![r] = x]
    <3>1. CASE EndEngine(r)
      <4>1. PICK o \in DOMAIN SavingState : EngineEnds(r, o)
        BY <3>1 DEF EndEngine
      <4>2. (IF r \in cancelled THEN "saved" ELSE SavingState[o]) \in EnteredStates
        BY <2>2 DEF EnteredStates
      <4> QED BY <4>1, <4>2 DEF EngineEnds, Goto
    <3>2. CASE ~EndEngine(r)
      BY <1>6, <3>2 DEF CheckFails, CheckPasses, SetRunning, PutExecutionToWait, Save,
                  SaveResult, Goto, EnteredStates, LiveStates
    <3> QED BY <3>1, <3>2
  <2>5. /\ pc'[r] = x /\ pc[r] # "throttled"
        /\ \A s \in Runs : s # r => pc'[s] = pc[s]
    BY <1>0, <2>3, <2>4 DEF Entered, EnteredStates, LiveStates
  <2> QED BY <1>0, <2>3, <2>5, PlaceSame DEF Entered
<1> QED BY <1>1, <1>2, <1>3, <1>4, <1>5, <1>6 DEF RunStep

(* Every step keeps the place of the slots. *)
LEMMA PlaceNext == PlaceInv /\ CallerInv /\ StatusInv /\ [Next]_vars => PlaceInv'
<1> SUFFICES ASSUME PlaceInv, CallerInv, StatusInv, [Next]_vars PROVE PlaceInv'
  OBVIOUS
<1>0. \A s \in detached : ExecutionOf(s) \in Executions
  BY DEF PlaceInv, Entered, EnteredStates, LiveStates, StatusInv, Gone, Call, ExecutionOf
<1>1. CASE UNCHANGED vars \/ Boot
  BY <1>1, PlaceSame DEF vars, lifeVars, Boot, Entered
<1>2. ASSUME NEW r \in Runs, StartRun(r) PROVE PlaceInv'
  <2>1. /\ pc[r] = "idle" /\ pc' = [pc EXCEPT ![r] = "called"]
        /\ UNCHANGED <<ccVars, active, detached>>
        /\ \A s \in Runs : s # r => call'[s] = call[s]
    BY <1>2 DEF StartRun, CreateExecution, BeginResume, RunEnqueued, Goto,
                StatusInv, StatusTypes
  <2>2. /\ ~Entered(r) /\ \A s \in Runs : s # r => pc'[s] = pc[s]
    BY <2>1 DEF StatusInv, StatusTypes, Entered, EnteredStates, LiveStates
  <2> QED BY <2>1, <2>2, PlaceSame DEF Entered
<1>3. ASSUME NEW r \in Runs, RunStep(r) PROVE PlaceInv'
  BY <1>3, PlaceRuns
<1>4. CASE \/ \E r \in Runs : SaveCanceled(r) \/ TimeoutFires(r)
           \/ \E e \in Executions : StopStep(e)
  <2>1. UNCHANGED <<pc, call, detached>>
    BY <1>4 DEF SaveCanceled, TimeoutFires, StopStep, StopRead, StopApply, StopSave
  <2>2. CASE UNCHANGED <<ccVars, active>>
    BY <2>1, <2>2, PlaceSame DEF Entered
  <2>3. ASSUME NEW e \in Executions, StopExecution(e) PROVE PlaceInv'
    BY <1>0, <2>1, <2>3, StopCalls, PlaceShifts DEF Entered
  <2>4. ASSUME NEW e \in Executions, Remove(e), UNCHANGED <<active, entry>> PROVE PlaceInv'
    <3>1. Shifts({}, {}) /\ EntriesKeep({})
      BY <2>4, RemoveShifts, SameEntries DEF CallerInv
    <3> QED BY <1>0, <2>1, <3>1, PlaceShifts DEF Entered
  <2>5. ASSUME NEW r \in Runs, TimeoutFires(r) PROVE PlaceInv'
    <3>1. ~Gone(r)
      BY <2>5 DEF TimeoutFires, CallerInv, Entered, EnteredStates, LiveStates, Gone
    <3>2. ExecutionOf(r) \in Executions
      BY <3>1 DEF StatusInv, Call, ExecutionOf
    <3> QED BY <2>3, <2>5, <3>2 DEF TimeoutFires
  <2>6. ASSUME NEW e \in Executions, StopApply(e) PROVE PlaceInv'
    BY <2>3, <2>4, <2>6 DEF StopApply
  <2>7. ASSUME NEW r \in Runs, SaveCanceled(r) PROVE PlaceInv'
    BY <2>2, <2>7 DEF SaveCanceled
  <2>8. ASSUME NEW e \in Executions, StopRead(e) \/ StopSave(e) PROVE PlaceInv'
    BY <2>2, <2>8 DEF StopRead, StopSave
  <2> QED BY <1>4, <2>5, <2>6, <2>7, <2>8 DEF StopStep
<1>5. CASE Shutdown
  <2>1. /\ UNCHANGED <<queue, granted, pc, call, detached>>
        /\ \A e \in Executions : active'[e] \in {active[e], None}
    BY <1>5 DEF Shutdown, Disable
  <2>2. \A t \in Limited : Queued(t)' = Queued(t)
    BY <2>1 DEF Queued
  <2>3. \A r \in detached : Entered(r)' /\ (active[ExecutionOf(r)] # r)'
    BY <1>0, <2>1, NoneAssumption DEF PlaceInv, Entered, ExecutionOf
  <2>4. \A t \in Limited : \A s \in Queued(t)' \cup granted'[t] : t \in QueuesOf(ExecutionOf(s))'
    BY <2>1, <2>2 DEF PlaceInv, ExecutionOf
  <2> QED BY <2>1, <2>2, <2>3, <2>4 DEF PlaceInv
<1>6. CASE Exit \/ Crash
  <2>1. Reset /\ detached' = {}
    BY <1>6 DEF Exit, Crash, GoDown
  <2>2. \A t \in Limited : Queued(t)' = {} /\ granted'[t] = {}
    BY <2>1 DEF Reset, Queued
  <2> QED BY <2>1, <2>2 DEF PlaceInv
<1> QED BY <1>1, <1>2, <1>3, <1>4, <1>5, <1>6 DEF Next

\* Slots stay with runs whose entry is active and not settled.
SlotsKeep ==
    \A s \in Runs : Entered(s) /\ Slotted(s)' /\ entry'[s].status # "waiting" =>
        /\ Holds(s) /\ ~entry'[s].settled
        /\ active'[ExecutionOf(s)] = s

(* No run that put its entry gets a slot. *)
LEMMA SlottedBefore ==
    ASSUME PlaceInv, NEW R, \A r \in R : ~Entered(r), NEW X, Shifts(R, X),
           NEW s \in Runs, Entered(s), Slotted(s)'
    PROVE  Slotted(s)
<1>1. PICK t \in Limited : s \in granted'[t]
  BY DEF Slotted
<1>2. s \notin Queued(t) /\ isEnabled
  BY DEF PlaceInv, Entered, EnteredStates, LiveStates, Shifts, Slotted
<1> QED BY <1>1, <1>2 DEF Shifts, Slotted

(* Entries that keep their status and stay active keep their slots. *)
LEMMA SlotsSame ==
    ASSUME PlaceInv, HoldInv, NEW R, \A r \in R : ~Entered(r), NEW X, Shifts(R, X),
           active' = active,
           \A s \in Runs : Entered(s) =>
              /\ entry'[s].settled = entry[s].settled
              /\ entry[s].status = "waiting" => entry'[s].status = "waiting"
    PROVE  SlotsKeep
BY SlottedBefore DEF SlotsKeep, Holds, HoldInv

(* Once x has released, it holds no slot any more. *)
LEMMA Released ==
    ASSUME PlaceInv, CallerInv, NEW e \in Executions, NEW x \in Runs,
           Entered(x), ExecutionOf(x) = e, isEnabled => MayRelease(e, x), Release(e, x)
    PROVE  ~Slotted(x)' /\ Shifts({}, {x})
<1>1. /\ Shifts({}, {x})
      /\ isEnabled => \A t \in QueuesOf(e) : x \notin granted'[t]
  BY ReleaseShifts DEF CallerInv
<1>2. \A t \in Limited : x \notin Queued(t)
  BY DEF PlaceInv, Entered, EnteredStates, LiveStates
<1>3. ASSUME NEW t \in Limited, x \in granted'[t], isEnabled PROVE FALSE
  <2>1. x \in granted[t]
    BY <1>1, <1>2, <1>3 DEF Shifts
  <2>2. t \in QueuesOf(e)
    BY <2>1 DEF PlaceInv
  <2> QED BY <1>1, <1>3, <2>2
<1> QED BY <1>1, <1>3 DEF Slotted, Shifts

(* finalizeExecution() and stopExecution() take the slot of the entry's run, and
   of no other; afterwards no run holds a slot through that entry.             *)
LEMMA EndSlots ==
    ASSUME PlaceInv, HoldInv, CallerInv, StatusInv, NEW e \in Executions,
           Finalize(e) \/ StopExecution(e)
    PROVE  /\ SlotsKeep
           /\ \A s \in Runs : Entered(s) /\ s = active[e] /\ Slotted(s)' =>
                 entry'[s].status = "waiting"
<1> PICK x : x = active[e]
  OBVIOUS
<1>0. /\ entry \in [Runs -> Entry] /\ active \in [Executions -> Runs \cup {None}]
      /\ x # None => x \in Runs /\ Entered(x) /\ ExecutionOf(x) = e
  BY DEF CallerInv
<1>1. \A s \in Runs : Holds(s) => /\ active[ExecutionOf(s)] = s /\ ~entry[s].settled
                                  /\ ExecutionOf(s) \in Executions
  BY DEF HoldInv, Holds, Entered, EnteredStates, LiveStates, StatusInv, Gone, Call, ExecutionOf
<1>2. CASE UNCHANGED <<ccVars, entry>> /\ (x = None \/ ~Holds(x))
           /\ \A f \in Executions : f # e => active'[f] = active[f]
  <2>1. \A s \in Runs : Slotted(s)' = Slotted(s)
    BY <1>2 DEF ccVars, Slotted, Limited
  <2>2. \A s \in Runs : Holds(s) => s # x
    BY <1>2, NoneAssumption
  <2> QED BY <1>1, <1>2, <2>1, <2>2 DEF SlotsKeep, Holds
<1>3. CASE /\ x # None /\ Release(e, x)
           /\ isEnabled => MayRelease(e, x)
           /\ \A s \in Runs : s # x => entry'[s] = entry[s]
           /\ \A f \in Executions : f # e => active'[f] = active[f]
  <2>1. ~Slotted(x)' /\ Shifts({}, {x})
    BY <1>0, <1>3, Released
  <2> DEFINE R == {}
             X == {x}
  <2>2. Shifts(R, X) /\ \A r \in R : ~Entered(r)
    BY <2>1
  <2> HIDE DEF R, X
  <2>3. \A s \in Runs : Entered(s) /\ Slotted(s)' => Slotted(s) /\ s # x
    BY <2>1, <2>2, SlottedBefore
  <2>4. ASSUME NEW s \in Runs, Entered(s), Slotted(s)', entry'[s].status # "waiting"
        PROVE  /\ Holds(s) /\ ~entry'[s].settled
               /\ active'[ExecutionOf(s)] = s
    <3>1. Holds(s) /\ s # x /\ entry'[s] = entry[s]
      BY <1>3, <2>3, <2>4 DEF Holds
    <3>2. ExecutionOf(s) # e
      BY <1>1, <3>1
    <3> QED BY <1>1, <1>3, <3>1, <3>2
  <2> QED BY <2>3, <2>4 DEF SlotsKeep
<1>4. CASE Finalize(e)
  <2>1. CASE x = None \/ entry[x].settled
    <3>1. UNCHANGED <<ccVars, active, entry>>
      BY <1>4, <2>1 DEF Finalize
    <3>2. x = None \/ ~Holds(x)
      BY <1>1, <1>0, <2>1
    <3> QED BY <1>2, <3>1, <3>2
  <2>2. CASE ~(x = None \/ entry[x].settled)
    <3>1. /\ Release(e, x)
          /\ \/ /\ entry' = [entry EXCEPT ![x].settled = TRUE, ![x].workflow = None]
                /\ active' = active
             \/ /\ entry' = [entry EXCEPT ![x].settled = TRUE]
                /\ active' = [active EXCEPT ![e] = None]
      BY <1>4, <2>2 DEF Finalize
    <3>2. /\ \A s \in Runs : s # x => entry'[s] = entry[s]
          /\ \A f \in Executions : f # e => active'[f] = active[f]
      BY <1>0, <3>1
    <3>3. isEnabled => MayRelease(e, x)
      BY <2>2 DEF CallerInv, Unsettled
    <3> QED BY <1>3, <2>2, <3>1, <3>2, <3>3
  <2> QED BY <2>1, <2>2
<1>5. CASE StopExecution(e)
  <2>1. /\ active' = [active EXCEPT ![e] = None]
        /\ entry' = [s \in Runs |-> IF s \in ToReject({e})
                                    THEN [entry[s] EXCEPT !.settled = TRUE]
                                    ELSE entry[s]]
    BY <1>5 DEF StopExecution, StopEntries
  <2>2. ToReject({e}) = IF x = None \/ entry[x].status = "waiting" THEN {} ELSE {x}
    BY DEF ToReject
  <2>3. \A f \in Executions : f # e => active'[f] = active[f]
    BY <1>0, <2>1
  <2>4. CASE ToReject({e}) = {}
    <3>1. UNCHANGED ccVars /\ entry' = entry /\ (x = None \/ ~Holds(x))
      BY <1>0, <1>5, <2>1, <2>2, <2>4 DEF StopExecution, Holds
    <3> QED BY <1>2, <2>3, <3>1
  <2>5. CASE ToReject({e}) # {}
    <3>1. x # None /\ Release(e, x) /\ entry[x].status # "waiting"
      BY <1>5, <2>2, <2>5 DEF StopExecution
    <3>2. isEnabled => MayRelease(e, x)
      BY <3>1 DEF CallerInv, Unsettled
    <3>3. \A s \in Runs : s # x => entry'[s] = entry[s]
      BY <2>1, <2>2, <2>5
    <3> QED BY <1>3, <2>3, <3>1, <3>2, <3>3
  <2> QED BY <2>4, <2>5
<1> QED BY <1>4, <1>5

(* What the slots rest on, once a step keeps them where they are. *)
LEMMA HoldKeeps ==
    ASSUME HoldInv, SlotsKeep, call' = call,
           \A s \in Runs : Entered(s)' => Entered(s),
           \A s \in Runs : Holds(s) /\ Holds(s)' =>
              /\ db'[ExecutionOf(s)] # "waiting"
              /\ pc'[s] \notin {"waitRequested", "saving-waiting", "done"},
           \A r \in Runs : Live(r)' =>
              \/ Live(r)
              \/ \A s \in Runs : Holds(s) /\ SameExecution(r, s) => r = s
    PROVE  HoldInv'
<1>1. \A s \in Runs : Holds(s)' => Holds(s) /\ ~entry'[s].settled
                                   /\ active'[ExecutionOf(s)] = s
  BY DEF SlotsKeep, Holds
<1> QED BY <1>1 DEF HoldInv, SameExecution, ExecutionOf

(* The steps of one run. *)
LEMMA HoldRuns ==
    ASSUME HoldInv, PlaceInv, CallerInv, StatusInv, StatusInv', NEW r \in Runs, RunStep(r)
    PROVE  HoldInv'
<1> DEFINE e == ExecutionOf(r)
<1>0. /\ pc \in [Runs -> RunState] /\ db \in [Executions -> Status]
      /\ pc[r] \notin {"idle", "dead"} /\ call' = call /\ e \in Executions
  <2>1. \A o \in DOMAIN SavingState : SavingState[o] \in EnteredStates
    BY DEF SavingState, EnteredStates, LiveStates
  <2>2. pc[r] \notin {"idle", "dead"} /\ call' = call
    BY <2>1 DEF RunStep, CallThrottle, MarkNewRunning, MarkExistingRunning, Admitted,
        Activate, CheckFails, FinalizeFailedCheck, CheckPasses, SetRunning, Launch,
        PutExecutionToWait, EndEngine, EngineEnds, Save, SaveResult, EngineResolves,
        EnteredStates, LiveStates
  <2> QED BY <2>2 DEF StatusInv, StatusTypes, Call, Gone, ExecutionOf
<1>6. \A s \in Runs : Holds(s) => ExecutionOf(s) \in Executions
  BY DEF Holds, Entered, EnteredStates, LiveStates, StatusInv, Gone, Call, ExecutionOf
<1>1. CASE CallThrottle(r)
  <2>1. PICK x \in {"throttled", "admitted"} : pc' = [pc EXCEPT ![r] = x]
    BY <1>1 DEF CallThrottle, Goto
  <2>2. /\ pc[r] = "called" /\ Throttle(e, r)
        /\ UNCHANGED <<db, active, entry>>
    BY <1>1 DEF CallThrottle
  <2>3. /\ pc'[r] = x /\ ~Entered(r) /\ ~Live(r)
        /\ \A s \in Runs : s # r => pc'[s] = pc[s]
    BY <1>0, <2>1, <2>2 DEF Live, Entered, EnteredStates, LiveStates
  <2> DEFINE R == {r}
             X == {}
  <2>4. Shifts(R, X) /\ \A q \in R : ~Entered(q)
    BY <1>0, <2>2, <2>3, ThrottleShifts DEF CallerInv
  <2> HIDE DEF R, X
  <2>5. SlotsKeep
    BY <2>2, <2>4, SlotsSame
  <2>6. /\ \A s \in Runs : Entered(s)' => Entered(s)
        /\ \A s \in Runs : Live(s)' => Live(s)
    BY <2>3 DEF Live, Entered, EnteredStates, LiveStates
  <2>7. \A s \in Runs : Holds(s) /\ Holds(s)' =>
              /\ db'[ExecutionOf(s)] # "waiting"
              /\ pc'[s] \notin {"waitRequested", "saving-waiting", "done"}
    BY <2>2, <2>3 DEF HoldInv, Holds
  <2> QED BY <1>0, <2>5, <2>6, <2>7, HoldKeeps
<1>2. CASE MarkNewRunning(r) \/ MarkExistingRunning(r)
  <2>1. PICK x \in {"marked", "refused"} : pc' = [pc EXCEPT ![r] = x]
    BY <1>2 DEF MarkNewRunning, MarkExistingRunning, Goto
  <2>2. /\ UNCHANGED <<ccVars, active, entry>>
        /\ pc[r] \in {"throttled", "admitted"}
        /\ db' = db \/ db' = [db EXCEPT ![e] = "running"]
        /\ x = "marked" => call[r].kind = "fresh" \/ db[e] = "waiting"
    BY <1>0, <1>2, <2>1 DEF MarkNewRunning, MarkExistingRunning, Admitted, Goto
  <2>3. /\ pc'[r] = x /\ ~Entered(r) /\ ~Live(r)
        /\ \A s \in Runs : s # r => pc'[s] = pc[s]
    BY <1>0, <2>1, <2>2 DEF Live, Entered, EnteredStates, LiveStates
  <2> DEFINE R == {}
  <2>4. Shifts(R, R) /\ \A q \in R : ~Entered(q)
    BY <2>2, ShiftsNone
  <2> HIDE DEF R
  <2>5. SlotsKeep
    BY <2>2, <2>4, SlotsSame
  <2>6. \A s \in Runs : Entered(s)' => Entered(s)
    BY <2>3 DEF Entered, EnteredStates, LiveStates
  <2>7. \A s \in Runs : Holds(s) /\ Holds(s)' =>
              /\ db'[ExecutionOf(s)] # "waiting"
              /\ pc'[s] \notin {"waitRequested", "saving-waiting", "done"}
    BY <1>0, <1>6, <2>2, <2>3 DEF HoldInv, Holds
  <2>8. x = "marked" => \A s \in Runs : Holds(s) => ~SameExecution(r, s)
    <3>1. call[r].kind = "fresh" => \A s \in Runs : Entered(s) => ~SameExecution(r, s)
      BY <2>2, <2>3 DEF StatusInv, Starting, Begun
    <3>2. db[e] = "waiting" => \A s \in Runs : Holds(s) => ~SameExecution(r, s)
      BY DEF HoldInv, SameExecution
    <3> QED BY <2>2, <3>1, <3>2 DEF Holds
  <2>9. \A q \in Runs : Live(q)' =>
              \/ Live(q)
              \/ \A s \in Runs : Holds(s) /\ SameExecution(q, s) => q = s
    BY <2>3, <2>8 DEF Live, LiveStates
  <2> QED BY <1>0, <2>5, <2>6, <2>7, <2>9, HoldKeeps
<1>3. CASE Activate(r)
  <2>1. /\ pc[r] = "marked" /\ pc' = [pc EXCEPT ![r] = "checking"]
        /\ active' = [active EXCEPT ![e] = r] /\ UNCHANGED <<ccVars, db>>
        /\ \E b : entry' = [entry EXCEPT ![r] = [NoEntry EXCEPT !.response = b]]
    BY <1>3 DEF Activate, Goto
  <2>2. /\ pc'[r] = "checking" /\ ~Entered(r) /\ Live(r)
        /\ \A s \in Runs : s # r => pc'[s] = pc[s]
    BY <1>0, <2>1 DEF Live, Entered, EnteredStates, LiveStates
  <2>3. /\ ~entry'[r].settled /\ active'[e] = r
        /\ \A s \in Runs : s # r => entry'[s] = entry[s]
        /\ \A f \in Executions : f # e => active'[f] = active[f]
    BY <1>0, <2>1 DEF CallerInv, NoEntry
  <2>4. \A s \in Runs : s # r => (Live(s)' <=> Live(s))
    BY <2>2 DEF Live
  <2>5. \A s \in Runs : s # r => (Holds(s)' <=> Holds(s))
    BY <2>1, <2>2, <2>3 DEF Holds, Entered, Slotted, ccVars, Limited
  <2>6. db[e] # "waiting"
    BY <2>2 DEF StatusInv
  <2>7. \A s \in Runs : Holds(s) => s # r /\ ExecutionOf(s) # e
    BY <2>2 DEF HoldInv, SameExecution, Holds
  <2>8. \A s \in Runs : Holds(s)' =>
              /\ active'[ExecutionOf(s)] = s /\ ~entry'[s].settled
              /\ db'[ExecutionOf(s)] # "waiting"
              /\ pc'[s] \notin {"waitRequested", "saving-waiting", "done"}
    BY <1>6, <2>1, <2>2, <2>3, <2>5, <2>6, <2>7 DEF HoldInv
  <2>9. \A q, s \in Runs : Live(q) /\ Live(s) /\ SameExecution(q, s) => q = s
    BY DEF StatusInv
  <2>10. \A q, s \in Runs : Live(q)' /\ Holds(s)' /\ SameExecution(q, s) => q = s
    BY <2>2, <2>4, <2>5, <2>7, <2>9 DEF HoldInv, SameExecution
  <2> QED BY <1>0, <2>8, <2>10 DEF HoldInv, SameExecution, ExecutionOf
<1>4. CASE FinalizeFailedCheck(r) \/ EngineResolves(r)
  <2>1. /\ pc[r] \in {"checkFailed", "saved"} /\ pc' = [pc EXCEPT ![r] = "done"]
        /\ db' = db
        /\ \/ Finalize(e)
           \/ UNCHANGED <<ccVars, active, entry>> /\ (r \in detached \/ active[e] = None)
    BY <1>4 DEF FinalizeFailedCheck, EngineResolves, Goto
  <2>2. /\ pc'[r] = "done" /\ Entered(r) /\ ~Live(r)
        /\ \A s \in Runs : s # r => pc'[s] = pc[s]
    BY <1>0, <2>1 DEF Live, Entered, EnteredStates, LiveStates
  <2>3. SlotsKeep /\ ~Holds(r)'
    <3>1. Holds(r) => active[e] = r
      BY DEF HoldInv
    <3>2. CASE Finalize(e)
      <4>1. /\ SlotsKeep
            /\ \A s \in Runs : Entered(s) /\ s = active[e] /\ Slotted(s)' =>
                  entry'[s].status = "waiting"
        BY <1>0, <3>2, EndSlots
      <4> QED BY <2>2, <3>1, <4>1 DEF SlotsKeep, Holds
    <3>3. CASE UNCHANGED <<ccVars, active, entry>> /\ (r \in detached \/ active[e] = None)
      <4> DEFINE R == {}
      <4>1. Shifts(R, R) /\ \A q \in R : ~Entered(q)
        BY <3>3, ShiftsNone
      <4> HIDE DEF R
      <4>2. SlotsKeep
        BY <3>3, <4>1, SlotsSame
      <4>3. ~Holds(r)
        BY <3>1, <3>3, NoneAssumption DEF PlaceInv
      <4> QED BY <2>2, <4>2, <4>3 DEF SlotsKeep, Holds
    <3> QED BY <2>1, <3>2, <3>3
  <2>4. /\ \A s \in Runs : Entered(s)' => Entered(s)
        /\ \A s \in Runs : Live(s)' => Live(s)
    BY <2>2 DEF Live, Entered, LiveStates
  <2>5. \A s \in Runs : Holds(s) /\ Holds(s)' =>
              /\ db'[ExecutionOf(s)] # "waiting"
              /\ pc'[s] \notin {"waitRequested", "saving-waiting", "done"}
    BY <2>1, <2>2, <2>3 DEF HoldInv
  <2> QED BY <1>0, <2>3, <2>4, <2>5, HoldKeeps
<1>5. CASE \/ CheckFails(r) \/ CheckPasses(r) \/ SetRunning(r) \/ Launch(r)
           \/ PutExecutionToWait(r) \/ EndEngine(r) \/ Save(r)
  <2>0. \A o \in DOMAIN SavingState : SavingState[o] \in LiveStates \ {"marked"}
    BY DEF SavingState, LiveStates
  <2>1. /\ UNCHANGED <<ccVars, active>> /\ Entered(r)
    BY <1>5, <2>0 DEF CheckFails, CheckPasses, SetRunning, Launch, PutExecutionToWait,
        EndEngine, EngineEnds, Save, SaveResult, Entered, EnteredStates, LiveStates
  <2>2. PICK x \in EnteredStates :
          /\ pc' = [pc EXCEPT ![r] = x]
          /\ x \in LiveStates => Live(r)
    <3>1. CASE EndEngine(r)
      <4>1. PICK o \in DOMAIN SavingState : EngineEnds(r, o)
        BY <3>1 DEF EndEngine
      <4>2. (IF r \in cancelled THEN "saved" ELSE SavingState[o]) \in EnteredStates
        BY DEF EnteredStates, LiveStates, SavingState
      <4>3. Live(r)
        BY <4>1 DEF EngineEnds, Live, LiveStates
      <4> QED BY <4>1, <4>2, <4>3 DEF EngineEnds, Goto
    <3>2. CASE Save(r)
      <4>1. Live(r) /\ pc' = [pc EXCEPT ![r] = "saved"]
        BY <2>0, <3>2 DEF Save, SaveResult, Goto, Live
      <4> QED BY <4>1 DEF EnteredStates
    <3>3. CASE ~EndEngine(r) /\ ~Save(r)
      BY <1>5, <3>3 DEF CheckFails, CheckPasses, SetRunning, Launch, PutExecutionToWait,
                  Goto, Live, EnteredStates, LiveStates
    <3> QED BY <3>1, <3>2, <3>3
  <2>3. /\ pc'[r] = x /\ \A s \in Runs : s # r => pc'[s] = pc[s]
    BY <1>0, <2>2
  <2>4. /\ \A s \in Runs : Entered(s)' => Entered(s)
        /\ \A s \in Runs : Live(s)' => Live(s)
    BY <2>1, <2>2, <2>3 DEF Live, Entered, LiveStates
  <2>5. \A s \in Runs : /\ entry'[s].settled = entry[s].settled
                        /\ entry[s].status = "waiting" => entry'[s].status = "waiting"
    <3>1. CASE entry' = entry
      BY <3>1
    <3>2. active[e] # None => active[e] \in Runs
      BY <1>0 DEF CallerInv
    <3>3. CASE \E s \in Runs :
               \/ entry' = [entry EXCEPT ![s] = [@ EXCEPT !.response = TRUE]]
               \/ entry' = [entry EXCEPT ![s] = [@ EXCEPT !.workflow = r]]
               \/ entry' = [entry EXCEPT ![s] = [@ EXCEPT !.status = "waiting"]]
      <4>1. \A a \in Entry :
            /\ [a EXCEPT !.response = TRUE].settled = a.settled
            /\ [a EXCEPT !.workflow = r].settled = a.settled
            /\ [a EXCEPT !.status = "waiting"].settled = a.settled
            /\ [a EXCEPT !.response = TRUE].status = a.status
            /\ [a EXCEPT !.workflow = r].status = a.status
            /\ [a EXCEPT !.status = "waiting"].status = "waiting"
        BY DEF Entry
      <4>2. entry \in [Runs -> Entry]
        BY DEF CallerInv
      <4>3. PICK s \in Runs :
               \/ entry' = [entry EXCEPT ![s] = [@ EXCEPT !.response = TRUE]]
               \/ entry' = [entry EXCEPT ![s] = [@ EXCEPT !.workflow = r]]
               \/ entry' = [entry EXCEPT ![s] = [@ EXCEPT !.status = "waiting"]]
        BY <3>3
      <4>4. entry[s] \in Entry
        BY <4>2
      <4>5. /\ entry'[s].settled = entry[s].settled
            /\ entry'[s].status \in {entry[s].status, "waiting"}
        <5>1. CASE entry' = [entry EXCEPT ![s] = [@ EXCEPT !.response = TRUE]]
          BY <4>1, <4>2, <4>4, <5>1
        <5>2. CASE entry' = [entry EXCEPT ![s] = [@ EXCEPT !.workflow = r]]
          BY <4>1, <4>2, <4>4, <5>2
        <5>3. CASE entry' = [entry EXCEPT ![s] = [@ EXCEPT !.status = "waiting"]]
          BY <4>1, <4>2, <4>4, <5>3
        <5> QED BY <4>3, <5>1, <5>2, <5>3
      <4>6. \A q \in Runs : q # s => entry'[q] = entry[q]
        BY <4>2, <4>3
      <4> QED BY <4>5, <4>6
    <3>4. \/ entry' = entry
          \/ /\ active[e] # None
             /\ \/ entry' = [entry EXCEPT ![active[e]] = [@ EXCEPT !.response = TRUE]]
                \/ entry' = [entry EXCEPT ![active[e]] = [@ EXCEPT !.workflow = r]]
                \/ entry' = [entry EXCEPT ![active[e]] = [@ EXCEPT !.status = "waiting"]]
      BY <1>5 DEF CheckFails, CheckPasses, SetRunning, Launch, PutExecutionToWait, EndEngine,
             EngineEnds, Save, SaveResult
    <3> QED BY <3>1, <3>2, <3>3, <3>4
  <2> DEFINE R == {}
  <2>6. Shifts(R, R) /\ \A q \in R : ~Entered(q)
    BY <2>1, ShiftsNone
  <2> HIDE DEF R
  <2>7. SlotsKeep
    BY <2>1, <2>5, <2>6, SlotsSame
  <2>8. Holds(r) /\ Holds(r)' => pc'[r] \notin {"waitRequested", "saving-waiting", "done"}
    <3>1. Holds(r) => active[e] = r /\ pc[r] # "waitRequested"
      BY DEF HoldInv
    <3>2. CASE PutExecutionToWait(r)
      <4>1. Holds(r) => entry'[r].status = "waiting"
        <5>1. entry' = [entry EXCEPT ![active[e]] = [@ EXCEPT !.status = "waiting"]]
          BY <3>2 DEF PutExecutionToWait
        <5>2. entry \in [Runs -> Entry] /\ entry[r] \in Entry
          BY DEF CallerInv
        <5>3. \A a \in Entry : [a EXCEPT !.status = "waiting"].status = "waiting"
          BY DEF Entry
        <5> QED BY <3>1, <5>1, <5>2, <5>3
      <4> QED BY <4>1 DEF Holds
    <3>3. CASE CheckPasses(r)
      <4>1. /\ pc'[r] \in {"preparing", "done"}
            /\ pc'[r] = "done" => active[e] = None
        BY <1>0, <3>3 DEF CheckPasses, Goto
      <4> QED BY <3>1, <4>1, NoneAssumption
    <3>4. CASE EndEngine(r)
      <4>1. PICK o \in DOMAIN SavingState : EngineEnds(r, o)
        BY <3>4 DEF EndEngine
      <4>2. o \in {"success", "error", "waiting", "canceled"}
        BY DEF SavingState
      <4>3. pc'[r] = IF r \in cancelled THEN "saved" ELSE SavingState[o]
        BY <1>0, <4>1 DEF EngineEnds, Goto
      <4>4. o = "waiting" => pc[r] = "waitRequested"
        BY <4>1 DEF EngineEnds
      <4> QED BY <3>1, <4>2, <4>3, <4>4 DEF SavingState
    <3>5. CASE CheckFails(r) \/ SetRunning(r) \/ Launch(r) \/ Save(r)
      BY <1>0, <3>5 DEF CheckFails, SetRunning, Launch, Save, SaveResult, Goto
    <3> QED BY <1>5, <3>2, <3>3, <3>4, <3>5
  <2>9. \A s \in Runs : Holds(s) => db'[ExecutionOf(s)] # "waiting"
    <3>1. CASE Save(r)
      <4>1. PICK o \in DOMAIN SavingState : SaveResult(r, o)
        BY <3>1 DEF Save
      <4>2. db' = [db EXCEPT ![e] = o] /\ pc[r] = SavingState[o]
        BY <4>1 DEF SaveResult
      <4>3. Live(r) /\ (o = "waiting" => ~Holds(r))
        BY <2>0, <4>2 DEF Live, HoldInv, SavingState
      <4>4. \A s \in Runs : Holds(s) /\ ExecutionOf(s) = e => o # "waiting"
        BY <4>3 DEF HoldInv, SameExecution
      <4> QED BY <1>0, <1>6, <4>2, <4>4 DEF HoldInv
    <3>2. CASE ~Save(r)
      <4>1. \/ db' = db
            \/ \E st \in {"error", "running"} : db' = [db EXCEPT ![e] = st]
        BY <1>5, <3>2 DEF CheckFails, CheckPasses, SetRunning, Launch, PutExecutionToWait,
                          EndEngine, EngineEnds
      <4> QED BY <1>0, <1>6, <4>1 DEF HoldInv
    <3> QED BY <3>1, <3>2
  <2>10. \A s \in Runs : Holds(s) /\ Holds(s)' =>
              /\ db'[ExecutionOf(s)] # "waiting"
              /\ pc'[s] \notin {"waitRequested", "saving-waiting", "done"}
    BY <2>3, <2>8, <2>9 DEF HoldInv
  <2> QED BY <1>0, <2>4, <2>7, <2>10, HoldKeeps
<1> QED BY <1>1, <1>2, <1>3, <1>4, <1>5 DEF RunStep

(* Every step keeps what the slots rest on. *)
LEMMA HoldNext ==
    SlotInv /\ CallerInv /\ StatusInv /\ StatusInv' /\ [Next]_vars => HoldInv'
<1> SUFFICES ASSUME PlaceInv, HoldInv, CallerInv, StatusInv, StatusInv', [Next]_vars
             PROVE  HoldInv'
  BY DEF SlotInv
<1>0. /\ db \in [Executions -> Status]
      /\ \A s \in Runs : Holds(s) => ExecutionOf(s) \in Executions
  BY DEF Holds, Entered, EnteredStates, LiveStates, StatusInv, StatusTypes, Gone, Call,
         ExecutionOf
<1>1. ASSUME NEW r \in Runs, StartRun(r) PROVE HoldInv'
  <2>1. /\ pc[r] = "idle" /\ pc' = [pc EXCEPT ![r] = "called"]
        /\ UNCHANGED <<ccVars, active, entry>>
        /\ db' = db \/ \E e \in Executions : db' = [db EXCEPT ![e] = "new"]
        /\ \A s \in Runs : s # r => call'[s] = call[s]
    BY <1>1 DEF StartRun, CreateExecution, BeginResume, RunEnqueued, Goto,
                StatusInv, StatusTypes
  <2>2. /\ ~Entered(r) /\ pc'[r] = "called" /\ \A s \in Runs : s # r => pc'[s] = pc[s]
    BY <2>1 DEF StatusInv, StatusTypes, Entered, EnteredStates, LiveStates
  <2>3. \A s \in Runs : Live(s)' => s # r /\ Live(s)
    BY <2>2 DEF Live, LiveStates
  <2>4. \A s \in Runs : Holds(s)' => s # r /\ Holds(s)
    BY <2>1, <2>2 DEF Holds, Slotted, Entered, EnteredStates, LiveStates, ccVars, Limited
  <2>5. \A s \in Runs : Holds(s)' => db'[ExecutionOf(s)] # "waiting"
    BY <1>0, <2>1, <2>4 DEF HoldInv
  <2>6. \A s \in Runs : s # r => ExecutionOf(s)' = ExecutionOf(s)
    BY <2>1 DEF ExecutionOf
  <2>7. \A s \in Runs : Holds(s)' =>
              /\ (active[ExecutionOf(s)] = s)' /\ (~entry[s].settled)'
              /\ (db[ExecutionOf(s)] # "waiting")'
              /\ pc'[s] \notin {"waitRequested", "saving-waiting", "done"}
    BY <2>1, <2>2, <2>4, <2>5, <2>6 DEF HoldInv
  <2>8. \A q, s \in Runs : Live(q)' /\ Holds(s)' /\ SameExecution(q, s)' => q = s
    BY <2>3, <2>4, <2>6 DEF HoldInv, SameExecution
  <2> QED BY <2>7, <2>8 DEF HoldInv
<1>2. ASSUME NEW r \in Runs, RunStep(r) PROVE HoldInv'
  BY <1>2, HoldRuns
<1> DEFINE R == {}
<1>4. \A q \in R : ~Entered(q)
  OBVIOUS
<1>5. ASSUME UNCHANGED <<ccVars, active, entry>> PROVE SlotsKeep
  <2>1. Shifts(R, R)
    BY <1>5, ShiftsNone
  <2> HIDE DEF R
  <2> QED BY <1>4, <1>5, <2>1, SlotsSame
<1>6. ASSUME NEW e \in Executions, Remove(e), UNCHANGED <<active, entry>> PROVE SlotsKeep
  <2>1. Shifts(R, R)
    BY <1>6, RemoveShifts DEF CallerInv
  <2> HIDE DEF R
  <2> QED BY <1>4, <1>6, <2>1, SlotsSame
<1> HIDE DEF R
<1>7. ASSUME UNCHANGED <<pc, call>>, SlotsKeep,
             \A e \in Executions : db'[e] = "waiting" => db[e] = "waiting"
      PROVE  HoldInv'
  <2>1. /\ \A s \in Runs : Entered(s)' => Entered(s)
        /\ \A s \in Runs : Live(s)' => Live(s)
    BY <1>7 DEF Entered, Live
  <2>2. \A s \in Runs : Holds(s) /\ Holds(s)' =>
              /\ db'[ExecutionOf(s)] # "waiting"
              /\ pc'[s] \notin {"waitRequested", "saving-waiting", "done"}
    BY <1>0, <1>7 DEF HoldInv
  <2> QED BY <1>7, <2>1, <2>2, HoldKeeps
<1>8. CASE UNCHANGED vars
  BY <1>5, <1>7, <1>8 DEF vars, lifeVars
<1>9. ASSUME NEW e \in Executions, StopExecution(e) PROVE SlotsKeep
  BY <1>9, EndSlots
<1>10. ASSUME NEW r \in Runs, TimeoutFires(r) PROVE HoldInv'
  <2>1. ~Gone(r)
    BY <1>10 DEF TimeoutFires, CallerInv, Entered, EnteredStates, LiveStates, Gone
  <2>2. ExecutionOf(r) \in Executions
    BY <2>1 DEF StatusInv, Call, ExecutionOf
  <2> QED BY <1>7, <1>9, <1>10, <2>2 DEF TimeoutFires
<1>11. ASSUME NEW r \in Runs, SaveCanceled(r) PROVE HoldInv'
  <2>1. \A e \in Executions : db'[e] = "waiting" => db[e] = "waiting"
    BY <1>0, <1>11 DEF SaveCanceled
  <2> QED BY <1>5, <1>7, <1>11, <2>1 DEF SaveCanceled
<1>12. ASSUME NEW e \in Executions, StopStep(e) PROVE HoldInv'
  <2>1. \A f \in Executions : db'[f] = "waiting" => db[f] = "waiting"
    BY <1>0, <1>12 DEF StopStep, StopRead, StopApply, StopSave
  <2>2. UNCHANGED <<pc, call>>
    BY <1>12 DEF StopStep, StopRead, StopApply, StopSave
  <2>3. SlotsKeep
    BY <1>5, <1>6, <1>9, <1>12 DEF StopStep, StopRead, StopApply, StopSave
  <2> QED BY <1>7, <2>1, <2>2, <2>3
<1>13. CASE Shutdown
  BY <1>13 DEF Shutdown, Disable, HoldInv, Holds, Slotted
<1>14. CASE Exit \/ Crash
  <2>1. \A r \in Runs : pc'[r] \in {"idle", "dead"}
    BY <1>14 DEF Exit, Crash, GoDown
  <2> QED BY <2>1 DEF HoldInv, Holds, Entered, EnteredStates, LiveStates
<1>15. CASE Boot
  <2>1. \A r \in Runs : pc'[r] \in {"idle", "dead"}
    BY <1>15 DEF Boot, StatusInv, Gone
  <2> QED BY <2>1 DEF HoldInv, Holds, Entered, EnteredStates, LiveStates
<1> QED BY <1>1, <1>2, <1>8, <1>10, <1>11, <1>12, <1>13, <1>14, <1>15 DEF Next

(* No run has a slot initially. *)
LEMMA SlotInit == Init => SlotInv
BY DEF Init, CCInit, SlotInv, PlaceInv, HoldInv, Holds, Slotted, Queued

(* The three layers hold together. *)
THEOREM LifeInvHolds == Spec => [](StatusInv /\ CallerInv /\ SlotInv)
<1>1. StatusInv /\ CallerInv /\ SlotInv /\ [Next]_vars
        => StatusInv' /\ CallerInv' /\ SlotInv'
  BY StatusNext, CallerNext, PlaceNext, HoldNext DEF CallerStep, SlotInv
<1> QED BY <1>1, StatusInit, CallerInit, SlotInit, PTL DEF Spec

(* A run that is over holds no slot, unless its entry waits: every slot that
   throttle() gave comes back.                                                *)
THEOREM SlotsComeBackHolds == Spec => []SlotsComeBack
<1>1. StatusInv /\ CallerInv /\ SlotInv => SlotsComeBack
  <2> SUFFICES ASSUME CallerInv, SlotInv, isEnabled, NEW t \in Limited,
                      NEW r \in granted[t], pc[r] = "done", entry[r].status # "waiting"
               PROVE  FALSE
    BY DEF SlotsComeBack
  <2>1. r \in Runs
    BY KnownRuns
  <2>2. Holds(r)
    BY DEF Holds, Slotted, Entered, EnteredStates
  <2> QED BY <2>1, <2>2 DEF SlotInv, HoldInv
<1> QED BY <1>1, LifeInvHolds, PTL

-----------------------------------------------------------------------------
(* Type correctness. *)

OtherTypes ==
    /\ cancelled \subseteq Runs
    /\ cancelSave \subseteq Runs
    /\ stopping \in [Executions -> StopState]
    /\ phase \in {"up", "draining", "down"}
    /\ restarts \in 0..MaxRestarts

(* Only runs are cancelled. *)
LEMMA StopTypes ==
    ASSUME CallerInv, OtherTypes, NEW S \in SUBSET Executions, StopEntries(S)
    PROVE  cancelled' \subseteq Runs /\ cancelSave' \subseteq Runs
<1>1. ToReject(S) \subseteq Runs
  BY DEF ToReject, CallerInv
<1>2. \A x \in Runs : entry[x].workflow \in Runs \cup {None}
  <2>1. \A x \in Runs : entry[x] \in Entry
    BY DEF CallerInv
  <2> QED BY <2>1 DEF Entry
<1> QED BY <1>1, <1>2 DEF StopEntries, OtherTypes

(* Every step keeps the types that the layers above leave out. *)
LEMMA OtherTypesNext == OtherTypes /\ CallerInv /\ StatusInv /\ [Next]_vars => OtherTypes'
<1> SUFFICES ASSUME OtherTypes, CallerInv, StatusInv, [Next]_vars PROVE OtherTypes'
  OBVIOUS
<1>1. ASSUME UNCHANGED <<cancelled, cancelSave, stopping, phase, restarts>>
      PROVE  OtherTypes'
  BY <1>1 DEF OtherTypes
<1>2. CASE UNCHANGED vars
  BY <1>1, <1>2 DEF vars, lifeVars
<1>3. ASSUME NEW r \in Runs, StartRun(r) PROVE OtherTypes'
  BY <1>1, <1>3 DEF StartRun, CreateExecution, BeginResume, RunEnqueued
<1>4. ASSUME NEW r \in Runs, RunStep(r) PROVE OtherTypes'
  BY <1>1, <1>4 DEF RunStep, CallThrottle, MarkNewRunning, MarkExistingRunning, Activate,
      CheckFails, FinalizeFailedCheck, CheckPasses, SetRunning, Launch, PutExecutionToWait,
      EndEngine, EngineEnds, Save, SaveResult, EngineResolves
<1>5. ASSUME NEW r \in Runs, SaveCanceled(r) PROVE OtherTypes'
  BY <1>5 DEF SaveCanceled, OtherTypes
<1>6. ASSUME NEW r \in Runs, TimeoutFires(r) PROVE OtherTypes'
  <2>1. ~Gone(r)
    BY <1>6 DEF TimeoutFires, CallerInv, Entered, EnteredStates, LiveStates, Gone
  <2>2. {ExecutionOf(r)} \in SUBSET Executions
    BY <2>1 DEF StatusInv, Call, ExecutionOf
  <2>3. StopEntries({ExecutionOf(r)}) /\ UNCHANGED <<stopping, phase, restarts>>
    BY <1>6 DEF TimeoutFires, StopExecution
  <2> QED BY <2>2, <2>3, StopTypes DEF OtherTypes
<1>7. ASSUME NEW e \in Executions, StopStep(e) PROVE OtherTypes'
  <2>1. /\ UNCHANGED <<phase, restarts>>
        /\ \E s \in StopState : stopping' = [stopping EXCEPT ![e] = s]
    BY <1>7 DEF StopStep, StopRead, StopApply, StopSave, StopState
  <2>2. cancelled' \subseteq Runs /\ cancelSave' \subseteq Runs
    <3>1. CASE StopEntries({e})
      BY <3>1, StopTypes
    <3>2. CASE UNCHANGED <<cancelled, cancelSave>>
      BY <3>2 DEF OtherTypes
    <3> QED BY <1>7, <3>1, <3>2 DEF StopStep, StopRead, StopApply, StopSave, StopExecution
  <2> QED BY <2>1, <2>2 DEF OtherTypes
<1>8. CASE Shutdown
  <2>1. PICK S \in SUBSET Executions : StopEntries(S)
    BY <1>8 DEF Shutdown, ActiveOnes
  <2> QED BY <1>8, <2>1, StopTypes DEF Shutdown, OtherTypes
<1>9. CASE Exit \/ Crash
  <2>1. GoDown /\ restarts < MaxRestarts
    BY <1>9 DEF Exit, Crash
  <2> QED BY <2>1, RestartAssumption DEF GoDown, OtherTypes, StopState
<1>10. CASE Boot
  BY <1>10 DEF Boot, OtherTypes
<1> QED BY <1>2, <1>3, <1>4, <1>5, <1>6, <1>7, <1>8, <1>9, <1>10 DEF Next

(* Type correctness of the lifecycle. *)
THEOREM LifecycleTypeHolds == Spec => []TypeOK
<1>1. Init => OtherTypes
  BY RestartAssumption DEF Init, OtherTypes, StopState
<1>2. StatusInv /\ CallerInv /\ SlotInv /\ OtherTypes => TypeOK
  BY DEF StatusInv, StatusTypes, CallerInv, IInv, SlotInv, PlaceInv, OtherTypes, TypeOK
<1>3. StatusInv /\ CallerInv /\ SlotInv /\ OtherTypes /\ [Next]_vars => OtherTypes'
  BY OtherTypesNext
<1> QED BY <1>1, <1>2, <1>3, LifeInvHolds, PTL DEF Spec
=============================================================================
