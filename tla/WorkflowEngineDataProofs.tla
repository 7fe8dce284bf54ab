---------------------- MODULE WorkflowEngineDataProofs ----------------------
(***************************************************************************)
(* That WorkflowEngine neither loses nor repeats data: in any workflow as  *)
(* long as what is added finds room among the data that waits, and in      *)
(* which workflows it does.                                                *)
(***************************************************************************)
EXTENDS WorkflowEngineProofs

\* Data that is added for one of several inputs goes to an entry that lacks it, or to
\* an index that is free.
FindsRoom(plan, a) ==
    numberOfInputs(a.entry.node) > 1 =>
        LET entries == plan.waiting[a.entry.node]
            index   == WaitingIndex(entries, a.input)
        IN  index \in DOMAIN entries => entries[index][a.input + 1] = Missing

\* Whatever the running node outputs, none of it takes the place of data that waits:
\* "There is currently no node waiting that does not already have data for the given
\* input, so create a new entry" (addNodeToBeExecuted). It is what DataExactlyOnce
\* needs, and does not hold for every workflow: see engine_data_lost.
DataFindsRoom ==
    pc = "node" /\ current.node \notin workflow.destination =>
        \A output \in SUBSET Outputs :
            LET children == Children(current.node, current.run, output)
            IN  \A k \in DOMAIN children : FindsRoom(Added(children)[k - 1], children[k])
-----------------------------------------------------------------------------
(* The places of data                                                       *)

\* The entry has the data for the input of its node.
Holds(e, n, input, slot) ==
    e.node = n /\ input + 1 \in DOMAIN e.data /\ e.data[input + 1] = slot

\* Where some entries have it.
Holding(s, n, input, slot) == {i \in DOMAIN s : Holds(s[i], n, input, slot)}

\* They are counted.
LEMMA InEntriesIs ==
    ASSUME NEW s, Len(s) \in Nat, DOMAIN s = 1..Len(s), NEW n, NEW input, NEW slot
    PROVE  /\ InEntries(s, n, input, slot) = Cardinality(Holding(s, n, input, slot))
           /\ IsFiniteSet(Holding(s, n, input, slot))
           /\ InEntries(s, n, input, slot) \in Nat
<1>1. InEntries(s, n, input, slot) = Cardinality(Holding(s, n, input, slot))
    BY DEF InEntries, Holding, Holds
<1>2. Holding(s, n, input, slot) \in SUBSET (1..Len(s)) /\ IsFiniteSet(1..Len(s))
    BY FS_Interval DEF Holding
<1> QED BY <1>1, <1>2, FS_Subset, FS_CardinalityType

\* As many entries have it if they are the same but for what is done with them.
LEMMA InEntriesSame ==
    ASSUME NEW s, NEW t, DOMAIN s = DOMAIN t, NEW n, NEW input, NEW slot,
           \A i \in DOMAIN s : s[i].node = t[i].node /\ s[i].data = t[i].data
    PROVE  InEntries(s, n, input, slot) = InEntries(t, n, input, slot)
<1>1. Holding(s, n, input, slot) = Holding(t, n, input, slot)
    BY DEF Holding, Holds
<1> QED BY <1>1 DEF InEntries, Holding, Holds

\* Indexes that are one higher are as many.
LEMMA Shifted ==
    ASSUME NEW A \in SUBSET Nat, IsFiniteSet(A), NEW B,
           \A i \in B : i - 1 \in A /\ i \in Nat /\ i # 0, \A i \in A : i + 1 \in B
    PROVE  IsFiniteSet(B) /\ Cardinality(B) = Cardinality(A)
<1> DEFINE f == [i \in A |-> i + 1]
<1>1. f \in Bijection(A, B)
    <2>1. f \in [A -> B]
        OBVIOUS
    <2>2. \A i, k \in A : f[i] = f[k] => i = k
        OBVIOUS
    <2>3. ASSUME NEW b \in B PROVE \E i \in A : f[i] = b
        <3>1. b - 1 \in A /\ (b - 1) + 1 = b
            OBVIOUS
        <3> QED BY <3>1
    <2> HIDE DEF f
    <2>4. f \in Injection(A, B) /\ f \in Surjection(A, B)
        BY <2>1, <2>2, <2>3 DEF Injection, Surjection, IsInjective
    <2> QED BY <2>4 DEF Bijection
<1> HIDE DEF f
<1>2. ExistsBijection(A, B)
    BY <1>1 DEF ExistsBijection
<1> QED BY <1>2, FS_Bijection

\* With one entry more on top.
LEMMA InEntriesOnTop ==
    ASSUME NEW T, NEW s \in Seq(T), NEW e \in T, NEW n, NEW input, NEW slot
    PROVE  InEntries(<<e>> \o s, n, input, slot)
                = (IF Holds(e, n, input, slot) THEN 1 ELSE 0) + InEntries(s, n, input, slot)
<1> DEFINE t == <<e>> \o s
           A == Holding(s, n, input, slot)
           B == {i \in Holding(t, n, input, slot) : i # 1}
<1>1. /\ Len(s) \in Nat /\ Len(t) = Len(s) + 1 /\ t[1] = e
      /\ DOMAIN s = 1..Len(s) /\ DOMAIN t = 1..(Len(s) + 1)
      /\ \A i \in 1..Len(s) : t[i + 1] = s[i]
    OBVIOUS
<1> HIDE DEF t
<1>2. /\ A \in SUBSET (1..Len(s)) /\ IsFiniteSet(A) /\ Cardinality(A) \in Nat
      /\ InEntries(s, n, input, slot) = Cardinality(A)
    <2>1. A \in SUBSET (1..Len(s))
        BY <1>1 DEF Holding
    <2>2. /\ IsFiniteSet(A) /\ InEntries(s, n, input, slot) = Cardinality(A)
          /\ InEntries(s, n, input, slot) \in Nat
        BY <1>1, InEntriesIs
    <2> QED BY <2>1, <2>2
<1>3. \A i \in A : i \in 1..Len(s) /\ Holds(s[i], n, input, slot)
    BY <1>1 DEF Holding
<1>4. \A i \in B : i \in 2..(Len(s) + 1) /\ Holds(t[i], n, input, slot)
    BY <1>1 DEF Holding
<1>5. \A i \in B : i - 1 \in A /\ i \in Nat /\ i # 0
    <2> SUFFICES ASSUME NEW i \in B PROVE i - 1 \in A /\ i \in Nat /\ i # 0
        OBVIOUS
    <2>1. i \in 2..(Len(s) + 1) /\ Holds(t[i], n, input, slot)
        BY <1>4
    <2>2. i - 1 \in 1..Len(s) /\ t[(i - 1) + 1] = s[i - 1] /\ (i - 1) + 1 = i
        BY <1>1, <2>1
    <2>3. Holds(s[i - 1], n, input, slot)
        BY <2>1, <2>2
    <2> QED BY <1>1, <2>1, <2>2, <2>3 DEF Holding
<1>6. \A i \in A : i + 1 \in B
    <2> SUFFICES ASSUME NEW i \in A PROVE i + 1 \in B
        OBVIOUS
    <2>1. i \in 1..Len(s) /\ Holds(s[i], n, input, slot)
        BY <1>3
    <2>2. i + 1 \in 1..(Len(s) + 1) /\ t[i + 1] = s[i] /\ i + 1 # 1
        BY <1>1, <2>1
    <2> QED BY <1>1, <2>1, <2>2 DEF Holding
<1>7. (1 \in Holding(t, n, input, slot)) <=> Holds(e, n, input, slot)
    BY <1>1 DEF Holding
<1>8. Holding(t, n, input, slot) = IF Holds(e, n, input, slot) THEN B \cup {1} ELSE B
    BY <1>7
<1>9. InEntries(t, n, input, slot) = Cardinality(Holding(t, n, input, slot))
    BY <1>1, InEntriesIs
<1>10. A \in SUBSET Nat
    BY <1>2
<1>11. 1 \notin B
    OBVIOUS
<1> HIDE DEF A, B
<1>12. IsFiniteSet(B) /\ Cardinality(B) = Cardinality(A)
    BY <1>2, <1>5, <1>6, <1>10, Shifted
<1>13. Cardinality(B \cup {1}) = Cardinality(B) + 1
    BY <1>11, <1>12, FS_AddElement
<1>14. InEntries(t, n, input, slot)
            = (IF Holds(e, n, input, slot) THEN 1 ELSE 0) + InEntries(s, n, input, slot)
    BY <1>2, <1>8, <1>9, <1>12, <1>13
<1> QED BY <1>14 DEF t

\* With one entry more at the bottom.
LEMMA InEntriesAtBottom ==
    ASSUME NEW T, NEW s \in Seq(T), NEW e \in T, NEW n, NEW input, NEW slot
    PROVE  InEntries(Append(s, e), n, input, slot)
                = (IF Holds(e, n, input, slot) THEN 1 ELSE 0) + InEntries(s, n, input, slot)
<1> DEFINE t == Append(s, e)
           A == Holding(s, n, input, slot)
           B == Holding(t, n, input, slot)
           k == Len(s) + 1
<1>1. /\ Len(s) \in Nat /\ Len(t) = k /\ t[k] = e
      /\ DOMAIN s = 1..Len(s) /\ DOMAIN t = 1..k
      /\ \A i \in 1..Len(s) : t[i] = s[i]
    OBVIOUS
<1> HIDE DEF t
<1>2. IsFiniteSet(A) /\ Cardinality(A) \in Nat /\ InEntries(s, n, input, slot) = Cardinality(A)
    BY <1>1, InEntriesIs
<1>3. InEntries(t, n, input, slot) = Cardinality(B)
    BY <1>1, InEntriesIs
<1>4. k \notin A
    BY <1>1 DEF Holding
<1>5. \A i : i \in B <=> i \in A \/ (i = k /\ Holds(e, n, input, slot))
    <2>1. \A i : i \in 1..k <=> i \in 1..Len(s) \/ i = k
        BY <1>1
    <2>2. k \notin 1..Len(s)
        BY <1>1
    <2> QED BY <1>1, <2>1, <2>2 DEF Holding
<1> HIDE DEF A, B, k
<1>6. B = IF Holds(e, n, input, slot) THEN A \cup {k} ELSE A
    BY <1>5
<1>7. Cardinality(A \cup {k}) = Cardinality(A) + 1
    BY <1>2, <1>4, FS_AddElement
<1> QED BY <1>2, <1>3, <1>6, <1>7 DEF t

\* How often the data waits for an input, and how often a plan has it.
InRoom(room, input, slot) == Cardinality({i \in DOMAIN room : room[i][input + 1] = slot})
PlanPlaces(plan, n, input, slot) ==
    InEntries(plan.stack, n, input, slot) + InRoom(plan.waiting[n], input, slot)

\* A room without one of its places.
But(room, index, rest) ==
    DOMAIN rest = DOMAIN room \ {index} /\ \A i \in DOMAIN rest : rest[i] = room[i]

\* One place of a room, and the others.
LEMMA InRoomBut ==
    ASSUME NEW room, IsFiniteSet(DOMAIN room), NEW rest, NEW index, But(room, index, rest),
           NEW input, NEW slot
    PROVE  /\ InRoom(room, input, slot) \in Nat /\ InRoom(rest, input, slot) \in Nat
           /\ InRoom(room, input, slot) = InRoom(rest, input, slot)
                + (IF index \in DOMAIN room /\ room[index][input + 1] = slot THEN 1 ELSE 0)
<1> DEFINE A == {i \in DOMAIN room : room[i][input + 1] = slot}
           B == {i \in DOMAIN rest : rest[i][input + 1] = slot}
<1>1. A \in SUBSET DOMAIN room /\ B \in SUBSET DOMAIN room
    BY DEF But
<1>2. \A i : i \in A <=> i \in B \/ (i = index /\ index \in DOMAIN room
                                            /\ room[index][input + 1] = slot)
    BY DEF But
<1>3. index \notin B
    BY DEF But
<1>4. InRoom(room, input, slot) = Cardinality(A) /\ InRoom(rest, input, slot) = Cardinality(B)
    BY DEF InRoom
<1> HIDE DEF A, B
<1>5. IsFiniteSet(A) /\ IsFiniteSet(B)
    BY <1>1, FS_Subset
<1>6. Cardinality(A) \in Nat /\ Cardinality(B) \in Nat
    BY <1>5, FS_CardinalityType
<1>7. CASE index \in DOMAIN room /\ room[index][input + 1] = slot
    <2>1. A = B \cup {index}
        BY <1>2, <1>7
    <2>2. Cardinality(B \cup {index}) = Cardinality(B) + 1
        BY <1>3, <1>5, FS_AddElement
    <2> QED BY <1>4, <1>6, <1>7, <2>1, <2>2
<1>8. CASE ~(index \in DOMAIN room /\ room[index][input + 1] = slot)
    <2>1. A = B
        BY <1>2, <1>8
    <2> QED BY <1>4, <1>6, <1>8, <2>1
<1> QED BY <1>7, <1>8

\* The entry that gets data was there and lacked it, or is new; it waits or, when it
\* lacks nothing more, is on the stack.
Gets(entries, index, room, n, input, slot, before, after, new) ==
    /\ Len(new) = 2 /\ new[input + 1] = slot
    /\ \A k \in 1..2 : k # input + 1 => new[k] =
            IF index \in DOMAIN entries /\ entries[index][input + 1] = Missing
            THEN entries[index][k] ELSE Missing
    /\ \A i \in DOMAIN entries \ {index} : i \in DOMAIN room /\ room[i] = entries[i]
    /\ \/ after = before /\ DOMAIN room = DOMAIN entries \cup {index} /\ room[index] = new
       \/ /\ new \in Seq(Data) /\ after = <<Entry(n, new)>> \o before
          /\ DOMAIN room = DOMAIN entries \ {index}

\* The plan after data for one of several inputs.
LEMMA AddWaitingIs ==
    ASSUME workflow \in Workflows, NEW plan, PlanInv(plan),
           NEW n \in Nodes, numberOfInputs(n) > 1, NEW input \in Indexes, NEW slot \in Data
    PROVE  LET p == AddWaiting(plan, n, input, slot)
           IN  /\ \A m \in Nodes \ {n} : p.waiting[m] = plan.waiting[m]
               /\ \E new \in Seq(Slots) :
                    Gets(plan.waiting[n], WaitingIndex(plan.waiting[n], input), p.waiting[n], n,
                         input, slot, plan.stack, p.stack, new)
<1> DEFINE entries == plan.waiting[n]
           index   == WaitingIndex(entries, input)
           old     == IF index \in DOMAIN entries /\ entries[index][input + 1] = Missing
                      THEN entries[index]
                      ELSE [i \in 1..numberOfInputs(n) |-> Missing]
           new     == [old EXCEPT ![input + 1] = slot]
           updated == [i \in DOMAIN entries \cup {index} |-> IF i = index THEN new ELSE entries[i]]
           keys    == IF Contains(plan.waitingNodes, n) THEN plan.waitingNodes
                      ELSE Append(plan.waitingNodes, n)
           stored  == [plan EXCEPT !.waiting[n] = updated, !.waitingNodes = keys]
           p       == AddWaiting(plan, n, input, slot)
<1>1. p = IF Contains(new, Missing) THEN stored
          ELSE [RemoveWaiting(stored, n, index) EXCEPT !.stack = <<Entry(n, new)>> \o @]
    BY DEF AddWaiting
<1>2. /\ plan \in [stack : Seq(Fed), waiting : [Nodes -> Rooms], waitingNodes : Seq(Nodes)]
      /\ \A i \in DOMAIN entries : Len(entries[i]) = numberOfInputs(n)
    BY DEF PlanInv, PlanShape
<1>3. numberOfInputs(n) = 2 /\ input \in 0..1
    BY InputsType DEF Indexes
<1> HIDE DEF p
<1>4. \A i \in DOMAIN entries : entries[i] \in Seq(Slots) /\ Len(entries[i]) = 2
    <2>1. entries \in Rooms
        BY <1>2
    <2> HIDE DEF entries
    <2>2. \A i \in DOMAIN entries : entries[i] \in Seq(Slots)
        BY <2>1, RoomType
    <2> QED BY <1>2, <1>3, <2>2
<1> HIDE DEF index
<1>5. /\ old \in Seq(Slots) /\ Len(old) = 2
      /\ \A k \in 1..2 : old[k] =
            IF index \in DOMAIN entries /\ entries[index][input + 1] = Missing
            THEN entries[index][k] ELSE Missing
    <2> HIDE DEF entries
    <2>1. CASE index \in DOMAIN entries /\ entries[index][input + 1] = Missing
        <3>1. old = entries[index]
            BY <2>1
        <3> HIDE DEF old
        <3> QED BY <1>4, <2>1, <3>1
    <2>2. CASE ~(index \in DOMAIN entries /\ entries[index][input + 1] = Missing)
        <3>1. old = [i \in 1..2 |-> Missing]
            BY <1>3, <2>2
        <3> HIDE DEF old
        <3>2. old \in Seq(Slots) /\ Len(old) = 2
            BY <3>1, DataFacts
        <3> QED BY <2>2, <3>1, <3>2
    <2> QED BY <2>1, <2>2
<1> HIDE DEF old
<1>6. /\ new \in Seq(Slots) /\ Len(new) = 2 /\ new[input + 1] = slot
      /\ \A k \in 1..2 : k # input + 1 => new[k] = old[k]
    <2> DEFINE place == input + 1
    <2>1. new = [old EXCEPT ![place] = slot]
        OBVIOUS
    <2>2. place \in 1..Len(old)
        BY <1>3, <1>5
    <2>3. old \in Seq(Slots) /\ slot \in Slots
        BY <1>5, DataFacts
    <2> HIDE DEF new, entries, place
    <2>4. /\ [old EXCEPT ![place] = slot] \in Seq(Slots)
          /\ Len([old EXCEPT ![place] = slot]) = Len(old)
          /\ \A i \in 1..Len(old) :
                [old EXCEPT ![place] = slot][i] = IF i = place THEN slot ELSE old[i]
        BY <2>2, <2>3, ExceptSeq
    <2>5. /\ new \in Seq(Slots) /\ Len(new) = Len(old)
          /\ \A i \in 1..Len(old) : new[i] = IF i = place THEN slot ELSE old[i]
        BY <2>1, <2>4
    <2> QED BY <1>5, <2>2, <2>5 DEF place
<1> HIDE DEF new
<1>7. /\ DOMAIN updated = DOMAIN entries \cup {index} /\ updated[index] = new
      /\ \A i \in DOMAIN entries \ {index} : updated[i] = entries[i]
    OBVIOUS
<1> DEFINE rooms == [plan.waiting EXCEPT ![n] = updated]
<1>8. stored = [stack |-> plan.stack, waiting |-> rooms, waitingNodes |-> keys]
    <2>1. stored = [plan EXCEPT !.waiting[n] = updated, !.waitingNodes = keys]
        OBVIOUS
    <2> HIDE DEF stored, entries, updated, keys
    <2> QED BY <1>2, <2>1
<1>9. /\ stored.stack = plan.stack /\ stored.waiting = rooms
      /\ rooms[n] = updated /\ \A m \in Nodes \ {n} : rooms[m] = plan.waiting[m]
    <2> HIDE DEF updated, keys, stored
    <2> QED BY <1>2, <1>8
<1> HIDE DEF updated, keys, rooms
<1>10. CASE Contains(new, Missing)
    <2>1. p = stored
        BY <1>1, <1>10
    <2> HIDE DEF stored, entries
    <2>2. p.stack = plan.stack /\ p.waiting[n] = updated
            /\ \A m \in Nodes \ {n} : p.waiting[m] = plan.waiting[m]
        BY <1>9, <2>1
    <2>3. /\ \A i \in DOMAIN entries \ {index} :
                i \in DOMAIN p.waiting[n] /\ p.waiting[n][i] = entries[i]
          /\ DOMAIN p.waiting[n] = DOMAIN entries \cup {index} /\ p.waiting[n][index] = new
        BY <1>7, <2>2
    <2>4. Gets(entries, index, p.waiting[n], n, input, slot, plan.stack, p.stack, new)
        BY <1>3, <1>5, <1>6, <2>2, <2>3 DEF Gets
    <2> QED BY <1>6, <2>2, <2>4 DEF p, entries, index
<1>11. CASE ~Contains(new, Missing)
    <2> DEFINE left == DOMAIN stored.waiting[n] \ {index}
               room == [i \in left |-> stored.waiting[n][i]]
               r == RemoveWaiting(stored, n, index)
               rest == [rooms EXCEPT ![n] = room]
               others == IF left = {} THEN RemoveFirst(keys, n) ELSE keys
    <2>1. p = [r EXCEPT !.stack = <<Entry(n, new)>> \o @]
        BY <1>1, <1>11
    <2>2. r = [stack |-> plan.stack, waiting |-> rest, waitingNodes |-> others]
        <3>1. r = [stored EXCEPT !.waiting[n] = room,
                                 !.waitingNodes = IF left = {} THEN RemoveFirst(@, n) ELSE @]
            BY DEF RemoveWaiting
        <3> HIDE DEF r, stored, room, left
        <3> QED BY <1>8, <3>1 DEF others
    <2>3. /\ DOMAIN room = DOMAIN entries \ {index}
          /\ \A i \in DOMAIN room : room[i] = entries[i]
        <3> HIDE DEF stored, entries
        <3> QED BY <1>7, <1>9
    <2> HIDE DEF r, others, room, stored
    <2>4. p.stack = <<Entry(n, new)>> \o plan.stack /\ p.waiting = rest
        <3> HIDE DEF rest
        <3> QED BY <2>1, <2>2
    <2>5. rest[n] = room /\ \A m \in Nodes \ {n} : rest[m] = plan.waiting[m]
        <3>1. rooms = [plan.waiting EXCEPT ![n] = updated] /\ plan.waiting \in [Nodes -> Rooms]
            BY <1>2 DEF rooms
        <3> QED BY <3>1
    <2> HIDE DEF rest
    <2>6. new \in Seq(Data)
        <3>1. \A i \in 1..Len(new) : new[i] \in Data
            <4>1. \A i \in 1..Len(new) : new[i] \in Slots
                BY <1>6, ElementOfSeq
            <4>2. \A i \in 1..Len(new) : new[i] # Missing
                BY <1>11 DEF Contains
            <4> QED BY <4>1, <4>2 DEF Slots
        <3>2. Len(new) \in Nat /\ new = [i \in 1..Len(new) |-> new[i]]
            BY <1>6
        <3>3. new \in [1..Len(new) -> Data]
            BY <3>1, <3>2
        <3> QED BY <3>2, <3>3
    <2>7. /\ \A i \in DOMAIN entries \ {index} :
                i \in DOMAIN p.waiting[n] /\ p.waiting[n][i] = entries[i]
          /\ DOMAIN p.waiting[n] = DOMAIN entries \ {index}
          /\ \A m \in Nodes \ {n} : p.waiting[m] = plan.waiting[m]
        BY <2>3, <2>4, <2>5
    <2> HIDE DEF entries
    <2>8. Gets(entries, index, p.waiting[n], n, input, slot, plan.stack, p.stack, new)
        BY <1>3, <1>5, <1>6, <2>4, <2>6, <2>7 DEF Gets
    <2> QED BY <1>6, <2>7, <2>8 DEF p, entries, index
<1> QED BY <1>10, <1>11

\* The places are counted.
LEMMA PlanPlacesType ==
    ASSUME NEW plan, PlanInv(plan), NEW m \in Nodes, NEW k, NEW x
    PROVE  /\ InEntries(plan.stack, m, k, x) \in Nat /\ InRoom(plan.waiting[m], k, x) \in Nat
           /\ PlanPlaces(plan, m, k, x) \in Nat
<1>1. plan.stack \in Seq(Fed) /\ IsFiniteSet(DOMAIN plan.waiting[m])
    BY DEF PlanInv, PlanShape
<1> DEFINE room == plan.waiting[m]
<1>2. InEntries(plan.stack, m, k, x) \in Nat
    BY <1>1, InEntriesIs
<1>3. InRoom(room, k, x) \in Nat
    <2>1. {i \in DOMAIN room : room[i][k + 1] = x} \in SUBSET DOMAIN room
        OBVIOUS
    <2> QED BY <1>1, <2>1, FS_Subset, FS_CardinalityType DEF InRoom
<1> QED BY <1>2, <1>3 DEF PlanPlaces

\* What holds two is not empty.
LEMMA PairIsNotEmpty ==
    ASSUME NEW s, Len(s) = 2
    PROVE  s # <<>>
<1>1. Len(<<>>) = 0
    OBVIOUS
<1> QED BY <1>1

\* What data for one of several inputs does to the places, if it finds room.
LEMMA AddWaitingPlaces ==
    ASSUME workflow \in Workflows, NEW plan, PlanInv(plan),
           NEW n \in Nodes, numberOfInputs(n) > 1, NEW input \in Indexes, NEW slot \in Data,
           WaitingIndex(plan.waiting[n], input) \in DOMAIN plan.waiting[n] =>
                plan.waiting[n][WaitingIndex(plan.waiting[n], input)][input + 1] = Missing,
           NEW m \in Nodes, NEW k \in Indexes, NEW x \in Data
    PROVE  PlanPlaces(AddWaiting(plan, n, input, slot), m, k, x)
                = PlanPlaces(plan, m, k, x) + (IF m = n /\ k = input /\ x = slot THEN 1 ELSE 0)
<1> DEFINE entries == plan.waiting[n]
           index   == WaitingIndex(entries, input)
           p       == AddWaiting(plan, n, input, slot)
           room    == p.waiting[n]
           rest    == [i \in DOMAIN entries \ {index} |-> entries[i]]
<1> SUFFICES PlanPlaces(p, m, k, x)
                = PlanPlaces(plan, m, k, x) + (IF m = n /\ k = input /\ x = slot THEN 1 ELSE 0)
    OBVIOUS
<1>1. PICK new \in Seq(Slots) :
            Gets(entries, index, room, n, input, slot, plan.stack, p.stack, new)
    BY AddWaitingIs
<1>2. \A l \in Nodes \ {n} : p.waiting[l] = plan.waiting[l]
    BY AddWaitingIs
<1>3. index \in DOMAIN entries => entries[index][input + 1] = Missing
    OBVIOUS
<1>4. plan.stack \in Seq(Fed) /\ IsFiniteSet(DOMAIN entries) /\ IsFiniteSet(DOMAIN plan.waiting[m])
    BY DEF PlanInv, PlanShape
<1>5. /\ But(entries, index, rest) /\ DOMAIN rest = DOMAIN entries \ {index}
      /\ \A i \in DOMAIN rest : i \in DOMAIN room /\ rest[i] = room[i]
    BY <1>1 DEF Gets, But
<1>6. input \in 0..1 /\ k \in 0..1 /\ k + 1 \in 1..2 /\ (k + 1 = input + 1 <=> k = input)
    BY DEF Indexes
<1>7. x # Missing /\ slot # Missing
    BY DataFacts
<1>8. InEntries(plan.stack, m, k, x) \in Nat
    BY <1>4, InEntriesIs
<1> DEFINE b == IF new[k + 1] = x THEN 1 ELSE 0
           a == IF index \in DOMAIN entries /\ entries[index][k + 1] = x THEN 1 ELSE 0
<1> HIDE DEF p, entries, index, rest
<1>9. b = a + (IF k = input /\ x = slot THEN 1 ELSE 0)
    BY <1>1, <1>3, <1>6, <1>7 DEF Gets
<1>10. /\ InRoom(rest, k, x) \in Nat
       /\ InRoom(entries, k, x) = InRoom(rest, k, x) + a
    BY <1>4, <1>5, InRoomBut
<1> HIDE DEF room
<1>11. CASE /\ p.stack = plan.stack
            /\ DOMAIN room = DOMAIN entries \cup {index}
            /\ room[index] = new
    <2>1. IsFiniteSet(DOMAIN room)
        BY <1>4, <1>11, FS_AddElement
    <2>2. But(room, index, rest)
        BY <1>5, <1>11 DEF But
    <2>3. InRoom(room, k, x) = InRoom(rest, k, x)
                + (IF index \in DOMAIN room /\ room[index][k + 1] = x THEN 1 ELSE 0)
        BY <2>1, <2>2, InRoomBut
    <2>4. InRoom(room, k, x) = InRoom(rest, k, x) + b
        BY <1>11, <2>3
    <2> HIDE DEF a, b
    <2>5. CASE m = n
        BY <1>8, <1>9, <1>10, <1>11, <2>4, <2>5 DEF PlanPlaces, room, entries, a, b
    <2>6. CASE m # n
        BY <1>2, <1>11, <2>6, PlanPlacesType DEF PlanPlaces
    <2> QED BY <2>5, <2>6
<1>12. CASE /\ new \in Seq(Data) /\ p.stack = <<Entry(n, new)>> \o plan.stack
            /\ DOMAIN room = DOMAIN entries \ {index}
    <2> DEFINE e == Entry(n, new)
    <2>1. e \in Fed /\ e.node = n /\ e.data = new
        <3>1. new # <<>>
            <4>1. Len(new) = 2
                BY <1>1 DEF Gets
            <4> QED BY <4>1, PairIsNotEmpty
        <3>2. Entry(n, new) \in Fed
            BY <1>12, <3>1, EntryType
        <3> QED BY <3>2 DEF Entry
    <2> HIDE DEF e
    <2>2. InEntries(<<e>> \o plan.stack, m, k, x)
                = (IF Holds(e, m, k, x) THEN 1 ELSE 0) + InEntries(plan.stack, m, k, x)
        BY <1>4, <2>1, InEntriesOnTop
    <2>3. Holds(e, m, k, x) <=> m = n /\ new[k + 1] = x
        BY <1>1, <1>6, <2>1 DEF Gets, Holds
    <2>4. InRoom(room, k, x) = InRoom(rest, k, x)
        <3>1. \A i : i \in DOMAIN room <=> i \in DOMAIN rest
            BY <1>5, <1>12
        <3>2. {i \in DOMAIN room : room[i][k + 1] = x} = {i \in DOMAIN rest : rest[i][k + 1] = x}
            BY <1>5, <3>1
        <3> QED BY <3>2 DEF InRoom
    <2>5. p.stack = <<e>> \o plan.stack
        BY <1>12 DEF e
    <2> HIDE DEF a
    <2>6. CASE m = n
        <3>1. InEntries(p.stack, m, k, x) = b + InEntries(plan.stack, m, k, x)
            BY <2>2, <2>3, <2>5, <2>6
        <3> HIDE DEF b
        <3> QED BY <1>8, <1>9, <1>10, <2>4, <2>6, <3>1 DEF PlanPlaces, room, entries, a, b
    <2>7. CASE m # n
        <3>1. InEntries(p.stack, m, k, x) = InEntries(plan.stack, m, k, x)
            BY <1>8, <2>2, <2>3, <2>5, <2>7
        <3>2. PlanPlaces(p, m, k, x) = PlanPlaces(plan, m, k, x)
            BY <1>2, <2>7, <3>1 DEF PlanPlaces
        <3> QED BY <2>7, <3>2, PlanPlacesType
    <2> QED BY <2>6, <2>7
<1> QED BY <1>1, <1>11, <1>12 DEF Gets

\* An addition puts the data there.
Meets(a, n, input, slot) ==
    IF numberOfInputs(a.entry.node) > 1
    THEN n = a.entry.node /\ input = a.input /\ slot = a.entry.data[1]
    ELSE Holds(a.entry, n, input, slot)

\* What an addition that finds room does to the places.
LEMMA AddStepPlaces ==
    ASSUME workflow \in Workflows, NEW plan, PlanInv(plan), NEW a, IsAddition(a),
           a.input \in Indexes, FindsRoom(plan, a),
           NEW m \in Nodes, NEW k \in Indexes, NEW x \in Data
    PROVE  PlanPlaces(AddStep(plan, a), m, k, x)
                = PlanPlaces(plan, m, k, x) + (IF Meets(a, m, k, x) THEN 1 ELSE 0)
<1> DEFINE n == a.entry.node
           slot == a.entry.data[1]
           e == a.entry
<1>1. n \in Nodes /\ slot \in Data /\ e \in Fed
    <2>1. a.entry.data # <<>> /\ a.entry.data \in Seq(Data)
        BY DEF IsAddition, Fed
    <2>2. a.entry.data[1] \in Data
        BY <2>1
    <2> QED BY <2>2 DEF IsAddition, Fed, Entries
<1>2. CASE numberOfInputs(n) > 1
    <2>1. AddStep(plan, a) = AddWaiting(plan, n, a.input, slot)
        BY <1>2 DEF AddStep, addNodeToBeExecuted
    <2>2. WaitingIndex(plan.waiting[n], a.input) \in DOMAIN plan.waiting[n] =>
            plan.waiting[n][WaitingIndex(plan.waiting[n], a.input)][a.input + 1] = Missing
        BY <1>2 DEF FindsRoom
    <2>3. Meets(a, m, k, x) <=> m = n /\ k = a.input /\ x = slot
        BY <1>2 DEF Meets
    <2> HIDE DEF n, slot
    <2>4. PlanPlaces(AddWaiting(plan, n, a.input, slot), m, k, x)
            = PlanPlaces(plan, m, k, x) + (IF m = n /\ k = a.input /\ x = slot THEN 1 ELSE 0)
        BY <1>1, <1>2, <2>2, AddWaitingPlaces
    <2> QED BY <2>1, <2>3, <2>4
<1>3. CASE ~(numberOfInputs(n) > 1)
    <2>1. /\ AddStep(plan, a).stack = <<e>> \o plan.stack
          /\ AddStep(plan, a).waiting = plan.waiting
        BY <1>3, AddStepKeeps
    <2>2. plan.stack \in Seq(Fed)
        BY DEF PlanInv, PlanShape
    <2>3. Meets(a, m, k, x) <=> Holds(e, m, k, x)
        BY <1>3 DEF Meets
    <2>4. InEntries(plan.stack, m, k, x) \in Nat /\ InRoom(plan.waiting[m], k, x) \in Nat
        BY PlanPlacesType
    <2> HIDE DEF e
    <2>5. InEntries(<<e>> \o plan.stack, m, k, x)
                = (IF Holds(e, m, k, x) THEN 1 ELSE 0) + InEntries(plan.stack, m, k, x)
        BY <1>1, <2>2, InEntriesOnTop
    <2> QED BY <2>1, <2>3, <2>4, <2>5 DEF PlanPlaces
<1> QED BY <1>2, <1>3

\* Each addition finds room in the plan that those before it have left.
AllFindRoom(additions) ==
    \A j \in 1..Len(additions) :
        additions[j].input \in Indexes /\ FindsRoom(Added(additions)[j - 1], additions[j])

\* How many of the first additions put the data there.
MeetsAmong(additions, j, n, input, slot) ==
    Cardinality({i \in 1..j : Meets(additions[i], n, input, slot)})

\* One addition more.
LEMMA MeetsOneMore ==
    ASSUME NEW additions, NEW n, NEW input, NEW slot, NEW j \in Nat
    PROVE  /\ MeetsAmong(additions, 0, n, input, slot) = 0
           /\ MeetsAmong(additions, j, n, input, slot) \in Nat
           /\ MeetsAmong(additions, j + 1, n, input, slot) = MeetsAmong(additions, j, n, input, slot)
                + (IF Meets(additions[j + 1], n, input, slot) THEN 1 ELSE 0)
<1> DEFINE P(i) == Meets(additions[i], n, input, slot)
           A(l) == {i \in 1..l : P(i)}
<1>1. \A l : MeetsAmong(additions, l, n, input, slot) = Cardinality(A(l))
    BY DEF MeetsAmong
<1> HIDE DEF P
<1>2. A(0) = {}
    OBVIOUS
<1>3. A(j) \in SUBSET (1..j) /\ IsFiniteSet(1..j)
    BY FS_Interval
<1>4. IsFiniteSet(A(j)) /\ Cardinality(A(j)) \in Nat
    BY <1>3, FS_Subset, FS_CardinalityType
<1>5. A(j + 1) = IF P(j + 1) THEN A(j) \cup {j + 1} ELSE A(j)
    <2>1. \A i : i \in 1..(j + 1) <=> i \in 1..j \/ i = j + 1
        OBVIOUS
    <2> QED BY <2>1
<1>6. j + 1 \notin A(j)
    OBVIOUS
<1> HIDE DEF A
<1>7. Cardinality(A(j) \cup {j + 1}) = Cardinality(A(j)) + 1
    BY <1>4, <1>6, FS_AddElement
<1> QED BY <1>1, <1>2, <1>4, <1>5, <1>7, FS_EmptySet DEF P

\* What several additions do to the places.
LEMMA AddAllPlaces ==
    ASSUME workflow \in Workflows, PlanInv(Plan), NEW additions, IsAdditions(additions),
           AllFindRoom(additions), NEW m \in Nodes, NEW k \in Indexes, NEW x \in Data
    PROVE  PlanPlaces(AddAll(additions), m, k, x)
                = PlanPlaces(Plan, m, k, x) + MeetsAmong(additions, Len(additions), m, k, x)
<1> DEFINE added == Added(additions)
           L == Len(additions)
           P(j) == /\ PlanInv(added[j])
                   /\ PlanPlaces(added[j], m, k, x)
                        = PlanPlaces(Plan, m, k, x) + MeetsAmong(additions, j, m, k, x)
           S == {j \in Nat : j <= L => P(j)}
<1>1. L \in Nat /\ AddAll(additions) = added[L]
    BY DEF IsAdditions, AddAll
<1>2. \A j \in 0..L : added[j] = IF j = 0 THEN Plan ELSE AddStep(added[j - 1], additions[j])
    <2>1. IsAdded(added, additions, L)
        BY <1>1, AddedIs
    <2> HIDE DEF added
    <2> QED BY <1>1, <2>1 DEF IsAdded
<1>3. \A j \in 1..L : /\ IsAddition(additions[j]) /\ additions[j].input \in Indexes
                      /\ FindsRoom(added[j - 1], additions[j])
    BY DEF AllFindRoom, IsAdditions
<1> HIDE DEF added, L
<1>4. 0 \in S
    <2>1. added[0] = Plan
        BY <1>1, <1>2
    <2>2. PlanPlaces(Plan, m, k, x) \in Nat
        BY PlanPlacesType
    <2>3. MeetsAmong(additions, 0, m, k, x) = 0
        BY MeetsOneMore
    <2> QED BY <2>1, <2>2, <2>3
<1>5. ASSUME NEW j \in Nat, j \in S PROVE j + 1 \in S
    <2> SUFFICES ASSUME j + 1 <= L PROVE P(j + 1)
        OBVIOUS
    <2> DEFINE before == added[j]
               a == additions[j + 1]
    <2>1. j <= L /\ j + 1 \in 1..L /\ j + 1 \in 0..L /\ (j + 1) - 1 = j /\ j + 1 # 0
        BY <1>1
    <2>2. P(j)
        BY <1>5, <2>1
    <2>3. added[j + 1] = AddStep(before, a)
        BY <1>2, <2>1
    <2>4. IsAddition(a) /\ a.input \in Indexes /\ FindsRoom(before, a)
        BY <1>3, <2>1
    <2>5. PlanInv(before)
        BY <2>2
    <2> HIDE DEF before, a
    <2>6. PlanInv(AddStep(before, a))
        BY <2>4, <2>5, AddStepKeeps
    <2>7. PlanPlaces(AddStep(before, a), m, k, x)
                = PlanPlaces(before, m, k, x) + (IF Meets(a, m, k, x) THEN 1 ELSE 0)
        BY <2>4, <2>5, AddStepPlaces
    <2>8. /\ MeetsAmong(additions, j, m, k, x) \in Nat
          /\ MeetsAmong(additions, j + 1, m, k, x) = MeetsAmong(additions, j, m, k, x)
                + (IF Meets(a, m, k, x) THEN 1 ELSE 0)
        BY MeetsOneMore DEF a
    <2>9. PlanPlaces(Plan, m, k, x) \in Nat
        BY PlanPlacesType
    <2>10. PlanPlaces(before, m, k, x)
                = PlanPlaces(Plan, m, k, x) + MeetsAmong(additions, j, m, k, x)
        BY <2>2 DEF before
    <2> QED BY <2>3, <2>6, <2>7, <2>8, <2>9, <2>10
<1> HIDE DEF S, P
<1>6. L \in S
    BY <1>1, <1>4, <1>5, Induction
<1>7. P(L)
    BY <1>1, <1>6 DEF S
<1> QED BY <1>1, <1>7 DEF P, L

\* A waiting node that is run moves with its data.
LEMMA RunWaitingPlaces ==
    ASSUME workflow \in Workflows, PlanInv(Plan), NEW n \in Nodes, n \in Range(waitingNodes),
           NEW m \in Nodes, NEW k \in Indexes, NEW x \in Data, x # Empty
    PROVE  PlanPlaces(RunWaiting(n), m, k, x) = PlanPlaces(Plan, m, k, x)
<1> DEFINE entries == waiting[n]
           first == Min(DOMAIN entries)
           old   == entries[first]
           data  == [i \in DOMAIN old |-> IF old[i] = Missing THEN Empty ELSE old[i]]
           left  == DOMAIN entries \ {first}
           rest  == [i \in left |-> entries[i]]
           e     == Entry(n, data)
           p     == RunWaiting(n)
<1>1. /\ Plan \in [stack : Seq(Fed), waiting : [Nodes -> Rooms], waitingNodes : Seq(Nodes)]
      /\ Plan.stack = stack /\ Plan.waiting = waiting /\ Plan.waitingNodes = waitingNodes
      /\ stack \in Seq(Fed) /\ waiting \in [Nodes -> Rooms] /\ IsFiniteSet(DOMAIN entries)
      /\ DOMAIN entries # {} /\ numberOfInputs(n) > 1
      /\ \A i \in DOMAIN entries : Len(entries[i]) = numberOfInputs(n)
    BY DEF PlanInv, PlanShape, Plan
<1>2. /\ DOMAIN entries \in SUBSET Nat
      /\ \A i \in DOMAIN entries : entries[i] \in Seq(Slots) /\ Len(entries[i]) = 2
    <2>1. entries \in Rooms
        BY <1>1
    <2> HIDE DEF entries
    <2>2. DOMAIN entries \in SUBSET Nat /\ \A i \in DOMAIN entries : entries[i] \in Seq(Slots)
        BY <2>1, RoomType
    <2>3. numberOfInputs(n) = 2
        BY <1>1, InputsType
    <2> QED BY <1>1, <2>2, <2>3
<1>3. first \in DOMAIN entries
    <2> HIDE DEF entries
    <2> QED BY <1>1, <1>2, MinType
<1>4. p = [RemoveWaiting(Plan, n, first) EXCEPT !.stack = Append(@, e)]
    BY DEF RunWaiting
<1> DEFINE others == IF left = {} THEN RemoveFirst(waitingNodes, n) ELSE waitingNodes
           rooms == [waiting EXCEPT ![n] = rest]
<1>5. RemoveWaiting(Plan, n, first) = [stack |-> stack, waiting |-> rooms, waitingNodes |-> others]
    <2>1. RemoveWaiting(Plan, n, first) = [Plan EXCEPT !.waiting[n] = rest,
                !.waitingNodes = IF left = {} THEN RemoveFirst(@, n) ELSE @]
        BY <1>1 DEF RemoveWaiting
    <2> HIDE DEF rest, left, first
    <2> QED BY <1>1, <2>1
<1>6. But(entries, first, rest)
    BY DEF But
<1>7. /\ data \in Seq(Data) /\ Len(data) = 2
      /\ \A i \in 1..2 : data[i] = IF old[i] = Missing THEN Empty ELSE old[i]
    <2>1. old \in Seq(Slots) /\ Len(old) = 2 /\ DOMAIN old = 1..2
        BY <1>2, <1>3
    <2> HIDE DEF old
    <2>2. \A i \in 1..2 : old[i] \in Slots
        BY <2>1, ElementOfSeq
    <2>3. \A i \in 1..2 : (IF old[i] = Missing THEN Empty ELSE old[i]) \in Data
        BY <2>2, DataFacts DEF Slots
    <2> QED BY <2>1, <2>3
<1> HIDE DEF p, data, rest, first, old, left, others
<1>8. e \in Fed /\ e.node = n /\ e.data = data
    <2>1. data # <<>>
        <3>1. Len(data) = 2
            BY <1>7
        <3>2. Len(<<>>) = 0
            BY EmptySeq
        <3> QED BY <3>1, <3>2
    <2>2. e \in Fed
        BY <1>7, <2>1, EntryType
    <2> QED BY <2>2 DEF Entry
<1> HIDE DEF e
<1>9. p.stack = Append(stack, e) /\ p.waiting = rooms
    <2> HIDE DEF rooms
    <2> QED BY <1>4, <1>5
<1>10. rooms[n] = rest /\ \A l \in Nodes \ {n} : rooms[l] = waiting[l]
    BY <1>1
<1> HIDE DEF rooms
<1> SUFFICES PlanPlaces(p, m, k, x) = PlanPlaces(Plan, m, k, x)
    BY DEF p
<1>11. InEntries(Append(stack, e), m, k, x)
            = (IF Holds(e, m, k, x) THEN 1 ELSE 0) + InEntries(stack, m, k, x)
    BY <1>1, <1>8, InEntriesAtBottom
<1>12. k + 1 \in 1..2
    BY DEF Indexes
<1>13. Holds(e, m, k, x) <=> m = n /\ old[k + 1] = x
    <2>1. x # Missing
        BY DataFacts
    <2>2. data[k + 1] = x <=> old[k + 1] = x
        BY <1>7, <1>12, <2>1
    <2>3. k + 1 \in DOMAIN data
        BY <1>7, <1>12
    <2> QED BY <1>8, <2>2, <2>3 DEF Holds
<1>14. /\ InRoom(rest, k, x) \in Nat
       /\ InRoom(entries, k, x) = InRoom(rest, k, x)
            + (IF first \in DOMAIN entries /\ entries[first][k + 1] = x THEN 1 ELSE 0)
    <2> HIDE DEF entries
    <2> QED BY <1>1, <1>6, InRoomBut
<1>15. InRoom(entries, k, x) = InRoom(rest, k, x) + (IF old[k + 1] = x THEN 1 ELSE 0)
    BY <1>3, <1>14 DEF old
<1>16. InEntries(stack, m, k, x) \in Nat /\ PlanPlaces(Plan, m, k, x) \in Nat
    BY <1>1, PlanPlacesType
<1>17. CASE m = n
    <2>1. PlanPlaces(p, m, k, x) = InEntries(Append(stack, e), m, k, x) + InRoom(rest, k, x)
        BY <1>9, <1>10, <1>17 DEF PlanPlaces
    <2>2. PlanPlaces(Plan, m, k, x) = InEntries(stack, m, k, x) + InRoom(entries, k, x)
        BY <1>1, <1>17 DEF PlanPlaces
    <2> QED BY <1>11, <1>13, <1>14, <1>15, <1>16, <1>17, <2>1, <2>2
<1>18. CASE m # n
    <2>1. InEntries(p.stack, m, k, x) = InEntries(stack, m, k, x)
        BY <1>9, <1>11, <1>13, <1>16, <1>18
    <2> QED BY <1>1, <1>9, <1>10, <1>18, <2>1 DEF PlanPlaces
<1> QED BY <1>17, <1>18

\* The data of runs.
Datums == Nodes \X Nat \X Indexes

\* A piece of data is made of a node, a run and an output.
LEMMA DatumFacts ==
    ASSUME NEW x \in Datums
    PROVE  /\ x \in Data /\ x # Empty /\ x # Initial /\ x # Missing
           /\ x[1] \in Nodes /\ x[2] \in Nat /\ x[3] \in Indexes /\ x = Datum(x[1], x[2], x[3])
<1>1. x \in Data /\ Len(x) = 3
    BY DEF Datums, Data
<1>2. Len(Empty) = 1 /\ Len(Initial) = 2
    BY DEF Empty, Initial
<1>3. x # Missing
    BY <1>1, DataFacts
<1>4. x[1] \in Nodes /\ x[2] \in Nat /\ x[3] \in Indexes /\ x = Datum(x[1], x[2], x[3])
    BY DEF Datums, Datum
<1> QED BY <1>1, <1>2, <1>3, <1>4

\* The connection takes what the run puts out on it there.
Brings(c, m, run, n, input, slot) ==
    c.to = n /\ c.input = input /\ slot = Datum(m, run, c.output)

\* What the nodes that come after a run get, they get once.
LEMMA ChildrenMeet ==
    ASSUME workflow \in Workflows, NEW m \in Nodes, NEW run \in Nat, NEW output,
           NEW n \in Nodes, NEW k \in Indexes, NEW x \in Datums
    PROVE  MeetsAmong(Children(m, run, output), Len(Children(m, run, output)), n, k, x)
                = IF \E c \in ConnectionsOf(m, output) : Brings(c, m, run, n, k, x) THEN 1 ELSE 0
<1> DEFINE C == ConnectionsOf(m, output)
           to == Outgoing(m, output)
           children == Children(m, run, output)
           L == Cardinality(C)
           A == {i \in 1..L : Meets(children[i], n, k, x)}
<1>1. /\ L \in Nat /\ to \in [1..L -> C]
      /\ \A c \in C : \E i \in 1..L : to[i] = c
      /\ \A i, j \in 1..L : to[i] = to[j] => i = j
    BY OutgoingLists
<1>2. C \subseteq workflow.connections /\ C \subseteq Connection
    BY ConnectionsType
<1>3. Len(children) = L
    BY ChildrenType
<1>4. \A c \in C : c.from = m
    BY DEF ConnectionsOf
<1>5. ASSUME NEW i \in 1..L
      PROVE  /\ to[i] \in C /\ children[i].input = to[i].input
             /\ children[i].entry = Entry(to[i].to, <<Datum(m, run, to[i].output)>>)
    <2>1. i \in DOMAIN to
        BY <1>1
    <2> HIDE DEF to
    <2>2. children[i] = [input |-> to[i].input,
                         entry |-> Entry(to[i].to, <<Datum(m, run, to[i].output)>>)]
        BY <2>1 DEF Children, to
    <2> HIDE DEF children
    <2> QED BY <1>1, <2>2
<1> SUFFICES MeetsAmong(children, L, n, k, x)
                = IF \E c \in C : Brings(c, m, run, n, k, x) THEN 1 ELSE 0
    BY <1>3
<1> HIDE DEF children, to, C, L
<1>6. ASSUME NEW i \in 1..L
      PROVE  Meets(children[i], n, k, x) <=> Brings(to[i], m, run, n, k, x)
    <2> DEFINE c == to[i]
               e == children[i].entry
    <2>1. c \in C /\ c \in Connection /\ c \in workflow.connections /\ children[i].input = c.input
        BY <1>2, <1>5
    <2>2. e.node = c.to /\ e.data = <<Datum(m, run, c.output)>>
        <3> DEFINE data == <<Datum(m, run, c.output)>>
        <3>1. e = Entry(c.to, data)
            BY <1>5
        <3> HIDE DEF data, e, c
        <3>2. Entry(c.to, data).node = c.to /\ Entry(c.to, data).data = data
            BY DEF Entry
        <3> QED BY <3>1, <3>2 DEF data
    <2> HIDE DEF c, e
    <2>3. CASE numberOfInputs(c.to) > 1
        BY <2>1, <2>2, <2>3 DEF Meets, Brings, c, e
    <2>4. CASE ~(numberOfInputs(c.to) > 1)
        <3>1. c.input = 0
            <4>1. c.input < numberOfInputs(c.to)
                BY <2>1, InputBelow
            <4>2. c.input \in 0..1 /\ numberOfInputs(c.to) \in 0..2
                BY <2>1, InputsType DEF Connection, Indexes
            <4> QED BY <2>4, <4>1, <4>2
        <3>2. k \in 0..1
            BY DEF Indexes
        <3>3. Holds(e, n, k, x) <=> c.to = n /\ k = 0 /\ x = Datum(m, run, c.output)
            BY <2>2, <3>2 DEF Holds
        <3>4. Meets(children[i], n, k, x) <=> Holds(e, n, k, x)
            BY <2>2, <2>4 DEF Meets, e
        <3> QED BY <3>1, <3>3, <3>4 DEF Brings, c
    <2> QED BY <2>3, <2>4
<1>7. ASSUME NEW c \in C, NEW d \in C, Brings(c, m, run, n, k, x), Brings(d, m, run, n, k, x)
      PROVE  c = d
    <2>1. c.to = d.to /\ c.input = d.input /\ c.from = d.from
        BY <1>4, <1>7 DEF Brings
    <2>2. c.output = d.output
        BY <1>7 DEF Brings, Datum
    <2>3. c \in Connection /\ d \in Connection
        BY <1>2
    <2> QED BY <2>1, <2>2, <2>3 DEF Connection
<1>8. MeetsAmong(children, L, n, k, x) = Cardinality(A)
    BY DEF MeetsAmong
<1> HIDE DEF A
<1>9. CASE \E c \in C : Brings(c, m, run, n, k, x)
    <2>1. PICK i \in 1..L : Brings(to[i], m, run, n, k, x)
        BY <1>1, <1>9
    <2>2. ASSUME NEW j \in 1..L PROVE Brings(to[j], m, run, n, k, x) <=> j = i
        BY <1>1, <1>5, <1>7, <2>1
    <2>3. A = {i}
        BY <1>6, <2>2 DEF A
    <2> QED BY <1>8, <1>9, <2>3, FS_Singleton
<1>10. CASE ~\E c \in C : Brings(c, m, run, n, k, x)
    <2>1. A = {}
        BY <1>5, <1>6, <1>10 DEF A
    <2> QED BY <1>8, <1>10, <2>1, FS_EmptySet
<1> QED BY <1>9, <1>10

\* What goes on to the children of a node finds room.
LEMMA ChildrenFindRoom ==
    ASSUME TypeInv, DataFindsRoom, pc = "node", current.node \notin workflow.destination,
           NEW output \in SUBSET Outputs
    PROVE  AllFindRoom(Children(current.node, current.run, output))
<1> DEFINE m == current.node
           run == current.run
           C == ConnectionsOf(m, output)
           to == Outgoing(m, output)
           children == Children(m, run, output)
           L == Cardinality(C)
<1>0. workflow \in Workflows /\ m \in Nodes /\ run \in Nat
    BY WorkOnNode DEF TypeInv
<1>1. L \in Nat /\ to \in [1..L -> C]
    BY <1>0, OutgoingLists
<1>2. C \subseteq Connection
    BY <1>0, ConnectionsType
<1>3. Len(children) = L /\ DOMAIN children = 1..L
    <2>1. DOMAIN children = DOMAIN to
        BY DEF Children
    <2> QED BY <1>0, <1>1, <2>1, ChildrenType
<1>4. ASSUME NEW i \in 1..L PROVE children[i].input \in Indexes
    <2>1. i \in DOMAIN to
        BY <1>1
    <2> HIDE DEF to
    <2>2. children[i] = [input |-> to[i].input,
                         entry |-> Entry(to[i].to, <<Datum(m, run, to[i].output)>>)]
        BY <2>1 DEF Children, to
    <2> HIDE DEF children
    <2>3. to[i] \in Connection
        BY <1>1, <1>2
    <2> QED BY <2>2, <2>3 DEF Connection
<1>5. \A i \in 1..L : FindsRoom(Added(children)[i - 1], children[i])
    BY <1>3 DEF DataFindsRoom
<1> HIDE DEF children
<1> QED BY <1>3, <1>4, <1>5 DEF AllFindRoom, children
-----------------------------------------------------------------------------
(* The invariant of data                                                    *)

\* How often the data is somewhere.
At(s, rooms, done, n, input, slot) ==
    InEntries(s, n, input, slot) + InRoom(rooms[n], input, slot)
        + (IF <<n, input, slot>> \in done THEN 1 ELSE 0)

\* The run has ended, and has put data out there.
PutOut(runs, x) == ToolDone(runs, <<x[1], x[2]>>) /\ x[3] \in runs[x[1]][x[2] + 1].output
\* It was a node's own run, not a tool's.
From(w, runs, x) == x[1] \notin ToolNodes(w) /\ ToolDone(runs, <<x[1], x[2]>>)

\* The data is meant for that input, and its node is run.
Goes(n, input, x) ==
    /\ n \in runNodeFilter
    /\ \E c \in workflow.connections :
            /\ c.from = x[1] /\ c.output = x[3] /\ c.to = n /\ c.input = input
            /\ c.from \notin workflow.destination

LastWaits(runs, m) == runs[m] # <<>> /\ runs[m][Len(runs[m])].status = "waiting"

\* What has been put out is in one place; whatever is somewhere comes from a run that
\* has ended; the run of a node that has put the execution to wait has not.
DataInv ==
    /\ \A n \in Nodes, k \in Indexes, x \in Datums :
            Goes(n, k, x) /\ PutOut(runData, x) => At(Work, waiting, taken, n, k, x) = 1
    /\ Alive =>
            \A n \in Nodes \ ToolNodes(workflow), k \in Indexes, x \in Datums :
                At(Work, waiting, taken, n, k, x) > 0 => From(workflow, runData, x)
    /\ waitTill => \A m \in lastNodeExecuted : LastWaits(runData, m)

\* The places are counted.
LEMMA AtType ==
    ASSUME TypeInv, NEW n \in Nodes, NEW k, NEW x
    PROVE  /\ InEntries(Work, n, k, x) \in Nat /\ InEntries(stack, n, k, x) \in Nat
           /\ InRoom(waiting[n], k, x) \in Nat
           /\ At(Work, waiting, taken, n, k, x) \in Nat
<1>1. Work \in Seq(Entries) /\ stack \in Seq(Entries)
    BY WorkType
<1>2. InEntries(Work, n, k, x) \in Nat /\ InEntries(stack, n, k, x) \in Nat
    <2> DEFINE s == Work
    <2>1. s \in Seq(Entries)
        BY <1>1
    <2> HIDE DEF s
    <2>2. InEntries(s, n, k, x) \in Nat
        BY <2>1, InEntriesIs
    <2>3. InEntries(stack, n, k, x) \in Nat
        BY <1>1, InEntriesIs
    <2> QED BY <2>2, <2>3 DEF s
<1>3. IsFiniteSet(DOMAIN waiting[n])
    BY DEF TypeInv, RoomsInv, PlanInv, PlanShape
<1>4. InRoom(waiting[n], k, x) \in Nat
    <2>1. {i \in DOMAIN waiting[n] : waiting[n][i][k + 1] = x} \in SUBSET DOMAIN waiting[n]
        OBVIOUS
    <2> QED BY <1>3, <2>1, FS_Subset, FS_CardinalityType DEF InRoom
<1> QED BY <1>2, <1>4 DEF At

\* The entry that is executed is one more.
LEMMA OnWork ==
    ASSUME TypeInv, pc \in {"node", "after:waiting"}, NEW n, NEW k, NEW x
    PROVE  /\ InEntries(Work, n, k, x)
                = (IF Holds(current, n, k, x) THEN 1 ELSE 0) + InEntries(stack, n, k, x)
           /\ InEntries(<<current>>, n, k, x) = IF Holds(current, n, k, x) THEN 1 ELSE 0
<1>1. Work = <<current>> \o stack /\ stack \in Seq(Entries) /\ current \in Entries
    BY WorkOnNode, WorkType DEF TypeInv, CurrentInv
<1>2. InEntries(<<current>> \o stack, n, k, x)
                = (IF Holds(current, n, k, x) THEN 1 ELSE 0) + InEntries(stack, n, k, x)
    BY <1>1, InEntriesOnTop
<1>3. Holding(<<current>>, n, k, x) = IF Holds(current, n, k, x) THEN {1} ELSE {}
    BY DEF Holding
<1>4. InEntries(<<current>>, n, k, x) = Cardinality(Holding(<<current>>, n, k, x))
    BY DEF InEntries, Holding, Holds
<1> QED BY <1>1, <1>2, <1>3, <1>4, FS_EmptySet, FS_Singleton

\* What is delivered is in one place.
LEMMA DataIsOnce ==
    ASSUME TypeInv, DataInv
    PROVE  DataExactlyOnce
<1> SUFFICES ASSUME NEW d \in Deliveries PROVE Places(d) = 1
    BY DEF DataExactlyOnce
<1> DEFINE to(c) ==
        {<<c.to, c.input, Datum(c.from, run - 1, c.output)>> :
            run \in {r \in DOMAIN runData[c.from] :
                        /\ c.output \in runData[c.from][r].output
                        /\ runData[c.from][r].status \in {"success", "error"}}}
           C == {e \in workflow.connections :
                    e.from \notin workflow.destination /\ e.to \in runNodeFilter}
<1>1. PICK c \in C : d \in to(c)
    BY DEF Deliveries
<1>2. PICK r \in DOMAIN runData[c.from] :
            /\ c.output \in runData[c.from][r].output
            /\ runData[c.from][r].status \in {"success", "error"}
            /\ d = <<c.to, c.input, Datum(c.from, r - 1, c.output)>>
    BY <1>1
<1>3. c \in workflow.connections /\ c.from \notin workflow.destination /\ c.to \in runNodeFilter
    BY <1>1
<1>4. c.from \in Nodes /\ c.to \in Nodes /\ c.input \in Indexes /\ c.output \in Indexes
    <2>1. c \in Connection
        BY <1>3, WorkflowsAssumption DEF TypeInv, IsWorkflow
    <2> QED BY <2>1 DEF Connection
<1>5. r \in 1..Len(runData[c.from])
    <2>1. runData[c.from] \in Seq(TaskDatas)
        BY <1>4, RunsLength DEF TypeInv
    <2> QED BY <2>1
<1> HIDE DEF C, to
<1> DEFINE n == c.to
           k == c.input
           x == Datum(c.from, r - 1, c.output)
<1>6. x[1] = c.from /\ x[2] = r - 1 /\ x[3] = c.output
    BY DEF Datum
<1>7. x \in Datums
    <2>1. r - 1 \in Nat
        BY <1>4, <1>5, RunsLength DEF TypeInv
    <2> QED BY <1>4, <2>1 DEF Datums, Datum
<1>8. (r - 1) + 1 = r
    BY <1>4, <1>5, RunsLength DEF TypeInv
<1>9. d[1] = n /\ d[2] = k /\ d[3] = x /\ d = <<n, k, x>>
    BY <1>2
<1> HIDE DEF x
<1>10. Goes(n, k, x)
    BY <1>3, <1>6 DEF Goes
<1>11. PutOut(runData, x)
    BY <1>2, <1>5, <1>6, <1>8 DEF PutOut, ToolDone
<1>12. At(Work, waiting, taken, n, k, x) = 1
    BY <1>4, <1>7, <1>10, <1>11 DEF DataInv
<1> DEFINE here == IF pc \in {"node", "after:waiting"} THEN InEntries(<<current>>, n, k, x) ELSE 0
           room == Cardinality({i \in DOMAIN waiting[n] : waiting[n][i][k + 1] = x})
           gone == IF <<n, k, x>> \in taken THEN 1 ELSE 0
<1>13. Places(d) = InEntries(stack, n, k, x) + here + room + gone
    BY <1>9 DEF Places
<1>14. At(Work, waiting, taken, n, k, x) = InEntries(Work, n, k, x) + room + gone
    BY DEF At, InRoom
<1>15. InEntries(stack, n, k, x) \in Nat /\ room \in Nat /\ gone \in Nat
    <2>1. room = InRoom(waiting[n], k, x)
        BY DEF InRoom
    <2> HIDE DEF room, n, k
    <2>2. n \in Nodes
        BY <1>4 DEF n
    <2> QED BY <2>1, <2>2, AtType
<1>16. InEntries(Work, n, k, x) = InEntries(stack, n, k, x) + here
    <2>1. CASE pc \in {"node", "after:waiting"}
        BY <1>15, <2>1, OnWork
    <2>2. CASE pc \notin {"node", "after:waiting"}
        BY <1>15, <2>2 DEF Work
    <2> QED BY <2>1, <2>2
<1>17. here \in Nat
    BY <1>4, OnWork
<1> HIDE DEF here, room, gone, n, k
<1> QED BY <1>12, <1>13, <1>14, <1>15, <1>16, <1>17

\* What one more run says of the others and of itself.
LEMMA RecordedEffect ==
    ASSUME NEW runs \in RunDatas, NEW n \in Nodes, NEW run \in Nat, run <= Len(runs[n]),
           NEW taskData \in TaskDatas, NEW x \in Datums
    PROVE  LET after == RecordedAt(runs, n, run, taskData)
           IN  /\ ~(x[1] = n /\ x[2] = run) =>
                    /\ ToolDone(after, <<x[1], x[2]>>) <=> ToolDone(runs, <<x[1], x[2]>>)
                    /\ PutOut(after, x) <=> PutOut(runs, x)
               /\ x[1] = n /\ x[2] = run =>
                    /\ ToolDone(after, <<x[1], x[2]>>) <=> taskData.status \in {"success", "error"}
                    /\ PutOut(after, x) <=>
                            taskData.status \in {"success", "error"} /\ x[3] \in taskData.output
<1> DEFINE after == RecordedAt(runs, n, run, taskData)
           m == x[1]
           i == x[2] + 1
<1>1. /\ \A l \in Nodes \ {n} : after[l] = runs[l]
      /\ Len(after[n]) = IF run < Len(runs[n]) THEN Len(runs[n]) ELSE run + 1
      /\ run + 1 \in 1..Len(after[n]) /\ after[n][run + 1] = taskData
      /\ \A j \in 1..Len(runs[n]) : j # run + 1 =>
            j \in 1..Len(after[n]) /\ after[n][j] = runs[n][j]
    BY RecordedAtType
<1>2. m \in Nodes /\ x[2] \in Nat /\ Len(runs[n]) \in Nat
    BY DatumFacts, RunDatasLength
<1>3. ToolDone(after, <<m, x[2]>>)
            <=> i \in 1..Len(after[m]) /\ after[m][i].status \in {"success", "error"}
    BY DEF ToolDone
<1>4. ToolDone(runs, <<m, x[2]>>)
            <=> i \in 1..Len(runs[m]) /\ runs[m][i].status \in {"success", "error"}
    BY DEF ToolDone
<1>5. /\ PutOut(after, x) <=> ToolDone(after, <<m, x[2]>>) /\ x[3] \in after[m][i].output
      /\ PutOut(runs, x) <=> ToolDone(runs, <<m, x[2]>>) /\ x[3] \in runs[m][i].output
    BY DEF PutOut
<1> SUFFICES /\ ~(m = n /\ x[2] = run) =>
                    /\ ToolDone(after, <<m, x[2]>>) <=> ToolDone(runs, <<m, x[2]>>)
                    /\ PutOut(after, x) <=> PutOut(runs, x)
             /\ m = n /\ x[2] = run =>
                    /\ ToolDone(after, <<m, x[2]>>) <=> taskData.status \in {"success", "error"}
                    /\ PutOut(after, x) <=>
                            taskData.status \in {"success", "error"} /\ x[3] \in taskData.output
    OBVIOUS
<1> HIDE DEF after, m
<1>6. CASE m = n /\ x[2] = run
    BY <1>1, <1>3, <1>5, <1>6
<1>7. CASE m # n
    BY <1>1, <1>2, <1>3, <1>4, <1>5, <1>7
<1>8. CASE m = n /\ x[2] # run
    <2>1. i # run + 1
        BY <1>2, <1>8
    <2>2. i \in 1..Len(after[n]) <=> i \in 1..Len(runs[n])
        BY <1>1, <1>2, <1>8, <2>1
    <2>3. i \in 1..Len(runs[n]) => after[n][i] = runs[n][i]
        BY <1>1, <2>1
    <2> HIDE DEF i
    <2> QED BY <1>3, <1>4, <1>5, <1>8, <2>2, <2>3
<1> QED BY <1>6, <1>7, <1>8

\* Where data goes depends on the workflow alone.
LEMMA GoesKept ==
    ASSUME UNCHANGED workflow, NEW n, NEW k, NEW x
    PROVE  Goes(n, k, x)' <=> Goes(n, k, x)
<1>1. \A m : getParentNodes(m)' = getParentNodes(m)
    BY DEF getParentNodes, Parents
<1>2. runNodeFilter' = runNodeFilter
    BY <1>1 DEF runNodeFilter
<1> QED BY <1>2 DEF Goes

\* Data is lost from a place only if it need not be there.
KeptAt(old, new, needed) == old \in Nat /\ new \in Nat /\ new <= old /\ (needed /\ old = 1 => new = 1)

\* The invariant is kept where no data is put out.
LEMMA DataKept ==
    ASSUME DataInv, UNCHANGED workflow, Alive' => Alive,
           \A n \in Nodes, k \in Indexes, x \in Datums :
                KeptAt(At(Work, waiting, taken, n, k, x), At(Work', waiting', taken', n, k, x),
                       Goes(n, k, x)),
           \A x \in Datums : PutOut(runData', x) => PutOut(runData, x),
           Alive' => \A x \in Datums : From(workflow, runData, x) => From(workflow, runData', x),
           waitTill' => \A m \in lastNodeExecuted' : LastWaits(runData', m)
    PROVE  DataInv'
<1>1. ASSUME NEW n \in Nodes, NEW k \in Indexes, NEW x \in Datums, Goes(n, k, x)', PutOut(runData', x)
      PROVE  At(Work', waiting', taken', n, k, x) = 1
    <2>1. Goes(n, k, x) /\ PutOut(runData, x)
        BY <1>1, GoesKept
    <2>2. At(Work, waiting, taken, n, k, x) = 1
        BY <2>1 DEF DataInv
    <2> QED BY <2>1, <2>2 DEF KeptAt
<1>2. ASSUME Alive', NEW n \in Nodes \ ToolNodes(workflow), NEW k \in Indexes, NEW x \in Datums,
             At(Work', waiting', taken', n, k, x) > 0
      PROVE  From(workflow, runData', x)
    <2>1. KeptAt(At(Work, waiting, taken, n, k, x), At(Work', waiting', taken', n, k, x), Goes(n, k, x))
        OBVIOUS
    <2> DEFINE old == At(Work, waiting, taken, n, k, x)
               new == At(Work', waiting', taken', n, k, x)
    <2>2. old \in Nat /\ new \in Nat /\ new <= old /\ new > 0
        BY <1>2, <2>1 DEF KeptAt
    <2> HIDE DEF old, new
    <2>3. old > 0
        BY <2>2
    <2>4. From(workflow, runData, x)
        BY <1>2, <2>3 DEF DataInv, old
    <2> QED BY <1>2, <2>4
<1> QED BY <1>1, <1>2 DEF DataInv

\* Whatever the data, at first there is none.
LEMMA DataInit ==
    ASSUME Init, TypeInv
    PROVE  DataInv
<1>1. /\ stack = <<Entry(workflow.start, <<Initial>>)>>
      /\ waiting = [n \in Nodes |-> <<>>] /\ runData = [n \in Nodes |-> <<>>]
      /\ pc = "setup" /\ waitTill = FALSE /\ taken = {}
    BY DEF Init
<1>2. Work = stack
    BY <1>1 DEF Work
<1>3. ASSUME NEW x \in Datums PROVE ~PutOut(runData, x)
    <2>1. runData[x[1]] = <<>>
        BY <1>1, DatumFacts
    <2> QED BY <2>1 DEF PutOut, ToolDone
<1>4. ASSUME NEW n \in Nodes, NEW k \in Indexes, NEW x \in Datums
      PROVE  At(Work, waiting, taken, n, k, x) = 0
    <2> DEFINE e == Entry(workflow.start, <<Initial>>)
    <2>1. e.data = <<Initial>>
        BY DEF Entry
    <2>2. Work = <<e>>
        BY <1>1, <1>2
    <2> HIDE DEF e
    <2>3. ~Holds(e, n, k, x)
        <3>1. x # Initial
            BY DatumFacts
        <3>2. k \in 0..1
            BY DEF Indexes
        <3> QED BY <2>1, <3>1, <3>2 DEF Holds
    <2>4. Holding(<<e>>, n, k, x) = {}
        BY <2>3 DEF Holding
    <2>5. InEntries(Work, n, k, x) = 0
        BY <2>2, <2>4, FS_EmptySet DEF InEntries, Holding, Holds
    <2>6. waiting[n] = <<>>
        BY <1>1
    <2>7. InRoom(waiting[n], k, x) = 0
        <3>1. {i \in DOMAIN waiting[n] : waiting[n][i][k + 1] = x} = {}
            BY <2>6
        <3> QED BY <3>1, FS_EmptySet DEF InRoom
    <2> QED BY <1>1, <2>5, <2>7 DEF At
<1> QED BY <1>1, <1>3, <1>4 DEF DataInv

\* The data of the current entry has been executed.
TakenNow == {<<current.node, i - 1, current.data[i]>> : i \in DOMAIN current.data}

\* It is there or in the current entry.
LEMMA TakeIs ==
    ASSUME TypeInv, pc = "node", NEW n \in Nodes, NEW k \in Indexes, NEW x
    PROVE  <<n, k, x>> \in TakenNow <=> Holds(current, n, k, x)
<1>1. DOMAIN current.data \subseteq Nat
    <2>1. current.data \in Seq(Data \cup {Initial})
        BY DEF TypeInv, CurrentInv, Entries
    <2> QED BY <2>1
<1>2. k \in 0..1
    BY DEF Indexes
<1>3. ASSUME <<n, k, x>> \in TakenNow PROVE Holds(current, n, k, x)
    <2>1. PICK i \in DOMAIN current.data : <<n, k, x>> = <<current.node, i - 1, current.data[i]>>
        BY <1>3 DEF TakenNow
    <2>2. i = k + 1
        BY <1>1, <1>2, <2>1
    <2> QED BY <2>1, <2>2 DEF Holds
<1>4. ASSUME Holds(current, n, k, x) PROVE <<n, k, x>> \in TakenNow
    <2>1. /\ k + 1 \in DOMAIN current.data /\ (k + 1) - 1 = k
          /\ current.node = n /\ current.data[k + 1] = x
        BY <1>2, <1>4 DEF Holds
    <2> QED BY <2>1 DEF TakenNow
<1> QED BY <1>3, <1>4

\* It leaves the current entry, once.
LEMMA TakeKeeps ==
    ASSUME TypeInv, pc = "node", taken' = taken \cup TakenNow,
           NEW n \in Nodes, NEW k \in Indexes, NEW x
    PROVE  KeptAt(At(Work, waiting, taken, n, k, x),
                  At(stack, waiting, taken', n, k, x), TRUE)
<1>1. InEntries(Work, n, k, x)
                = (IF Holds(current, n, k, x) THEN 1 ELSE 0) + InEntries(stack, n, k, x)
    BY OnWork
<1>2. /\ InEntries(Work, n, k, x) \in Nat /\ InEntries(stack, n, k, x) \in Nat
      /\ InRoom(waiting[n], k, x) \in Nat
    BY AtType
<1>3. <<n, k, x>> \in taken' <=> <<n, k, x>> \in taken \/ Holds(current, n, k, x)
    BY TakeIs
<1> QED BY <1>1, <1>2, <1>3 DEF At, KeptAt

\* Where no run ends, the places decide.
LEMMA DataMoves ==
    ASSUME DataInv, UNCHANGED <<workflow, runData>>, Alive, ~waitTill',
           \A n \in Nodes, k \in Indexes, x \in Datums :
                KeptAt(At(Work, waiting, taken, n, k, x), At(Work', waiting', taken', n, k, x),
                       Goes(n, k, x))
    PROVE  DataInv'
<1>1. /\ \A x \in Datums : PutOut(runData', x) => PutOut(runData, x)
      /\ \A x \in Datums : From(workflow, runData, x) => From(workflow, runData', x)
    OBVIOUS
<1> QED BY <1>1, DataKept

\* Steps that leave what is worked on alone.
LEMMA DataWorkKept ==
    ASSUME TypeInv, AgentInv, DataInv,
           [Begin \/ TimeIsUp \/ LoopEnds \/ AfterDestination \/ AfterStop \/ Close \/ Save
                \/ Resolve \/ Cancel]_vars
    PROVE  DataInv'
<1>1. /\ UNCHANGED <<workflow, waiting, runData, waitTill, lastNodeExecuted>>
      /\ Work' = Work /\ (Alive' => Alive)
    BY WorkKept
<1>2. UNCHANGED taken
    BY DEF Begin, TimeIsUp, LoopEnds, AfterDestination, AfterStop, Close, Save, Resolve,
                Cancel, vars, dataVars
<1>3. ASSUME NEW n, NEW k, NEW x
      PROVE  /\ Goes(n, k, x)' <=> Goes(n, k, x)
             /\ At(Work', waiting', taken', n, k, x) = At(Work, waiting, taken, n, k, x)
    BY <1>1, <1>2, GoesKept
<1>4. ASSUME NEW n \in Nodes, NEW k \in Indexes, NEW x \in Datums, Goes(n, k, x)', PutOut(runData', x)
      PROVE  At(Work', waiting', taken', n, k, x) = 1
    BY <1>1, <1>3, <1>4 DEF DataInv
<1>5. ASSUME Alive', NEW n \in Nodes \ ToolNodes(workflow), NEW k \in Indexes, NEW x \in Datums,
             At(Work', waiting', taken', n, k, x) > 0
      PROVE  From(workflow, runData', x)
    BY <1>1, <1>3, <1>5 DEF DataInv
<1>6. waitTill' => \A m \in lastNodeExecuted' : LastWaits(runData', m)
    BY <1>1 DEF DataInv
<1> QED BY <1>1, <1>4, <1>5, <1>6 DEF DataInv

\* The run data is lost before the first node, and nothing has been put out.
LEMMA DataSetupFails ==
    ASSUME TypeInv, DataInv, SetupFails
    PROVE  DataInv'
<1>1. /\ pc = "setup" /\ pc' = "saving"
      /\ UNCHANGED <<workflow, stack, waiting, taken, status, waitTill>>
      /\ \A m \in Nodes : runData'[m] = <<TaskData("error", {})>> \/ runData'[m] = <<>>
    BY DEF SetupFails
<1>2. ~Alive'
    <2>1. status \in {"running", "canceled"}
        BY <1>1 DEF TypeInv, StatusInv, Done
    <2> QED BY <1>1, <2>1 DEF Alive, Done
<1>3. waitTill = FALSE
    BY <1>1 DEF TypeInv, WaitInv, StatusInv, Done
<1>4. ASSUME NEW x \in Datums PROVE ~PutOut(runData', x)
    <2> DEFINE m == x[1]
               r == runData'[m]
    <2>1. m \in Nodes /\ x[2] \in Nat
        BY DatumFacts
    <2>2. r = <<TaskData("error", {})>> \/ r = <<>>
        BY <1>1, <2>1
    <2> HIDE DEF r
    <2>3. x[2] + 1 \in 1..Len(r) => r[x[2] + 1].output = {}
        BY <2>1, <2>2 DEF TaskData
    <2> QED BY <2>3 DEF PutOut, ToolDone, r
<1> QED BY <1>1, <1>2, <1>3, <1>4 DEF DataInv

\* A node is begun with the data of its entry.
LEMMA DataStart ==
    ASSUME TypeInv, DataInv, StartNode
    PROVE  DataInv'
<1> DEFINE e   == Head(stack)
           run == IF e.run # -1 THEN e.run ELSE Len(runData[e.node])
           t   == <<current'>> \o Tail(stack)
<1>1. /\ pc = "loop" /\ stack # <<>> /\ current' = [e EXCEPT !.run = run]
      /\ stack' = Tail(stack) /\ pc' = "node"
      /\ UNCHANGED <<workflow, runData, waiting, taken, waitTill>>
    BY DEF StartNode
<1>2. waitTill = FALSE /\ Alive /\ Work = stack
    BY <1>1 DEF TypeInv, WaitInv, StatusInv, Done, Alive, Work
<1>3. stack \in Seq(Entries)
    BY WorkType
<1>4. /\ e \in Entries /\ e = stack[1] /\ Len(stack) \in Nat /\ Len(stack) > 0
      /\ Tail(stack) \in Seq(Entries) /\ Len(Tail(stack)) = Len(stack) - 1
      /\ \A i \in 1..(Len(stack) - 1) : Tail(stack)[i] = stack[i + 1]
    BY <1>1, <1>3, HeadTailProperties, EmptySeq
<1>5. current'.node = e.node /\ current'.data = e.data
    <2> HIDE DEF e, run
    <2> QED BY <1>1, <1>4 DEF Entries
<1>6. /\ DOMAIN t = 1..Len(stack) /\ DOMAIN stack = 1..Len(stack)
      /\ \A i \in 1..Len(stack) : t[i].node = stack[i].node /\ t[i].data = stack[i].data
    <2> DEFINE r == Tail(stack)
    <2>1. /\ r \in Seq(Entries) /\ Len(r) = Len(stack) - 1
          /\ \A i \in 1..(Len(stack) - 1) : r[i] = stack[i + 1]
        BY <1>4
    <2> HIDE DEF r, e, run
    <2>2. /\ DOMAIN t = 1..(1 + Len(r)) /\ t[1] = current'
          /\ \A i \in 2..(Len(r) + 1) : t[i] = r[i - 1]
        BY <2>1 DEF r
    <2>3. \A i \in 2..Len(stack) : i - 1 \in 1..(Len(stack) - 1) /\ (i - 1) + 1 = i
        BY <1>4
    <2> HIDE DEF t
    <2>4. \A i \in 1..Len(stack) : i = 1 \/ i \in 2..Len(stack)
        BY <1>4
    <2> QED BY <1>3, <1>4, <1>5, <2>1, <2>2, <2>3, <2>4
<1>7. Work' = t
    BY <1>1 DEF Work
<1> HIDE DEF t
<1>8. ASSUME NEW n \in Nodes, NEW k \in Indexes, NEW x \in Datums
      PROVE  KeptAt(At(Work, waiting, taken, n, k, x), At(Work', waiting', taken', n, k, x),
                    Goes(n, k, x))
    <2>1. InEntries(t, n, k, x) = InEntries(stack, n, k, x)
        BY <1>6, InEntriesSame
    <2>2. At(Work', waiting', taken', n, k, x) = At(Work, waiting, taken, n, k, x)
        BY <1>1, <1>2, <1>7, <2>1 DEF At
    <2> QED BY <2>2, AtType DEF KeptAt
<1> QED BY <1>1, <1>2, <1>8, DataMoves

\* A node that is skipped loses data that goes nowhere.
LEMMA DataSkip ==
    ASSUME TypeInv, DataInv, SkipNode
    PROVE  DataInv'
<1> DEFINE e == Head(stack)
           t == Tail(stack)
<1>1. /\ pc = "loop" /\ pc' = "loop" /\ stack # <<>> /\ e.node \notin runNodeFilter
      /\ stack' = t
      /\ UNCHANGED <<workflow, runData, waiting, taken, waitTill>>
    BY DEF SkipNode
<1>2. waitTill = FALSE /\ Alive /\ Work = stack /\ Work' = t
    BY <1>1 DEF TypeInv, WaitInv, StatusInv, Done, Alive, Work
<1>3. stack \in Seq(Entries)
    BY WorkType
<1>4. e \in Entries /\ t \in Seq(Entries) /\ stack = <<e>> \o t
    BY <1>1, <1>3, HeadTailProperties
<1> HIDE DEF e, t
<1>5. ASSUME NEW n \in Nodes, NEW k \in Indexes, NEW x \in Datums
      PROVE  KeptAt(At(Work, waiting, taken, n, k, x), At(Work', waiting', taken', n, k, x),
                    Goes(n, k, x))
    <2>1. InEntries(stack, n, k, x) = (IF Holds(e, n, k, x) THEN 1 ELSE 0) + InEntries(t, n, k, x)
        BY <1>4, InEntriesOnTop
    <2>2. Goes(n, k, x) => ~Holds(e, n, k, x)
        BY <1>1 DEF Goes, Holds
    <2>3. InEntries(t, n, k, x) \in Nat /\ InRoom(waiting[n], k, x) \in Nat
        <3>1. Len(t) \in Nat /\ DOMAIN t = 1..Len(t)
            BY <1>4
        <3> QED BY <3>1, InEntriesIs, AtType
    <2> QED BY <1>1, <1>2, <2>1, <2>2, <2>3 DEF At, KeptAt
<1> QED BY <1>1, <1>2, <1>5, DataMoves

\* A node that returns null has executed its data.
LEMMA DataNull ==
    ASSUME TypeInv, DataInv, NodeReturnsNull
    PROVE  DataInv'
<1>1. /\ pc = "node" /\ pc' = "loop" /\ taken' = taken \cup TakenNow
      /\ UNCHANGED <<workflow, stack, runData, waiting, waitTill>>
    BY DEF NodeReturnsNull, Take, TakenNow
<1>2. waitTill = FALSE /\ Alive /\ Work' = stack
    BY <1>1 DEF TypeInv, WaitInv, StatusInv, Done, Alive, Work
<1>3. ASSUME NEW n \in Nodes, NEW k \in Indexes, NEW x \in Datums
      PROVE  KeptAt(At(Work, waiting, taken, n, k, x), At(Work', waiting', taken', n, k, x),
                    Goes(n, k, x))
    <2>1. KeptAt(At(Work, waiting, taken, n, k, x), At(stack, waiting, taken', n, k, x), TRUE)
        BY <1>1, TakeKeeps
    <2> QED BY <1>1, <1>2, <2>1 DEF KeptAt
<1> QED BY <1>1, <1>2, <1>3, DataMoves

\* A node that waits is run with the data it has.
LEMMA DataAfter ==
    ASSUME TypeInv, DataInv, AfterNode
    PROVE  DataInv'
<1>1. /\ pc = "after" /\ pc' = "loop"
      /\ UNCHANGED <<workflow, runData, taken, waitTill>>
    BY DEF AfterNode
<1>2. waitTill = FALSE /\ Alive /\ Work = stack /\ Work' = stack'
    BY <1>1 DEF TypeInv, WaitInv, StatusInv, Done, Alive, Work
<1>3. ASSUME NEW n \in Nodes, NEW k \in Indexes, NEW x \in Datums
      PROVE  InEntries(stack', n, k, x) + InRoom(waiting'[n], k, x)
                = InEntries(stack, n, k, x) + InRoom(waiting[n], k, x)
    <2>1. CASE stack = <<>> /\ NextWaiting # {}
        <3>1. PICK m \in NextWaiting : SetPlan(RunWaiting(m))
            BY <2>1 DEF AfterNode
        <3>2. m \in Range(waitingNodes) /\ m \in Nodes /\ workflow \in Workflows
            BY NextWaitingType DEF TypeInv
        <3>3. PlanInv(Plan)
            BY <2>1, PlanIsWellFormed, EmptySeq DEF TypeInv
        <3>4. x \in Data /\ x # Empty
            BY DatumFacts
        <3>5. PlanPlaces(RunWaiting(m), n, k, x) = PlanPlaces(Plan, n, k, x)
            BY <3>2, <3>3, <3>4, RunWaitingPlaces
        <3>6. stack' = RunWaiting(m).stack /\ waiting' = RunWaiting(m).waiting
            BY <3>1 DEF SetPlan
        <3> QED BY <3>5, <3>6 DEF PlanPlaces, Plan
    <2>2. CASE ~(stack = <<>> /\ NextWaiting # {})
        BY <2>2 DEF AfterNode
    <2> QED BY <2>1, <2>2
<1>4. ASSUME NEW n \in Nodes, NEW k \in Indexes, NEW x \in Datums
      PROVE  KeptAt(At(Work, waiting, taken, n, k, x), At(Work', waiting', taken', n, k, x),
                    Goes(n, k, x))
    <2>1. At(Work', waiting', taken', n, k, x) = At(Work, waiting, taken, n, k, x)
        BY <1>1, <1>2, <1>3 DEF At
    <2> QED BY <2>1, AtType DEF KeptAt
<1> QED BY <1>1, <1>2, <1>4, DataMoves

\* A run that puts nothing out is recorded.
LEMMA NothingPutOut ==
    ASSUME TypeInv, AgentInv, PlainAgents(workflow), pc = "node",
           NEW s \in {"error", "waiting"}, runData' = Recorded(TaskData(s, {}))
    PROVE  /\ \A x \in Datums : PutOut(runData', x) => PutOut(runData, x)
           /\ \A x \in Datums : From(workflow, runData, x) => From(workflow, runData', x)
           /\ current.node \in workflow.mayWait /\ s = "waiting" => LastWaits(runData', current.node)
<1> DEFINE n == current.node
           run == current.run
           taskData == TaskData(s, {})
           old == runData
           new == runData'
<1>1. /\ n \in Nodes /\ run \in Nat /\ run <= Len(old[n])
      /\ n \notin ToolNodes(workflow) => run = Len(old[n])
      /\ n \in workflow.mayWait => run \in {Len(old[n]) - 1, Len(old[n])}
    BY OnNode, WorkOnNode DEF IsTool
<1>2. old \in RunDatas /\ taskData \in TaskDatas /\ Len(old[n]) \in Nat
    <2>1. old \in RunDatas
        BY DEF RunDatas, TypeInv, RunsInv
    <2> QED BY <1>1, <2>1, RunDatasLength DEF TaskData, TaskDatas
<1>3. new = RecordedAt(old, n, run, taskData)
    BY RecordedIs
<1>4. taskData.status = s /\ taskData.output = {}
    BY DEF TaskData
<1> HIDE DEF n, run, taskData, old, new
<1>5. ASSUME NEW x \in Datums
      PROVE  /\ ~(x[1] = n /\ x[2] = run) =>
                    /\ ToolDone(new, <<x[1], x[2]>>) <=> ToolDone(old, <<x[1], x[2]>>)
                    /\ PutOut(new, x) <=> PutOut(old, x)
             /\ x[1] = n /\ x[2] = run => ~PutOut(new, x)
    BY <1>1, <1>2, <1>3, <1>4, RecordedEffect
<1>6. ASSUME NEW x \in Datums, From(workflow, old, x) PROVE From(workflow, new, x)
    <2>1. ~(x[1] = n /\ x[2] = run)
        <3> SUFFICES ASSUME x[1] = n, x[2] = run PROVE FALSE
            OBVIOUS
        <3>1. n \notin ToolNodes(workflow) /\ run + 1 \in 1..Len(old[n])
            BY <1>6 DEF From, ToolDone
        <3> QED BY <1>1, <1>2, <3>1
    <2> QED BY <1>5, <1>6, <2>1 DEF From
<1>7. ASSUME n \in workflow.mayWait, s = "waiting" PROVE LastWaits(new, n)
    <2>1. /\ Len(new[n]) = IF run < Len(old[n]) THEN Len(old[n]) ELSE run + 1
          /\ run + 1 \in 1..Len(new[n]) /\ new[n][run + 1] = taskData
          /\ new \in RunDatas
        BY <1>1, <1>2, <1>3, RecordedAtType
    <2>2. Len(new[n]) = run + 1
        BY <1>1, <1>2, <1>7, <2>1
    <2>3. new[n] # <<>>
        <3>1. new[n] \in Seq(TaskDatas)
            BY <1>1, <2>1, RunDatasLength
        <3> QED BY <1>1, <2>2, <3>1, EmptySeq
    <2> QED BY <1>4, <1>7, <2>1, <2>2, <2>3 DEF LastWaits
<1> QED BY <1>5, <1>6, <1>7 DEF new, old, n

\* A node that fails, or puts the execution to wait, keeps its data.
LEMMA DataStays ==
    ASSUME TypeInv, AgentInv, DataInv, PlainAgents(workflow),
           \/ NodeFails /\ current.node \notin workflow.continueOnFail
           \/ NodeWaits
    PROVE  DataInv'
<1>1. /\ pc = "node" /\ Work' = Work
      /\ UNCHANGED <<workflow, waiting, taken>> /\ lastNodeExecuted' = {current.node}
      /\ \/ runData' = Recorded(TaskData("error", {})) /\ waitTill' = waitTill
         \/ /\ runData' = Recorded(TaskData("waiting", {})) /\ waitTill' = TRUE
            /\ current.node \in workflow.mayWait
    BY DEF NodeFails, NodeWaits, Work
<1>2. waitTill = FALSE /\ Alive
    BY <1>1 DEF TypeInv, WaitInv, StatusInv, Done, Alive
<1>3. /\ \A x \in Datums : PutOut(runData', x) => PutOut(runData, x)
      /\ \A x \in Datums : From(workflow, runData, x) => From(workflow, runData', x)
      /\ waitTill' => \A m \in lastNodeExecuted' : LastWaits(runData', m)
    BY <1>1, <1>2, NothingPutOut
<1>4. ASSUME NEW n \in Nodes, NEW k \in Indexes, NEW x \in Datums
      PROVE  KeptAt(At(Work, waiting, taken, n, k, x), At(Work', waiting', taken', n, k, x),
                    Goes(n, k, x))
    <2>1. At(Work', waiting', taken', n, k, x) = At(Work, waiting, taken, n, k, x)
        BY <1>1
    <2> QED BY <2>1, AtType DEF KeptAt
<1> QED BY <1>1, <1>2, <1>3, <1>4, DataKept

\* The run data without a run that has not ended.
LEMMA WithoutLast ==
    ASSUME NEW runs \in RunDatas, NEW after, NEW n \in Nodes, LastWaits(runs, n),
           \A m \in Nodes : after[m] = IF m = n THEN Front(runs[m]) ELSE runs[m], NEW x \in Datums
    PROVE  /\ PutOut(after, x) => PutOut(runs, x)
           /\ ToolDone(runs, <<x[1], x[2]>>) => ToolDone(after, <<x[1], x[2]>>)
<1> DEFINE r == runs[n]
           f == Front(r)
           i == x[2] + 1
           m == x[1]
<1>1. r \in Seq(TaskDatas) /\ r # <<>> /\ Len(r) \in Nat /\ Len(r) > 0
    BY RunDatasLength, EmptySeq DEF LastWaits
<1>2. r[Len(r)].status = "waiting"
    BY DEF LastWaits
<1>3. m \in Nodes /\ i \in Nat
    BY DatumFacts
<1>4. /\ Len(f) = Len(r) - 1 /\ \A j \in 1..(Len(r) - 1) : f[j] = r[j]
    <2> HIDE DEF r
    <2>1. f = [j \in 1..(Len(r) - 1) |-> r[j]]
        BY <1>1 DEF Front
    <2> HIDE DEF f
    <2> QED BY <1>1, <2>1
<1>5. after[m] = IF m = n THEN f ELSE runs[m]
    BY <1>3
<1> HIDE DEF f, i
<1>6. CASE m = n
    <2>1. after[m] = f /\ runs[m] = r
        BY <1>5, <1>6
    <2> HIDE DEF r, m
    <2>2. i \in 1..Len(f) => i \in 1..Len(r) /\ f[i] = r[i]
        BY <1>1, <1>3, <1>4
    <2>3. i \in 1..Len(r) /\ r[i].status \in {"success", "error"} => i \in 1..Len(f)
        <3> SUFFICES ASSUME i \in 1..Len(r), r[i].status \in {"success", "error"} PROVE i \in 1..Len(f)
            OBVIOUS
        <3>1. i # Len(r)
            BY <1>2
        <3> QED BY <1>1, <1>3, <1>4, <3>1
    <2>4. /\ PutOut(after, x) <=> i \in 1..Len(f) /\ f[i].status \in {"success", "error"}
                                    /\ x[3] \in f[i].output
          /\ PutOut(runs, x) <=> i \in 1..Len(r) /\ r[i].status \in {"success", "error"}
                                    /\ x[3] \in r[i].output
          /\ ToolDone(runs, <<x[1], x[2]>>) <=> i \in 1..Len(r) /\ r[i].status \in {"success", "error"}
          /\ ToolDone(after, <<x[1], x[2]>>) <=> i \in 1..Len(f) /\ f[i].status \in {"success", "error"}
        BY <2>1 DEF PutOut, ToolDone, m, i
    <2> QED BY <2>2, <2>3, <2>4
<1>7. CASE m # n
    <2>1. after[x[1]] = runs[x[1]]
        BY <1>5, <1>7
    <2> QED BY <2>1 DEF PutOut, ToolDone
<1> QED BY <1>6, <1>7

\* Another engine goes on, without the run that has waited.
LEMMA DataResumes ==
    ASSUME TypeInv, AgentInv, DataInv, Resume
    PROVE  DataInv'
<1> DEFINE s == stack
           t == stack'
           n == stack[1].node
           runs == runData
           after == runData'
<1>1. /\ pc = "ended" /\ status = "waiting" /\ pc' = "setup" /\ waitTill' = FALSE
      /\ t = [s EXCEPT ![1].disabled = TRUE] /\ after = RunDataWithoutLast
      /\ UNCHANGED <<workflow, waiting, taken, lastNodeExecuted>>
    BY DEF Resume
<1>2. waitTill = TRUE
    BY <1>1 DEF TypeInv, WaitInv, Done
<1>3. Fine(workflow, s, runs, TRUE, lastNodeExecuted)
    BY <1>1, <1>2 DEF AgentInv, Alive, Sound, Work
<1>4. s \in Seq(Entries) /\ runs \in RunDatas
    BY WorkType DEF RunDatas, TypeInv, RunsInv
<1>5. Work = s /\ Work' = t /\ Alive
    BY <1>1 DEF Work, Alive
<1> HIDE DEF s, runs
<1>6. s # <<>> /\ lastNodeExecuted = {n}
    BY <1>3 DEF Fine, WaitsOnTop, s
<1>7. 1 \in 1..Len(s)
    BY <1>4, <1>6, EmptySeq
<1>8. n \in Nodes
    BY <1>4, <1>7, EntryFields DEF s
<1>9. LastWaits(runs, n)
    BY <1>2, <1>6 DEF DataInv, runs
<1>10. \A m \in Nodes : after[m] = IF m = n THEN Front(runs[m]) ELSE runs[m]
    BY <1>1, <1>6 DEF RunDataWithoutLast, runs
<1> HIDE DEF n, after, t
<1>11. /\ DOMAIN t = DOMAIN s
       /\ \A i \in DOMAIN s : s[i].node = t[i].node /\ s[i].data = t[i].data
    <2> DEFINE e == [s[1] EXCEPT !.disabled = TRUE]
    <2>1. s[1] \in Entries
        BY <1>4, <1>7
    <2>2. e \in Entries /\ e.node = s[1].node /\ e.data = s[1].data
        BY <2>1 DEF Entries
    <2>3. t = [s EXCEPT ![1] = e]
        BY <1>1 DEF s, t
    <2> HIDE DEF e
    <2>4. t \in Seq(Entries) /\ Len(t) = Len(s) /\ t[1] = e /\ \A i \in 1..Len(s) : i # 1 => t[i] = s[i]
        BY <1>4, <1>7, <2>2, <2>3, ExceptSeq
    <2>5. DOMAIN s = 1..Len(s) /\ DOMAIN t = 1..Len(s)
        BY <1>4, <2>4
    <2> QED BY <2>2, <2>4, <2>5
<1>12. ASSUME NEW m \in Nodes, NEW k \in Indexes, NEW x \in Datums
       PROVE  KeptAt(At(Work, waiting, taken, m, k, x), At(Work', waiting', taken', m, k, x),
                     Goes(m, k, x))
    <2>1. InEntries(s, m, k, x) = InEntries(t, m, k, x)
        BY <1>11, InEntriesSame
    <2>2. At(Work', waiting', taken', m, k, x) = At(Work, waiting, taken, m, k, x)
        BY <1>1, <1>5, <2>1 DEF At, s, t
    <2> QED BY <2>2, AtType DEF KeptAt
<1>13. ASSUME NEW x \in Datums
       PROVE  /\ PutOut(after, x) => PutOut(runs, x)
              /\ From(workflow, runs, x) => From(workflow, after, x)
    <2>1. /\ PutOut(after, x) => PutOut(runs, x)
          /\ ToolDone(runs, <<x[1], x[2]>>) => ToolDone(after, <<x[1], x[2]>>)
        BY <1>4, <1>8, <1>9, <1>10, WithoutLast
    <2> QED BY <2>1 DEF From
<1>14. /\ \A x \in Datums : PutOut(runData', x) => PutOut(runData, x)
       /\ \A x \in Datums : From(workflow, runData, x) => From(workflow, runData', x)
    BY <1>13 DEF after, runs
<1> QED BY <1>1, <1>5, <1>12, <1>14, DataKept

\* A node has run and the data goes on.
LEMMA DataGoesOn ==
    ASSUME TypeInv, AgentInv, DataInv, DataFindsRoom, PlainAgents(workflow), pc = "node",
           NEW taskStatus \in {"success", "error"}, NEW output \in SUBSET Outputs,
           GoOn(taskStatus, output)
    PROVE  DataInv'
<1> DEFINE m == current.node
           run == current.run
           old == runData
           new == runData'
           taskData == TaskData(taskStatus, output)
           C == ConnectionsOf(m, output)
           gets(n, k, x) == m \notin workflow.destination /\ \E c \in C : Brings(c, m, run, n, k, x)
           own(x) == x[1] = m /\ x[2] = run
<1>1. /\ new = RecordedAt(old, m, run, taskData) /\ taken' = taken \cup TakenNow
      /\ pc' \in {"after", "after:destination"} /\ UNCHANGED <<workflow, waitTill>>
    BY RecordedIs DEF GoOn, Take, TakenNow
<1>2. /\ m \in Nodes /\ run \in Nat /\ run <= Len(old[m]) /\ workflow \in Workflows
      /\ m \notin ToolNodes(workflow) => run = Len(old[m])
      /\ waitTill = FALSE /\ PlanInv(Plan) /\ old \in RunDatas
    <2>1. stack \in Seq(Fed) /\ old \in RunDatas
        BY DEF TypeInv, CurrentInv, RunDatas, RunsInv
    <2> QED BY <2>1, OnNode, WorkOnNode, PlanIsWellFormed DEF TypeInv, IsTool
<1>3. Len(old[m]) \in Nat /\ taskData \in TaskDatas
      /\ taskData.status = taskStatus /\ taskData.output = output
    <2>1. output \in SUBSET Indexes
        BY <1>2, OutputsType
    <2> QED BY <1>2, <2>1, RunDatasLength DEF TaskData, TaskDatas
<1>4. Alive /\ Work' = stack'
    BY <1>1 DEF Alive, Done, Work
<1>5. ASSUME NEW n \in Nodes, NEW k \in Indexes, NEW x \in Datums
      PROVE  InEntries(stack', n, k, x) + InRoom(waiting'[n], k, x)
                = InEntries(stack, n, k, x) + InRoom(waiting[n], k, x)
                    + (IF gets(n, k, x) THEN 1 ELSE 0)
    <2>1. CASE m \in workflow.destination
        <3>1. UNCHANGED <<stack, waiting>>
            BY <2>1 DEF GoOn
        <3> QED BY <2>1, <3>1, AtType
    <2>2. CASE m \notin workflow.destination
        <3> DEFINE children == Children(m, run, output)
        <3>1. IsAdditions(children)
            BY <1>2, ChildrenType
        <3>2. AllFindRoom(children)
            BY <2>2, ChildrenFindRoom
        <3>3. MeetsAmong(children, Len(children), n, k, x)
                = IF \E c \in C : Brings(c, m, run, n, k, x) THEN 1 ELSE 0
            BY <1>2, ChildrenMeet
        <3>4. stack' = AddAll(children).stack /\ waiting' = AddAll(children).waiting
            BY <2>2 DEF GoOn, SetPlan, AddChildren
        <3>5. x \in Data
            BY DatumFacts
        <3> HIDE DEF children
        <3>6. PlanPlaces(AddAll(children), n, k, x)
                = PlanPlaces(Plan, n, k, x) + MeetsAmong(children, Len(children), n, k, x)
            BY <1>2, <3>1, <3>2, <3>5, AddAllPlaces
        <3> QED BY <2>2, <3>3, <3>4, <3>6 DEF PlanPlaces, Plan
    <2> QED BY <2>1, <2>2
<1> DEFINE before(n, k, x) == At(Work, waiting, taken, n, k, x)
           between(n, k, x) == At(stack, waiting, taken', n, k, x)
           after(n, k, x) == At(Work', waiting', taken', n, k, x)
<1>6. ASSUME NEW n \in Nodes, NEW k \in Indexes, NEW x \in Datums
      PROVE  /\ before(n, k, x) \in Nat /\ between(n, k, x) \in Nat
             /\ between(n, k, x) <= before(n, k, x)
             /\ before(n, k, x) = 1 => between(n, k, x) = 1
             /\ after(n, k, x) = between(n, k, x) + (IF gets(n, k, x) THEN 1 ELSE 0)
    <2>1. KeptAt(before(n, k, x), between(n, k, x), TRUE)
        BY <1>1, TakeKeeps
    <2>2. InEntries(stack, n, k, x) \in Nat /\ InRoom(waiting[n], k, x) \in Nat
        BY AtType
    <2> DEFINE g == IF gets(n, k, x) THEN 1 ELSE 0
               t == IF <<n, k, x>> \in taken' THEN 1 ELSE 0
    <2>3. g \in Nat /\ t \in Nat
        OBVIOUS
    <2>4. InEntries(stack', n, k, x) + InRoom(waiting'[n], k, x)
                = InEntries(stack, n, k, x) + InRoom(waiting[n], k, x) + g
        BY <1>5
    <2>5. /\ after(n, k, x) = InEntries(stack', n, k, x) + InRoom(waiting'[n], k, x) + t
          /\ between(n, k, x) = InEntries(stack, n, k, x) + InRoom(waiting[n], k, x) + t
        BY <1>4 DEF At
    <2> HIDE DEF g, t, before, between, after
    <2> QED BY <2>1, <2>2, <2>3, <2>4, <2>5 DEF KeptAt, g
<1>7. ASSUME NEW x \in Datums
      PROVE  /\ ~own(x) =>
                    /\ ToolDone(new, <<x[1], x[2]>>) <=> ToolDone(old, <<x[1], x[2]>>)
                    /\ PutOut(new, x) <=> PutOut(old, x)
             /\ own(x) => ToolDone(new, <<x[1], x[2]>>) /\ (PutOut(new, x) <=> x[3] \in output)
    <2> HIDE DEF m, run, old, new, taskData
    <2> QED BY <1>1, <1>2, <1>3, RecordedEffect
<1>8. ASSUME NEW n, NEW k, NEW x \in Datums, ~own(x) PROVE ~gets(n, k, x)
    BY <1>8 DEF Brings, Datum
<1>9. ASSUME NEW n, NEW k, NEW x, own(x), Goes(n, k, x)
      PROVE  /\ m \notin ToolNodes(workflow) /\ n \notin ToolNodes(workflow)
             /\ x \in Datums /\ x[3] \in output => gets(n, k, x)
    <2>1. PICK c \in workflow.connections :
                /\ c.from = x[1] /\ c.output = x[3] /\ c.to = n /\ c.input = k
                /\ c.from \notin workflow.destination
        BY <1>9 DEF Goes
    <2>2. m \notin ToolNodes(workflow) /\ n \notin ToolNodes(workflow)
        BY <1>2, <1>9, <2>1, ToolNode
    <2>3. ASSUME x \in Datums, x[3] \in output PROVE gets(n, k, x)
        <3>1. c \in C
            BY <1>9, <2>1, <2>3 DEF ConnectionsOf
        <3>2. x = Datum(m, run, c.output)
            BY <1>9, <2>1, <2>3, DatumFacts
        <3>3. Brings(c, m, run, n, k, x)
            BY <2>1, <3>2 DEF Brings
        <3> QED BY <1>9, <2>1, <3>1, <3>3
    <2> QED BY <2>2, <2>3
<1>10. ASSUME NEW n, NEW k, NEW x, gets(n, k, x) PROVE m \notin ToolNodes(workflow)
    <2>1. PICK c \in C : Brings(c, m, run, n, k, x)
        BY <1>10
    <2>2. c \in workflow.connections /\ c.from = m
        BY <2>1 DEF ConnectionsOf
    <2> QED BY <1>2, <2>2, ToolNode
<1>11. ASSUME NEW n \in Nodes \ ToolNodes(workflow), NEW k \in Indexes, NEW x \in Datums,
              before(n, k, x) > 0
       PROVE  From(workflow, old, x)
    BY <1>4, <1>11 DEF DataInv
<1>12. ASSUME NEW x \in Datums, own(x) PROVE ~From(workflow, old, x)
    <2> SUFFICES ASSUME m \notin ToolNodes(workflow), ToolDone(old, <<x[1], x[2]>>) PROVE FALSE
        BY <1>12 DEF From
    <2>1. run + 1 \in 1..Len(old[m])
        BY <1>12 DEF ToolDone
    <2> QED BY <1>2, <1>3, <2>1
<1>g. ASSUME NEW n, NEW k, NEW x PROVE Goes(n, k, x)' <=> Goes(n, k, x)
    BY <1>1, GoesKept
<1> HIDE DEF before, between, after, gets, own, m, run, old, new, C, taskData
<1>13. ASSUME NEW n \in Nodes, NEW k \in Indexes, NEW x \in Datums, Goes(n, k, x), PutOut(new, x)
       PROVE  after(n, k, x) = 1
    <2>1. CASE own(x)
        <3>1. n \notin ToolNodes(workflow) /\ gets(n, k, x)
            BY <1>7, <1>9, <1>13, <2>1
        <3>2. ~(before(n, k, x) > 0)
            BY <1>11, <1>12, <2>1, <3>1
        <3> QED BY <1>6, <3>1, <3>2
    <2>2. CASE ~own(x)
        <3>1. PutOut(old, x) /\ ~gets(n, k, x)
            BY <1>7, <1>8, <1>13, <2>2
        <3>2. before(n, k, x) = 1
            BY <1>13, <3>1 DEF DataInv, before, old
        <3> QED BY <1>6, <3>1, <3>2
    <2> QED BY <2>1, <2>2
<1>14. ASSUME NEW n \in Nodes \ ToolNodes(workflow), NEW k \in Indexes, NEW x \in Datums,
              after(n, k, x) > 0
       PROVE  From(workflow, new, x)
    <2>1. CASE gets(n, k, x)
        <3>1. own(x) /\ m \notin ToolNodes(workflow)
            BY <1>8, <1>10, <2>1
        <3> QED BY <1>7, <3>1 DEF From, own
    <2>2. CASE ~gets(n, k, x)
        <3>1. before(n, k, x) > 0
            BY <1>6, <1>14, <2>2
        <3>2. From(workflow, old, x) /\ ~own(x)
            BY <1>11, <1>12, <3>1
        <3> QED BY <1>7, <3>2 DEF From
    <2> QED BY <2>1, <2>2
<1>15. waitTill' = FALSE /\ workflow' = workflow
    BY <1>1, <1>2
<1> QED BY <1>13, <1>14, <1>15, <1>g DEF DataInv, after, new

\* Runs that are only asked for have not ended.
LEMMA RequestedEffect ==
    ASSUME NEW runs \in RunDatas, NEW tools \in Seq(Nodes), NEW x \in Datums
    PROVE  /\ PutOut(Requested(runs, tools), x) => PutOut(runs, x)
           /\ ToolDone(runs, <<x[1], x[2]>>) => ToolDone(Requested(runs, tools), <<x[1], x[2]>>)
<1> DEFINE m == x[1]
           i == x[2] + 1
           r == runs[m]
           k == Count(tools, Len(tools), m)
           a == [j \in 1..k |-> TaskData("requested", {})]
           after == Requested(runs, tools)
<1>1. m \in Nodes /\ i \in Nat
    BY DatumFacts
<1>2. r \in Seq(TaskDatas) /\ Len(r) \in Nat
    BY <1>1, RunDatasLength
<1>3. k \in Nat
    <2>1. Len(tools) \in Nat
        OBVIOUS
    <2> QED BY <2>1, CountType DEF Count
<1>4. after[m] = r \o a
    BY <1>1 DEF Requested
<1> HIDE DEF k, r, after, i, m
<1>5. /\ a \in Seq(TaskDatas) /\ Len(a) = k
      /\ \A j \in 1..k : a[j].status = "requested"
    <2>1. TaskData("requested", {}) \in TaskDatas /\ TaskData("requested", {}).status = "requested"
        BY DEF TaskData, TaskDatas
    <2> QED BY <1>3, <2>1
<1> HIDE DEF a
<1>6. /\ Len(r \o a) = Len(r) + k
      /\ \A j \in 1..Len(r) : (r \o a)[j] = r[j]
      /\ \A j \in 1..Len(a) : (r \o a)[Len(r) + j] = a[j]
    <2>1. r \in Seq(TaskDatas) /\ a \in Seq(TaskDatas)
        BY <1>2, <1>5
    <2>2. /\ Len(r \o a) = Len(r) + Len(a)
          /\ \A j \in 1..Len(r) : (r \o a)[j] = r[j]
          /\ \A j \in 1..Len(a) : (r \o a)[Len(r) + j] = a[j]
        <3> HIDE DEF r
        <3> QED BY <2>1
    <2> QED BY <1>5, <2>2
<1>7. ASSUME i \in 1..Len(after[m]), after[m][i].status \in {"success", "error"}
      PROVE  i \in 1..Len(r) /\ after[m][i] = r[i]
    <2>1. CASE i \in 1..Len(r)
        BY <1>4, <1>6, <2>1
    <2>2. CASE i \notin 1..Len(r)
        <3>1. i - Len(r) \in 1..k /\ Len(r) + (i - Len(r)) = i
            BY <1>1, <1>2, <1>3, <1>4, <1>6, <1>7, <2>2
        <3>2. after[m][i] = a[i - Len(r)]
            BY <1>4, <1>5, <1>6, <3>1
        <3> QED BY <1>5, <1>7, <3>1, <3>2
    <2> QED BY <2>1, <2>2
<1>8. ASSUME i \in 1..Len(r) PROVE i \in 1..Len(after[m]) /\ after[m][i] = r[i]
    BY <1>2, <1>3, <1>4, <1>6, <1>8
<1> SUFFICES /\ PutOut(after, x) => PutOut(runs, x)
             /\ ToolDone(runs, <<m, x[2]>>) => ToolDone(after, <<m, x[2]>>)
    BY DEF after, m
<1>9. /\ PutOut(after, x) <=> i \in 1..Len(after[m]) /\ after[m][i].status \in {"success", "error"}
                                    /\ x[3] \in after[m][i].output
      /\ PutOut(runs, x) <=> i \in 1..Len(r) /\ r[i].status \in {"success", "error"}
                                    /\ x[3] \in r[i].output
      /\ ToolDone(runs, <<m, x[2]>>) <=> i \in 1..Len(r) /\ r[i].status \in {"success", "error"}
      /\ ToolDone(after, <<m, x[2]>>)
            <=> i \in 1..Len(after[m]) /\ after[m][i].status \in {"success", "error"}
    BY DEF PutOut, ToolDone, m, i, r
<1> QED BY <1>7, <1>8, <1>9

\* The data of an agent that asks for tools is on the stack again.
LEMMA RequestsPlaces ==
    ASSUME TypeInv, PlainAgents(workflow), NodeRequests, current.data[1] # Initial,
           NEW n \in Nodes \ ToolNodes(workflow), NEW k \in Indexes, NEW x \in Datums
    PROVE  InEntries(stack', n, k, x) + InRoom(waiting'[n], k, x)
                = InEntries(Work, n, k, x) + InRoom(waiting[n], k, x)
<1>1. /\ pc = "node" /\ Tools # <<>> /\ ~current.disabled /\ current.requests < MaxRequests
    BY DEF NodeRequests, Tools
<1>2. /\ current.node \in Nodes /\ workflow \in Workflows /\ PlanInv(Plan)
    BY <1>1, WorkOnNode, PlanIsWellFormed DEF TypeInv, CurrentInv
<1> DEFINE l == Len(Tools)
           L == Len(Requests)
           A == {i \in 1..L : Meets(Requests[i], n, k, x)}
<1>3. stack' = AddAll(Requests).stack /\ waiting' = AddAll(Requests).waiting
    BY RequestsStep DEF SetPlan
<1>4. /\ IsAdditions(Requests) /\ L = l + 1
      /\ Requests[1].entry = AgentEntry
      /\ \A i \in 1..l : Requests[i + 1].entry = ToolEntry(i)
    BY <1>1, RequestsType
<1>5. l \in Nat /\ Tools \in Seq(Nodes)
    BY ToolsType
<1>6. /\ AgentEntry.node = current.node
      /\ \A i \in 1..l : ToolEntry(i).node = Tools[i]
    BY <1>1, RequestEntries
<1>7. AgentEntry.data = current.data
    <2>1. current \in Entries
        BY DEF TypeInv, CurrentInv
    <2> QED BY <2>1 DEF AgentEntry, Entries
<1>8. ~(numberOfInputs(current.node) > 1)
    <2>1. \A c \in workflow.connections : c.to = current.node => c.input = 0
        BY <1>1, <1>2 DEF PlainAgents, Tools
    <2> QED BY <1>2, <2>1, SingleInput
<1>9. ASSUME NEW i \in 1..l PROVE Tools[i] \in ToolNodes(workflow)
    <2>1. Tools[i] \in Range(Tools)
        BY <1>5 DEF Range
    <2> QED BY <1>2, <2>1 DEF ToolNodes, Tools
<1>10. \A i \in 1..L : Requests[i].input = 0
    BY <1>4, <1>5 DEF Requests
<1> HIDE DEF l, L, A
<1>11. ASSUME NEW i \in 1..L
       PROVE  /\ ~(numberOfInputs(Requests[i].entry.node) > 1)
              /\ Meets(Requests[i], n, k, x) <=> i = 1 /\ Holds(current, n, k, x)
    <2>1. CASE i = 1
        BY <1>4, <1>6, <1>7, <1>8, <2>1 DEF Meets, Holds
    <2>2. CASE i # 1
        <3>1. i - 1 \in 1..l /\ (i - 1) + 1 = i
            BY <1>4, <1>5, <2>2
        <3>2. Requests[i].entry.node = Tools[i - 1]
            BY <1>4, <1>6, <3>1
        <3>3. Tools[i - 1] \in ToolNodes(workflow) /\ numberOfInputs(Tools[i - 1]) = 0
            BY <1>2, <1>9, <3>1, ToolInputs
        <3> QED BY <2>2, <3>2, <3>3 DEF Meets, Holds
    <2> QED BY <2>1, <2>2
<1>12. AllFindRoom(Requests)
    <2>1. 0 \in Indexes
        BY DEF Indexes
    <2> QED BY <1>10, <1>11, <2>1 DEF AllFindRoom, FindsRoom, L
<1>13. MeetsAmong(Requests, L, n, k, x) = IF Holds(current, n, k, x) THEN 1 ELSE 0
    <2>1. MeetsAmong(Requests, L, n, k, x) = Cardinality(A)
        BY DEF MeetsAmong, A
    <2>2. 1 \in 1..L
        BY <1>4, <1>5
    <2>3. A = IF Holds(current, n, k, x) THEN {1} ELSE {}
        BY <1>11, <2>2 DEF A
    <2> QED BY <2>1, <2>3, FS_EmptySet, FS_Singleton
<1>14. x \in Data
    BY DatumFacts
<1>15. PlanPlaces(AddAll(Requests), n, k, x)
                = PlanPlaces(Plan, n, k, x) + MeetsAmong(Requests, L, n, k, x)
    <2> DEFINE additions == Requests
    <2>1. IsAdditions(additions) /\ AllFindRoom(additions)
        BY <1>4, <1>12
    <2> HIDE DEF additions
    <2>2. PlanPlaces(AddAll(additions), n, k, x)
                = PlanPlaces(Plan, n, k, x) + MeetsAmong(additions, Len(additions), n, k, x)
        BY <1>2, <1>14, <2>1, AddAllPlaces
    <2> QED BY <2>2 DEF additions, L
<1>16. /\ InEntries(Work, n, k, x)
            = (IF Holds(current, n, k, x) THEN 1 ELSE 0) + InEntries(stack, n, k, x)
       /\ InEntries(stack, n, k, x) \in Nat /\ InRoom(waiting[n], k, x) \in Nat
    BY <1>1, OnWork, AtType
<1> QED BY <1>3, <1>13, <1>15, <1>16 DEF PlanPlaces, Plan

\* An agent asks for tools.
LEMMA DataRequests ==
    ASSUME TypeInv, DataInv, PlainAgents(workflow), NodeRequests
    PROVE  DataInv'
<1> DEFINE old == runData
           new == runData'
           before(n, k, x) == At(Work, waiting, taken, n, k, x)
           after(n, k, x) == At(Work', waiting', taken', n, k, x)
<1>1. /\ pc = "node" /\ pc' = "loop" /\ UNCHANGED <<workflow, taken, waitTill>>
      /\ SetPlan(IF current.data[1] = Initial THEN Plan ELSE AddAll(Requests))
    BY RequestsStep DEF NodeRequests
<1>2. new = Requested(old, Tools) /\ old \in RunDatas /\ Tools \in Seq(Nodes)
    BY RequestsStep, ToolsType DEF Requested, Count, TypeInv, RunsInv, RunDatas
<1>3. waitTill = FALSE /\ Alive /\ Work' = stack' /\ workflow \in Workflows
    BY <1>1 DEF TypeInv, WaitInv, StatusInv, Done, Alive, Work
<1>4. ASSUME NEW x \in Datums
      PROVE  /\ PutOut(new, x) => PutOut(old, x)
             /\ From(workflow, old, x) => From(workflow, new, x)
    <2> HIDE DEF old, new
    <2> QED BY <1>2, RequestedEffect DEF From
<1>5. ASSUME NEW n \in Nodes \ ToolNodes(workflow), NEW k \in Indexes, NEW x \in Datums
      PROVE  after(n, k, x) = before(n, k, x)
    <2>1. InEntries(stack', n, k, x) + InRoom(waiting'[n], k, x)
                = InEntries(Work, n, k, x) + InRoom(waiting[n], k, x)
        <3>1. CASE current.data[1] = Initial
            <4>1. stack' = stack /\ waiting' = waiting
                BY <1>1, <3>1 DEF SetPlan, Plan
            <4>2. current.data = <<Initial>>
                <5>1. current \notin Fed
                    <6>1. \A e \in Fed : e.data[1] \in Data
                        BY DEF Fed
                    <6> QED BY <3>1, <6>1, DataFacts
                <5> QED BY <1>1, <5>1 DEF TypeInv, CurrentInv, First
            <4>3. ~Holds(current, n, k, x)
                <5>1. x # Initial
                    BY DatumFacts
                <5>2. k \in 0..1
                    BY DEF Indexes
                <5> QED BY <4>2, <5>1, <5>2 DEF Holds
            <4>4. InEntries(Work, n, k, x) = InEntries(stack, n, k, x)
                BY <1>1, <4>3, OnWork, AtType
            <4> QED BY <4>1, <4>4
        <3>2. CASE current.data[1] # Initial
            BY <3>2, RequestsPlaces
        <3> QED BY <3>1, <3>2
    <2> QED BY <1>1, <1>3, <2>1 DEF At
<1>6. ASSUME NEW n, NEW k, NEW x, Goes(n, k, x) PROVE n \notin ToolNodes(workflow)
    <2>1. PICK c \in workflow.connections : c.to = n
        BY <1>6 DEF Goes
    <2> QED BY <1>3, <2>1, ToolNode
<1>7. ASSUME NEW n, NEW k, NEW x PROVE Goes(n, k, x)' <=> Goes(n, k, x)
    BY <1>1, GoesKept
<1> HIDE DEF before, after, new, old
<1>8. ASSUME NEW n \in Nodes, NEW k \in Indexes, NEW x \in Datums, Goes(n, k, x), PutOut(new, x)
      PROVE  after(n, k, x) = 1
    <2>1. n \notin ToolNodes(workflow) /\ PutOut(old, x)
        BY <1>4, <1>6, <1>8
    <2>2. before(n, k, x) = 1
        BY <1>8, <2>1 DEF DataInv, before, old
    <2> QED BY <1>5, <2>1, <2>2
<1>9. ASSUME NEW n \in Nodes \ ToolNodes(workflow), NEW k \in Indexes, NEW x \in Datums,
             after(n, k, x) > 0
      PROVE  From(workflow, new, x)
    <2>1. before(n, k, x) > 0
        BY <1>5, <1>9
    <2>2. From(workflow, old, x)
        BY <1>3, <2>1 DEF DataInv, before, old
    <2> QED BY <1>4, <2>2
<1>10. waitTill' = FALSE /\ workflow' = workflow
    BY <1>1, <1>3
<1> QED BY <1>7, <1>8, <1>9, <1>10 DEF DataInv, after, new

\* Every step keeps the invariant of data, when what a node puts out finds room.
LEMMA DataStep ==
    ASSUME TypeInv, AgentInv, DataInv, DataFindsRoom, PlainAgents(workflow), [Next]_vars
    PROVE  DataInv'
<1>1. CASE \E output \in SUBSET Outputs : NodeSucceeds(output)
    <2>1. PICK output \in SUBSET Outputs : NodeSucceeds(output)
        BY <1>1
    <2>2. pc = "node" /\ GoOn("success", output)
        BY <2>1 DEF NodeSucceeds
    <2> QED BY <2>2, DataGoesOn
<1>2. CASE NodeFails /\ current.node \in workflow.continueOnFail
    <2>1. pc = "node" /\ GoOn("error", PassedOn) /\ PassedOn \in SUBSET Outputs
        BY <1>2 DEF NodeFails, PassedOn
    <2> QED BY <2>1, DataGoesOn
<1> QED BY <1>1, <1>2, DataStays, DataWorkKept, DataSetupFails, DataStart, DataSkip, DataNull,
           DataAfter, DataResumes, DataRequests DEF Next, EngineStep, NodeEnds

\* What a node has output is, for each connection, in exactly one place (on the stack,
\* waiting, or taken by the node it is meant for) through all that
\* processRunExecutionData does, as long as whatever is put out finds room among the
\* data that waits (addNodeToBeExecuted).
THEOREM DataExactlyOnceHolds ==
    ASSUME \A w \in Workflows : PlainAgents(w)
    PROVE  Spec /\ []DataFindsRoom => []DataExactlyOnce
<1>1. Init => TypeInv /\ AgentInv /\ DataInv
    <2> SUFFICES ASSUME Init PROVE TypeInv /\ AgentInv /\ DataInv
        OBVIOUS
    <2>1. TypeInv
        BY TypeInit
    <2>2. PlainAgents(workflow)
        BY <2>1 DEF TypeInv
    <2> QED BY <2>1, <2>2, AgentInit, DataInit
<1>2. TypeInv /\ AgentInv /\ DataInv /\ DataFindsRoom /\ [Next]_vars
        => TypeInv' /\ AgentInv' /\ DataInv'
    <2> SUFFICES ASSUME TypeInv, AgentInv, DataInv, DataFindsRoom, [Next]_vars
                 PROVE  TypeInv' /\ AgentInv' /\ DataInv'
        OBVIOUS
    <2>1. PlainAgents(workflow)
        BY DEF TypeInv
    <2> QED BY <2>1, TypeStep, AgentStep, DataStep
<1>3. TypeInv /\ DataInv => DataExactlyOnce
    BY DataIsOnce
<1> QED BY <1>1, <1>2, <1>3, PTL DEF Spec

\* No data is given twice to the same input, so that it never meets data of its own.
LEMMA FindsRoomOnce ==
    ASSUME TypeInv, AgentInv, OnceInv, PlainAgents(workflow), Simple
    PROVE  DataFindsRoom
<1> SUFFICES ASSUME pc = "node", NEW output \in SUBSET Outputs,
                    NEW l \in DOMAIN Children(current.node, current.run, output)
             PROVE  FindsRoom(Added(Children(current.node, current.run, output))[l - 1],
                              Children(current.node, current.run, output)[l])
    BY DEF DataFindsRoom
<1> DEFINE m == current.node
           run == current.run
           C == workflow.connections
           K == ConnectionsOf(m, output)
           k == Cardinality(K)
           to == Outgoing(m, output)
           children == Children(m, run, output)
           plan == Added(children)[l - 1]
           a == children[l]
           c == to[l]
<1>1. /\ workflow \in Workflows /\ m \in Nodes /\ run \in Nat /\ PlanInv(Plan)
      /\ Order(workflow.connections, Ups) /\ OneSourcePerInput
    BY OnceOnNode DEF Simple
<1>2. /\ k \in Nat /\ to \in [1..k -> K] /\ K \subseteq C
      /\ \A i, j \in 1..k : to[i] = to[j] => i = j
    BY <1>1, OutgoingLists, ConnectionsType
<1>3. children = [i \in DOMAIN to |-> [input |-> to[i].input,
                        entry |-> Entry(to[i].to, <<Datum(m, run, to[i].output)>>)]]
    BY DEF Children
<1>4. \A d \in K : d.from = m
    BY DEF ConnectionsOf
<1>5. l \in 1..k /\ l - 1 \in 0..k /\ \A j \in 1..(l - 1) : j \in 1..k /\ j # l
    <2> HIDE DEF to, k
    <2>1. l \in 1..k
        BY <1>2, <1>3
    <2> QED BY <1>2, <2>1
<1>6. a.input = c.input /\ a.entry.node = c.to
    <2> DEFINE data == <<Datum(m, run, c.output)>>
    <2>1. a = [input |-> c.input, entry |-> Entry(c.to, data)]
        <3> HIDE DEF to, children, k
        <3> QED BY <1>2, <1>3, <1>5
    <2> HIDE DEF a, c, data
    <2> QED BY <2>1 DEF Entry
<1>7. c \in C /\ c.from = m /\ c \notin ServedUpTo(m, output, l - 1)
    <2> HIDE DEF k, K
    <2>1. c \in K
        BY <1>2, <1>5
    <2>2. \A j \in 1..(l - 1) : to[j] # c
        BY <1>2, <1>5
    <2> QED BY <1>2, <1>4, <2>1, <2>2 DEF ServedUpTo
<1>8. m \notin ToolNodes(workflow)
    BY <1>1, <1>7, ToolNode
<1>9. Delivering(C, Ups, m, Ran \cup {m}, plan, ServedUpTo(m, output, l - 1))
    <2> DEFINE R == Ran \cup {m}
               i == l - 1
    <2>1. Delivering(C, Ups, m, R, Plan, {})
        BY <1>8, OnceDelivers
    <2>2. i \in 0..Cardinality(ConnectionsOf(m, output))
        BY <1>5
    <2> HIDE DEF R, i
    <2>3. Delivering(C, Ups, m, R, Added(Children(m, run, output))[i], ServedUpTo(m, output, i))
        <3> HIDE DEF m, run
        <3> QED BY <1>1, <2>1, <2>2, DeliversEach
    <2> QED BY <2>3 DEF R, i
<1>10. ~HasData(plan.waiting[c.to], c.input)
    <2> HIDE DEF plan, c, m
    <2> QED BY <1>7, <1>9 DEF Delivering, FilledIn
<1> HIDE DEF plan, c, a
<1> SUFFICES FindsRoom(plan, a)
    BY DEF plan, a
<1> QED BY <1>6, <1>10 DEF FindsRoom, HasData

\* No node merges what comes from several inputs.
NoneMerges(w) == \A c \in w.connections : c.input = 0

\* Where no data waits, none takes the place of another.
LEMMA FindsRoomAlone ==
    ASSUME TypeInv, NoneMerges(workflow)
    PROVE  DataFindsRoom
<1> SUFFICES ASSUME pc = "node", NEW output \in SUBSET Outputs,
                    NEW l \in DOMAIN Children(current.node, current.run, output)
             PROVE  FindsRoom(Added(Children(current.node, current.run, output))[l - 1],
                              Children(current.node, current.run, output)[l])
    BY DEF DataFindsRoom
<1>1. \A n \in Nodes : ~(numberOfInputs(n) > 1)
    BY SingleInput DEF NoneMerges, TypeInv
<1> DEFINE C == ConnectionsOf(current.node, output)
           k == Cardinality(C)
           children == Children(current.node, current.run, output)
<1>2. Outgoing(current.node, output) \in [1..k -> C] /\ k \in Nat
    BY OutgoingLists DEF TypeInv
<1>3. IsAdditions(children) /\ Len(children) = k
    <2>1. workflow \in Workflows /\ current.node \in Nodes /\ current.run \in Nat
        BY WorkOnNode DEF TypeInv
    <2> QED BY <2>1, ChildrenType
<1>4. l \in 1..k
    <2>1. DOMAIN children = DOMAIN Outgoing(current.node, output)
        BY DEF Children
    <2> QED BY <1>2, <2>1
<1> HIDE DEF children, C, k
<1>5. children[l].entry.node \in Nodes
    <2>1. IsAddition(children[l])
        BY <1>3, <1>4 DEF IsAdditions
    <2> QED BY <2>1 DEF IsAddition, Fed, Entries
<1> SUFFICES FindsRoom(Added(children)[l - 1], children[l])
    BY DEF children
<1> QED BY <1>1, <1>5 DEF FindsRoom

\* Either every input has one source and there is no loop, or nothing is merged.
Orderly == Simple \/ NoneMerges(workflow)

\* Every step leaves the workflow alone.
LEMMA WorkflowStays ==
    ASSUME [Next]_vars
    PROVE  UNCHANGED workflow
BY DEF Next, EngineStep, NodeEnds, Begin, SetupFails, StartNode, SkipNode, LoopEnds, NodeSucceeds,
       NodeReturnsNull, NodeFails, NodeWaits, NodeRequests, GoOn, AfterNode, AfterDestination,
       AfterStop, Close, Save, Resolve, TimeIsUp, Cancel, Resume, vars

\* Without loops, and with one source for each input, nothing that is put out takes the
\* place of data that waits (addNodeToBeExecuted finds an entry that lacks the input, or
\* makes one); nor does it where no node merges what comes from several inputs. In other
\* workflows it may: the execution of engine_data_lost.
THEOREM DataFindsRoomHolds ==
    ASSUME \A w \in Workflows : PlainAgents(w)
    PROVE  Spec => [](Orderly => DataFindsRoom)
<1>1. TypeInv => PlainAgents(workflow)
    BY DEF TypeInv
<1>2. Init => TypeInv /\ AgentInv /\ OnceInv
    BY <1>1, TypeInit, AgentInit, OnceInit
<1>3. TypeInv /\ AgentInv /\ OnceInv /\ [Next]_vars => (TypeInv /\ AgentInv /\ OnceInv)'
    BY <1>1, TypeStep, AgentStep, OnceStep
<1>4. TypeInv /\ AgentInv /\ OnceInv => (Orderly => DataFindsRoom)
    BY <1>1, FindsRoomOnce, FindsRoomAlone DEF Orderly
<1> QED BY <1>2, <1>3, <1>4, PTL DEF Spec

\* In such workflows, then, what a node has output is, for each connection, in exactly
\* one place, whatever the nodes do and output: processRunExecutionData neither loses
\* nor repeats any of it.
THEOREM OrderlyDataExactlyOnce ==
    ASSUME \A w \in Workflows : PlainAgents(w)
    PROVE  Spec => [](Orderly => DataExactlyOnce)
<1> DEFINE Inv == TypeInv /\ AgentInv /\ OnceInv /\ (Orderly => DataInv)
<1>1. TypeInv => PlainAgents(workflow)
    BY DEF TypeInv
<1>2. Init => Inv
    BY <1>1, TypeInit, AgentInit, OnceInit, DataInit
<1>3. Inv /\ [Next]_vars => Inv'
    <2> SUFFICES ASSUME Inv, [Next]_vars PROVE Inv'
        OBVIOUS
    <2>1. TypeInv' /\ AgentInv' /\ OnceInv'
        BY <1>1, TypeStep, AgentStep, OnceStep
    <2>2. Orderly' => Orderly
        BY WorkflowStays, UpsKept DEF Orderly, NoneMerges
    <2>3. Orderly => DataFindsRoom
        BY <1>1, FindsRoomOnce, FindsRoomAlone DEF Orderly
    <2>4. Orderly => DataInv'
        BY <1>1, <2>3, DataStep
    <2> QED BY <2>1, <2>2, <2>4
<1>4. Inv => (Orderly => DataExactlyOnce)
    BY DataIsOnce
<1> QED BY <1>2, <1>3, <1>4, PTL DEF Spec
=============================================================================
