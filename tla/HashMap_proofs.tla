---- MODULE HashMap_proofs ----
(***************************************************************************)
(* Proofs that the hash table of utils/map.c is a map, for tables of every *)
(* size and all keys, through collisions, tombstones and rebuilds.         *)
(***************************************************************************)
EXTENDS HashMap, FiniteSetTheorems, TLAPS

-----------------------------------------------------------------------------
(* Numbers *)

\* Every nonempty set of naturals has a least element.
LEMMA LeastNatural ==
  ASSUME NEW S \in SUBSET Nat, S # {}
  PROVE  \E m \in S : \A j \in S : m <= j
<1>1. PICK m \in S : \A j \in S : ~ (<<j, m>> \in OpToRel(<, Nat))
  BY NatLessThanWellFounded, WFMin, Zenon
<1>2. \A j \in S : ~ (j < m)
  BY <1>1 DEF OpToRel
<1> QED BY <1>2

\* A set that holds 0, and n + 1 with every n below N, holds all up to N.
LEMMA UpTo ==
  ASSUME NEW N \in Nat, NEW S, 0 \in S, \A n \in 0 .. N - 1 : n \in S => n + 1 \in S
  PROVE  0 .. N \subseteq S
<1> DEFINE M == (0 .. N) \ S
<1>1. SUFFICES ASSUME M # {} PROVE FALSE
  OBVIOUS
<1>2. PICK n \in M : \A j \in M : n <= j
  <2>1. M \subseteq Nat
    OBVIOUS
  <2> HIDE DEF M
  <2> QED BY <1>1, <2>1, LeastNatural
<1>3. n - 1 \in 0 .. N - 1 /\ n - 1 \in S
  BY <1>2
<1> QED BY <1>3

LEMMA ProductNat == \A a, b \in Nat : a * b \in Nat
  OBVIOUS

\* The remainder of a number that is u beyond a multiple of n.
LEMMA Remainder ==
  ASSUME NEW n \in Nat \ {0}, NEW q \in Int, NEW u \in 0 .. n - 1
  PROVE  (n * q + u) % n = u
  OBVIOUS

LEMMA RemainderRange ==
  ASSUME NEW n \in Nat \ {0}, NEW a \in Nat
  PROVE  a % n \in 0 .. n - 1
  OBVIOUS

\* Counting n steps on from anywhere visits every slot.
LEMMA EverySlot ==
  ASSUME NEW n \in Nat \ {0}, NEW a \in Nat, NEW u \in 0 .. n - 1
  PROVE  \E k \in 0 .. n - 1 : (a + k) % n = u
<1> DEFINE q == a \div n
           h == a % n
<1>1. q \in Nat /\ h \in 0 .. n - 1 /\ a = n * q + h
  OBVIOUS
<1> HIDE DEF q, h
<1>2. CASE h <= u
  <2>1. u - h \in 0 .. n - 1 /\ a + (u - h) = n * q + u
    BY <1>1, <1>2
  <2>2. (n * q + u) % n = u
    BY <1>1, Remainder
  <2> QED BY <2>1, <2>2
<1>3. CASE u < h
  <2>1. u - h + n \in 0 .. n - 1 /\ q + 1 \in Int
    BY <1>1, <1>3
  <2>2. n * (q + 1) = n * q + n
    BY <1>1
  <2>3. a + (u - h + n) = n * (q + 1) + u
    BY <1>1, <2>1, <2>2
  <2>4. (n * (q + 1) + u) % n = u
    BY <2>1, Remainder
  <2> QED BY <2>1, <2>3, <2>4
<1> QED BY <1>1, <1>2, <1>3

-----------------------------------------------------------------------------
(* Tables and the search in them *)

States == {"NODE_UNUSED", "NODE_ALLOCATED", "NODE_FREED"}
Entry == [state : States, key : Nat, value : Values \cup {0}]

\* The tables with n slots.
Table(n) == [elements : [0 .. n - 1 -> Entry], allocated_count : Nat, freed_count : Nat]

\* The loops go on at a slot that is used and does not hold the key.
Passed(slot, key) == slot.state # "NODE_UNUSED" /\ ~Holds(slot, key)

LEMMA TableSize ==
  ASSUME NEW n \in Nat, NEW m \in Table(n)
  PROVE  DOMAIN m.elements = 0 .. n - 1 /\ Size(m) = n /\ IsFiniteSet(DOMAIN m.elements)
<1>1. DOMAIN m.elements = 0 .. n - 1
  BY DEF Table
<1>2. IsFiniteSet(0 .. n - 1) /\ Cardinality(0 .. n - 1) = n
  BY FS_Interval
<1> QED BY <1>1, <1>2 DEF Size

LEMMA ProbeRange ==
  ASSUME NEW n \in Nat \ {0}, NEW m \in Table(n), NEW key \in Nat, NEW k \in Nat
  PROVE  /\ Probe(m, key, k) \in 0 .. n - 1 /\ Probe(m, key, k) = (HASH_SEED * key + k) % n
         /\ Slot(m, key, k) \in Entry
<1>1. Size(m) = n
  BY TableSize
<1>2. HASH_SEED * key + k \in Nat
  BY DEF HASH_SEED
<1>3. Probe(m, key, k) \in 0 .. n - 1 /\ Probe(m, key, k) = (HASH_SEED * key + k) % n
  BY <1>1, <1>2, RemainderRange DEF Probe
<1>4. m.elements \in [0 .. n - 1 -> Entry]
  BY DEF Table
<1> QED BY <1>3, <1>4 DEF Slot

LEMMA ProbeAll ==
  ASSUME NEW n \in Nat \ {0}, NEW m \in Table(n), NEW key \in Nat, NEW i \in 0 .. n - 1
  PROVE  \E k \in 0 .. n - 1 : Probe(m, key, k) = i
<1>1. HASH_SEED * key \in Nat
  BY DEF HASH_SEED
<1>2. PICK k \in 0 .. n - 1 : (HASH_SEED * key + k) % n = i
  BY <1>1, EverySlot
<1> QED BY <1>2, ProbeRange

\* Where the loop breaks.
LEMMA Search ==
  ASSUME NEW n \in Nat \ {0}, NEW m \in Table(n), NEW key \in Nat
  PROVE  /\ Breaks(m, key) \in 0 .. n
         /\ Skipped(m, key) = 0 .. Breaks(m, key) - 1
         /\ \A k \in 0 .. Breaks(m, key) - 1 : Passed(Slot(m, key, k), key)
         /\ Breaks(m, key) < n => ~Passed(Slot(m, key, Breaks(m, key)), key)
<1> DEFINE Ends == {k \in 0 .. n - 1 : ~Passed(Slot(m, key, k), key)} \cup {n}
<1>1. PICK b \in Ends : \A k \in Ends : b <= k
  <2>1. Ends \subseteq Nat /\ Ends # {}
    OBVIOUS
  <2> HIDE DEF Ends
  <2> QED BY <2>1, LeastNatural
<1>2. b \in 0 .. n
  OBVIOUS
<1>3. \A k \in 0 .. b - 1 : Passed(Slot(m, key, k), key)
  BY <1>1, <1>2
<1>4. b < n => ~Passed(Slot(m, key, b), key)
  BY <1>1
<1>5. Skipped(m, key) = 0 .. b - 1
  <2>1. Size(m) = n
    BY TableSize
  <2>2. \A k \in 0 .. b - 1 : k \in Skipped(m, key)
    BY <1>2, <1>3, <2>1 DEF Skipped, Passed
  <2>3. ASSUME NEW k \in Skipped(m, key) PROVE k \in 0 .. b - 1
    <3>1. k \in 0 .. n - 1 /\ \A j \in 0 .. k : Passed(Slot(m, key, j), key)
      BY <2>1, <2>3 DEF Skipped, Passed
    <3>2. CASE b <= k
      BY <1>2, <1>4, <3>1, <3>2
    <3> QED BY <1>2, <3>1, <3>2
  <2> QED BY <2>2, <2>3
<1>6. Breaks(m, key) = b
  BY <1>2, <1>5, FS_Interval DEF Breaks
<1> QED BY <1>2, <1>3, <1>4, <1>5, <1>6

\* The loop breaks at the first slot that it does not pass.
LEMMA SearchEnds ==
  ASSUME NEW n \in Nat \ {0}, NEW m \in Table(n), NEW key \in Nat,
         NEW k \in 0 .. n - 1, ~Passed(Slot(m, key, k), key),
         \A j \in 0 .. k - 1 : Passed(Slot(m, key, j), key)
  PROVE  Breaks(m, key) = k
<1>1. /\ Breaks(m, key) \in 0 .. n
      /\ \A j \in 0 .. Breaks(m, key) - 1 : Passed(Slot(m, key, j), key)
      /\ Breaks(m, key) < n => ~Passed(Slot(m, key, Breaks(m, key)), key)
  BY Search
<1> DEFINE b == Breaks(m, key)
<1> HIDE DEF b
<1>2. b \in 0 .. n /\ (\A j \in 0 .. b - 1 : Passed(Slot(m, key, j), key))
      /\ (b < n => ~Passed(Slot(m, key, b), key))
  BY <1>1 DEF b
<1>3. CASE b < k
  BY <1>2, <1>3
<1>4. CASE k < b
  BY <1>2, <1>4
<1>5. b = k
  BY <1>2, <1>3, <1>4
<1> QED BY <1>5 DEF b

-----------------------------------------------------------------------------
(* Right tables *)

Allocated(m) == InState(m, "NODE_ALLOCATED")
Tombs(m) == InState(m, "NODE_FREED")

\* The search for the key in slot i ends at slot i.
Reached(m, i) ==
  /\ Found(m, m.elements[i].key)
  /\ Probe(m, m.elements[i].key, Breaks(m, m.elements[i].key)) = i

\* CountsAgree and Findable, of table m.
Right(m, n) ==
  /\ m \in Table(n)
  /\ m.allocated_count = Cardinality(Allocated(m))
  /\ m.freed_count = Cardinality(Tombs(m))
  /\ \A i \in Allocated(m) : Reached(m, i)

LEMMA StateSets ==
  ASSUME NEW n \in Nat, NEW m \in Table(n)
  PROVE  /\ IsFiniteSet(Allocated(m)) /\ IsFiniteSet(Tombs(m))
         /\ Allocated(m) \subseteq 0 .. n - 1 /\ Tombs(m) \subseteq 0 .. n - 1
         /\ Allocated(m) \cap Tombs(m) = {}
         /\ \A i \in 0 .. n - 1 : m.elements[i] \in Entry
<1>1. IsFiniteSet(DOMAIN m.elements) /\ DOMAIN m.elements = 0 .. n - 1
  BY TableSize
<1>2. Allocated(m) \subseteq 0 .. n - 1 /\ Tombs(m) \subseteq 0 .. n - 1
  BY <1>1 DEF Allocated, Tombs, InState
<1>3. IsFiniteSet(Allocated(m)) /\ IsFiniteSet(Tombs(m))
  BY <1>1, <1>2, FS_Subset
<1>4. Allocated(m) \cap Tombs(m) = {}
  BY DEF Allocated, Tombs, InState
<1>5. \A i \in 0 .. n - 1 : m.elements[i] \in Entry
  BY DEF Table
<1> QED BY <1>2, <1>3, <1>4, <1>5

\* A key is found where it is, and nowhere else.
LEMMA FoundIs ==
  ASSUME NEW n \in Nat \ {0}, NEW m, Right(m, n), NEW key \in Nat
  PROVE  /\ Found(m, key) =>
              /\ Probe(m, key, Breaks(m, key)) \in Allocated(m)
              /\ m.elements[Probe(m, key, Breaks(m, key))].key = key
         /\ \A i \in Allocated(m) :
              m.elements[i].key = key =>
                Found(m, key) /\ Probe(m, key, Breaks(m, key)) = i
<1>1. m \in Table(n) /\ DOMAIN m.elements = 0 .. n - 1
  BY TableSize DEF Right
<1>2. Probe(m, key, Breaks(m, key)) \in 0 .. n - 1
  <2>1. Breaks(m, key) \in 0 .. n
    BY <1>1, Search
  <2>2. Breaks(m, key) \in Nat
    BY <2>1
  <2> QED BY <1>1, <2>2, ProbeRange
<1>3. Found(m, key) =>
        /\ Probe(m, key, Breaks(m, key)) \in Allocated(m)
        /\ m.elements[Probe(m, key, Breaks(m, key))].key = key
  BY <1>1, <1>2 DEF Found, Holds, Slot, Allocated, InState
<1> QED BY <1>3 DEF Right, Reached

\* A table that is not full has a slot that was never used.
LEMMA UnusedSlot ==
  ASSUME NEW n \in Nat \ {0}, NEW m, Right(m, n), m.allocated_count + m.freed_count < n
  PROVE  \E i \in 0 .. n - 1 : m.elements[i].state = "NODE_UNUSED"
<1> SUFFICES ASSUME \A i \in 0 .. n - 1 : m.elements[i].state # "NODE_UNUSED"
             PROVE  FALSE
  OBVIOUS
<1>1. m \in Table(n)
  BY DEF Right
<1>2. 0 .. n - 1 = Allocated(m) \cup Tombs(m)
  <2>1. DOMAIN m.elements = 0 .. n - 1
    BY <1>1, TableSize
  <2>2. \A i \in 0 .. n - 1 : m.elements[i].state \in {"NODE_ALLOCATED", "NODE_FREED"}
    BY <1>1, StateSets DEF Entry, States
  <2> QED BY <2>1, <2>2 DEF Allocated, Tombs, InState
<1>3. /\ IsFiniteSet(Allocated(m)) /\ IsFiniteSet(Tombs(m))
      /\ Allocated(m) \cap Tombs(m) = {}
  BY <1>1, StateSets
<1>4. Cardinality(Allocated(m) \cup Tombs(m)) =
        m.allocated_count + m.freed_count - Cardinality({})
  BY <1>3, FS_Union DEF Right
<1>5. Cardinality(0 .. n - 1) = n /\ Cardinality({}) = 0
  BY FS_Interval, FS_EmptySet
<1>6. m.allocated_count \in Nat /\ m.freed_count \in Nat
  BY <1>1 DEF Table
<1>7. Cardinality(0 .. n - 1) = m.allocated_count + m.freed_count - 0
  BY <1>2, <1>4, <1>5
<1> QED BY <1>5, <1>6, <1>7

\* A change of the table that keeps slot i, and lets the search for its key pass
\* what it passed, keeps the key findable.
LEMMA StaysReached ==
  ASSUME NEW n \in Nat \ {0}, NEW m \in Table(n), NEW t \in Table(n),
         NEW i \in Allocated(m), Reached(m, i), t.elements[i] = m.elements[i],
         \A p \in 0 .. n - 1 : Passed(m.elements[p], m.elements[i].key) =>
                               Passed(t.elements[p], m.elements[i].key)
  PROVE  Reached(t, i)
<1> DEFINE key == m.elements[i].key
           b == Breaks(m, key)
<1>1. i \in 0 .. n - 1 /\ key \in Nat
  BY StateSets DEF Entry
<1>2. b < n /\ Holds(Slot(m, key, b), key) /\ Probe(m, key, b) = i
  BY TableSize DEF Reached, Found
<1> HIDE DEF key
<1>3. b \in 0 .. n - 1 /\ \A j \in 0 .. b - 1 : Passed(Slot(m, key, j), key)
  <2>1. b \in 0 .. n /\ \A j \in 0 .. b - 1 : Passed(Slot(m, key, j), key)
    BY <1>1, Search
  <2> HIDE DEF b
  <2> QED BY <1>2, <2>1
<1> HIDE DEF b
<1>4. \A j \in Nat : Probe(t, key, j) = Probe(m, key, j) /\ Probe(m, key, j) \in 0 .. n - 1
  <2> SUFFICES ASSUME NEW j \in Nat
               PROVE  /\ Probe(t, key, j) = Probe(m, key, j)
                      /\ Probe(m, key, j) \in 0 .. n - 1
    OBVIOUS
  <2>1. Probe(m, key, j) = (HASH_SEED * key + j) % n /\ Probe(m, key, j) \in 0 .. n - 1
    BY <1>1, ProbeRange
  <2>2. Probe(t, key, j) = (HASH_SEED * key + j) % n
    BY <1>1, ProbeRange
  <2> QED BY <2>1, <2>2
<1>5. \A j \in 0 .. b - 1 : Passed(Slot(t, key, j), key)
  BY <1>3, <1>4 DEF Slot, key
<1>6. Slot(t, key, b) = m.elements[i] /\ Holds(m.elements[i], key)
  BY <1>2, <1>3, <1>4 DEF Slot
<1>7. Breaks(t, key) = b
  <2>1. ~Passed(Slot(t, key, b), key)
    BY <1>6 DEF Passed
  <2> QED BY <1>1, <1>3, <1>5, <2>1, SearchEnds
<1>8. Size(t) = n
  BY TableSize
<1>9. Found(t, key) /\ Probe(t, key, Breaks(t, key)) = i
  BY <1>2, <1>3, <1>4, <1>6, <1>7, <1>8 DEF Found
<1> QED BY <1>9 DEF Reached, key

-----------------------------------------------------------------------------
(* Insertion *)

\* The live entries of a table, as pairs.
Contents(m) == {<<m.elements[i].key, m.elements[i].value>> : i \in Allocated(m)}

\* A new key goes to the first tombstone on its path, or to the unused slot that
\* ends the path, and the search for it will come there.
LEMMA InsertPlace ==
  ASSUME NEW n \in Nat \ {0}, NEW m, Right(m, n), m.allocated_count + m.freed_count < n,
         NEW key \in Nat, ~Found(m, key)
  PROVE  \E k \in 0 .. n - 1 :
           /\ InsertAt(m, key) = Probe(m, key, k)
           /\ Slot(m, key, k).state =
                IF Freed(m, key) # {} THEN "NODE_FREED" ELSE "NODE_UNUSED"
           /\ \A j \in 0 .. k - 1 :
                Passed(Slot(m, key, j), key) /\ Probe(m, key, j) # Probe(m, key, k)
<1> DEFINE b == Breaks(m, key)
<1>1. m \in Table(n) /\ Size(m) = n
  BY TableSize DEF Right
<1>2. /\ b \in 0 .. n /\ Skipped(m, key) = 0 .. b - 1
      /\ \A k \in 0 .. b - 1 : Passed(Slot(m, key, k), key)
      /\ b < n => ~Passed(Slot(m, key, b), key)
  BY <1>1, Search
<1> HIDE DEF b
<1>3. CASE Freed(m, key) # {}
  <2> DEFINE F == Freed(m, key)
             k == CHOOSE k \in F : \A j \in F : k <= j
  <2>1. F \subseteq 0 .. b - 1 /\ F \subseteq Nat
    BY <1>2 DEF Freed
  <2>2. k \in F /\ \A j \in F : k <= j
    <3> HIDE DEF F
    <3> QED BY <1>3, <2>1, LeastNatural DEF F
  <2>3. InsertAt(m, key) = Probe(m, key, k)
    BY <1>3 DEF InsertAt
  <2>4. Slot(m, key, k).state = "NODE_FREED"
    BY <2>2 DEF Freed
  <2> HIDE DEF k
  <2>5. k \in 0 .. n - 1
    BY <1>2, <2>1, <2>2
  <2>6. ASSUME NEW j \in 0 .. k - 1
        PROVE  Passed(Slot(m, key, j), key) /\ Probe(m, key, j) # Probe(m, key, k)
    <3>1. j \in 0 .. b - 1 /\ j < k
      BY <1>2, <2>1, <2>2
    <3>2. j \notin F
      BY <2>1, <2>2, <3>1
    <3>3. Slot(m, key, j).state # "NODE_FREED"
      BY <1>2, <3>1, <3>2 DEF Freed
    <3> QED BY <1>2, <2>4, <3>1, <3>3 DEF Slot
  <2> QED BY <1>3, <2>3, <2>4, <2>5, <2>6
<1>4. CASE Freed(m, key) = {}
  <2>1. b < n
    <3> SUFFICES ASSUME b = n PROVE FALSE
      BY <1>2
    <3>1. PICK i \in 0 .. n - 1 : m.elements[i].state = "NODE_UNUSED"
      BY UnusedSlot
    <3>2. PICK k \in 0 .. n - 1 : Probe(m, key, k) = i
      BY <1>1, ProbeAll
    <3>3. Passed(Slot(m, key, k), key)
      BY <1>2
    <3> QED BY <3>1, <3>2, <3>3 DEF Slot, Passed
  <2>2. ~Passed(Slot(m, key, b), key)
    BY <1>2, <2>1
  <2>3. Slot(m, key, b).state = "NODE_UNUSED"
    BY <1>1, <2>1, <2>2 DEF Passed, Found, b
  <2>4. InsertAt(m, key) = Probe(m, key, b)
    BY <1>4 DEF InsertAt, b
  <2>5. \A j \in 0 .. b - 1 :
          Passed(Slot(m, key, j), key) /\ Probe(m, key, j) # Probe(m, key, b)
    BY <1>2, <2>3 DEF Slot, Passed
  <2>6. b \in 0 .. n - 1
    BY <1>2, <2>1
  <2> QED BY <1>4, <2>3, <2>4, <2>5, <2>6
<1> QED BY <1>3, <1>4

\* What _insert does with a new key when there is room.
LEMMA InsertEffect ==
  ASSUME NEW n \in Nat \ {0}, NEW m, Right(m, n), m.allocated_count + m.freed_count < n,
         NEW key \in Nat, ~Found(m, key), NEW value \in Values \cup {0}
  PROVE  LET t == _insert(m, key, value)
         IN  /\ Right(t, n)
             /\ t.allocated_count = m.allocated_count + 1
             /\ t.freed_count <= m.freed_count
             /\ Contents(t) = Contents(m) \cup {<<key, value>>}
<1> DEFINE new == [state |-> "NODE_ALLOCATED", key |-> key, value |-> value]
           p == InsertAt(m, key)
           t == _insert(m, key, value)
<1>1. m \in Table(n) /\ DOMAIN m.elements = 0 .. n - 1
  BY TableSize DEF Right
<1>2. PICK k \in 0 .. n - 1 :
        /\ p = Probe(m, key, k)
        /\ Slot(m, key, k).state =
             IF Freed(m, key) # {} THEN "NODE_FREED" ELSE "NODE_UNUSED"
        /\ \A j \in 0 .. k - 1 :
             Passed(Slot(m, key, j), key) /\ Probe(m, key, j) # Probe(m, key, k)
  BY InsertPlace
<1>3. p \in 0 .. n - 1
  <2>1. k \in Nat
    OBVIOUS
  <2>2. Probe(m, key, k) \in 0 .. n - 1
    BY <1>1, <2>1, ProbeRange
  <2> QED BY <1>2, <2>2
<1>4. m.elements[p].state = IF Freed(m, key) # {} THEN "NODE_FREED" ELSE "NODE_UNUSED"
  BY <1>2 DEF Slot
<1>5. t = [elements |-> [m.elements EXCEPT ![p] = new],
           allocated_count |-> m.allocated_count + 1,
           freed_count |-> FreedAfter(m, key)]
  BY DEF _insert
<1> HIDE DEF t, p
<1>6. new \in Entry
  BY DEF Entry, States
<1> HIDE DEF new
<1>7. /\ t.elements \in [0 .. n - 1 -> Entry] /\ DOMAIN t.elements = 0 .. n - 1
      /\ t.elements[p] = new
      /\ \A i \in (0 .. n - 1) \ {p} : t.elements[i] = m.elements[i]
  BY <1>1, <1>3, <1>5, <1>6 DEF Table
<1>8. Allocated(t) = Allocated(m) \cup {p} /\ p \notin Allocated(m)
  BY <1>1, <1>3, <1>4, <1>7 DEF Allocated, InState, new
<1>9. /\ IsFiniteSet(Allocated(m)) /\ IsFiniteSet(Tombs(m))
      /\ m.allocated_count = Cardinality(Allocated(m))
      /\ m.freed_count = Cardinality(Tombs(m))
      /\ m.allocated_count \in Nat /\ m.freed_count \in Nat
  BY <1>1, StateSets DEF Right, Table
<1>10. /\ t.allocated_count = m.allocated_count + 1
       /\ t.allocated_count = Cardinality(Allocated(t))
  BY <1>5, <1>8, <1>9, FS_AddElement
<1>11. /\ t.freed_count = Cardinality(Tombs(t))
       /\ t.freed_count \in Nat /\ t.freed_count <= m.freed_count
  <2>1. CASE Freed(m, key) # {}
    <3>1. Tombs(t) = Tombs(m) \ {p} /\ p \in Tombs(m)
      BY <1>1, <1>3, <1>4, <1>7, <2>1 DEF Tombs, InState, new
    <3>2. t.freed_count = m.freed_count - 1
      BY <1>5, <2>1 DEF FreedAfter
    <3>3. Cardinality(Tombs(t)) = m.freed_count - 1 /\ IsFiniteSet(Tombs(t))
      BY <1>9, <3>1, FS_RemoveElement
    <3>4. Cardinality(Tombs(t)) \in Nat
      BY <3>3, FS_CardinalityType
    <3> QED BY <1>9, <3>2, <3>3, <3>4
  <2>2. CASE Freed(m, key) = {}
    <3>1. Tombs(t) = Tombs(m)
      BY <1>1, <1>3, <1>4, <1>7, <2>2 DEF Tombs, InState, new
    <3>2. t.freed_count = m.freed_count
      BY <1>5, <2>2 DEF FreedAfter
    <3> QED BY <1>9, <3>1, <3>2
  <2> QED BY <2>1, <2>2
<1>12. t \in Table(n)
  BY <1>5, <1>7, <1>9, <1>10, <1>11 DEF Table
<1>13. Reached(t, p)
  <2>1. \A j \in 0 .. n : /\ Probe(t, key, j) = Probe(m, key, j)
                         /\ Probe(m, key, j) \in 0 .. n - 1
    <3> SUFFICES ASSUME NEW j \in 0 .. n
                 PROVE  /\ Probe(t, key, j) = Probe(m, key, j)
                        /\ Probe(m, key, j) \in 0 .. n - 1
      OBVIOUS
    <3>0. j \in Nat
      OBVIOUS
    <3>1. Probe(m, key, j) = (HASH_SEED * key + j) % n /\ Probe(m, key, j) \in 0 .. n - 1
      BY <1>1, <3>0, ProbeRange
    <3>2. Probe(t, key, j) = (HASH_SEED * key + j) % n
      BY <1>12, <3>0, ProbeRange
    <3> QED BY <3>1, <3>2
  <2>2. ASSUME NEW j \in 0 .. k - 1 PROVE Passed(Slot(t, key, j), key)
    <3>1. j \in 0 .. n
      OBVIOUS
    <3>2. Probe(t, key, j) = Probe(m, key, j) /\ Probe(m, key, j) \in (0 .. n - 1) \ {p}
      BY <1>2, <2>1, <3>1
    <3>3. Slot(t, key, j) = Slot(m, key, j)
      BY <1>7, <3>2 DEF Slot
    <3> QED BY <1>2, <3>3
  <2>3. Slot(t, key, k) = new /\ Holds(new, key)
    <3>1. k \in 0 .. n /\ Probe(m, key, k) = p
      BY <1>2
    <3>2. Probe(t, key, k) = p
      BY <2>1, <3>1
    <3>3. t.elements[p] = new
      BY <1>7
    <3> QED BY <3>2, <3>3 DEF Slot, Holds, new
  <2>4. ~Passed(Slot(t, key, k), key)
    BY <2>3 DEF Passed
  <2>5. Breaks(t, key) = k
    BY <1>12, <2>2, <2>4, SearchEnds
  <2>6. t.elements[p].key = key /\ Size(t) = n
    BY <1>7, <1>12, TableSize DEF new
  <2> QED BY <1>2, <2>1, <2>3, <2>5, <2>6 DEF Reached, Found
<1>14. ASSUME NEW i \in Allocated(m) PROVE Reached(t, i)
  <2>1. Reached(m, i) /\ i \in 0 .. n - 1 /\ t.elements[i] = m.elements[i]
    BY <1>1, <1>7, <1>8, StateSets DEF Right
  <2>2. m.elements[i].key # key
    BY FoundIs
  <2>3. ASSUME NEW q \in 0 .. n - 1, Passed(m.elements[q], m.elements[i].key)
        PROVE  Passed(t.elements[q], m.elements[i].key)
    BY <1>7, <2>2, <2>3 DEF Passed, Holds, new
  <2> QED BY <1>1, <1>12, <2>1, <2>3, StaysReached
<1>15. Right(t, n)
  BY <1>8, <1>10, <1>11, <1>12, <1>13, <1>14 DEF Right
<1>16. Contents(t) = Contents(m) \cup {<<key, value>>}
  <2>1. \A i \in Allocated(m) : t.elements[i] = m.elements[i]
    BY <1>1, <1>7, <1>8, StateSets
  <2> QED BY <1>7, <1>8, <2>1 DEF Contents, new
<1> QED BY <1>10, <1>11, <1>15, <1>16 DEF t

\* What the searches of erase and find return is what the contents say.
LEMMA FoundContents ==
  ASSUME NEW n \in Nat \ {0}, NEW m, Right(m, n), NEW key \in Nat
  PROVE  /\ Found(m, key) => <<key, Slot(m, key, Breaks(m, key)).value>> \in Contents(m)
         /\ \A v : <<key, v>> \in Contents(m) =>
                   Found(m, key) /\ v = Slot(m, key, Breaks(m, key)).value
<1>1. Found(m, key) => <<key, Slot(m, key, Breaks(m, key)).value>> \in Contents(m)
  BY FoundIs DEF Contents, Slot
<1>2. ASSUME NEW v, <<key, v>> \in Contents(m)
      PROVE  Found(m, key) /\ v = Slot(m, key, Breaks(m, key)).value
  <2>1. PICK i \in Allocated(m) : m.elements[i].key = key /\ m.elements[i].value = v
    BY <1>2 DEF Contents
  <2>2. Found(m, key) /\ Probe(m, key, Breaks(m, key)) = i
    BY <2>1, FoundIs
  <2> QED BY <2>1, <2>2 DEF Slot
<1> QED BY <1>1, <1>2

-----------------------------------------------------------------------------
(* Erasure *)

\* The table that erase leaves when it finds the key in slot i.
Without(m, i) ==
  [elements |-> [m.elements EXCEPT ![i] = Erased(@)],
   allocated_count |-> m.allocated_count - 1,
   freed_count |-> m.freed_count + 1]

\* The entries whose key is another.
Dropped(contents, key) == {c \in contents : c[1] # key}

LEMMA EraseEffect ==
  ASSUME NEW n \in Nat \ {0}, NEW m, Right(m, n), NEW key \in Nat, Found(m, key)
  PROVE  LET t == Without(m, Probe(m, key, Breaks(m, key)))
         IN  /\ Right(t, n)
             /\ t.allocated_count + t.freed_count = m.allocated_count + m.freed_count
             /\ Contents(t) = Dropped(Contents(m), key)
<1> DEFINE p == Probe(m, key, Breaks(m, key))
           t == Without(m, p)
<1>1. m \in Table(n) /\ DOMAIN m.elements = 0 .. n - 1
  BY TableSize DEF Right
<1>2. /\ p \in Allocated(m) /\ m.elements[p].key = key
      /\ \A i \in Allocated(m) : m.elements[i].key = key => i = p
  BY FoundIs
<1> HIDE DEF p
<1>3. p \in 0 .. n - 1
  BY <1>1, <1>2, StateSets
<1>4. /\ Erased(m.elements[p]) \in Entry
      /\ Erased(m.elements[p]).state = "NODE_FREED"
  <2>1. m.elements[p] \in Entry
    BY <1>1, <1>3, StateSets
  <2> QED BY <2>1 DEF Erased, Entry, States, NoKey
<1>5. t = [elements |-> [m.elements EXCEPT ![p] = Erased(m.elements[p])],
           allocated_count |-> m.allocated_count - 1, freed_count |-> m.freed_count + 1]
  BY DEF Without
<1> HIDE DEF t
<1>6. /\ t.elements \in [0 .. n - 1 -> Entry] /\ DOMAIN t.elements = 0 .. n - 1
      /\ t.elements[p].state = "NODE_FREED"
      /\ \A i \in (0 .. n - 1) \ {p} : t.elements[i] = m.elements[i]
  BY <1>1, <1>3, <1>4, <1>5 DEF Table
<1>7. /\ Allocated(t) = Allocated(m) \ {p}
      /\ Tombs(t) = Tombs(m) \cup {p} /\ p \notin Tombs(m)
  BY <1>1, <1>2, <1>3, <1>6 DEF Allocated, Tombs, InState
<1>8. /\ IsFiniteSet(Allocated(m)) /\ IsFiniteSet(Tombs(m))
      /\ m.allocated_count = Cardinality(Allocated(m))
      /\ m.freed_count = Cardinality(Tombs(m))
      /\ m.allocated_count \in Nat /\ m.freed_count \in Nat
  BY <1>1, StateSets DEF Right, Table
<1>9. /\ t.allocated_count = Cardinality(Allocated(t)) /\ t.allocated_count \in Nat
      /\ t.freed_count = Cardinality(Tombs(t)) /\ t.freed_count \in Nat
  <2>1. /\ IsFiniteSet(Allocated(t))
        /\ Cardinality(Allocated(t)) = m.allocated_count - 1
    BY <1>2, <1>7, <1>8, FS_RemoveElement
  <2>2. Cardinality(Tombs(t)) = m.freed_count + 1
    <3>1. Cardinality(Tombs(m) \cup {p}) = Cardinality(Tombs(m)) + 1
      BY <1>7, <1>8, FS_AddElement
    <3> QED BY <1>7, <1>8, <3>1
  <2>3. Cardinality(Allocated(t)) \in Nat
    BY <2>1, FS_CardinalityType
  <2> QED BY <1>5, <1>8, <2>1, <2>2, <2>3
<1>10. t \in Table(n)
  BY <1>5, <1>6, <1>9 DEF Table
<1>11. ASSUME NEW i \in Allocated(t) PROVE Reached(t, i)
  <2>1. i \in Allocated(m) /\ Reached(m, i) /\ i \in (0 .. n - 1) \ {p}
    BY <1>1, <1>7, StateSets DEF Right
  <2>2. t.elements[i] = m.elements[i]
    BY <1>6, <2>1
  <2>3. ASSUME NEW q \in 0 .. n - 1, Passed(m.elements[q], m.elements[i].key)
        PROVE  Passed(t.elements[q], m.elements[i].key)
    BY <1>6, <2>3 DEF Passed, Holds
  <2> QED BY <1>1, <1>10, <2>1, <2>2, <2>3, StaysReached
<1>12. Right(t, n)
  BY <1>9, <1>10, <1>11 DEF Right
<1>13. t.allocated_count + t.freed_count = m.allocated_count + m.freed_count
  BY <1>5, <1>8
<1>14. Contents(t) = Dropped(Contents(m), key)
  <2>1. \A i \in Allocated(t) : i \in Allocated(m) /\ t.elements[i] = m.elements[i]
    BY <1>1, <1>6, <1>7, StateSets
  <2>2. \A i \in Allocated(m) : m.elements[i].key # key <=> i \in Allocated(t)
    BY <1>2, <1>7
  <2>3. ASSUME NEW c \in Contents(t) PROVE c \in Contents(m) /\ c[1] # key
    <3>1. PICK i \in Allocated(t) : c = <<t.elements[i].key, t.elements[i].value>>
      BY <2>3 DEF Contents
    <3>2. /\ i \in Allocated(m) /\ c = <<m.elements[i].key, m.elements[i].value>>
          /\ c[1] = m.elements[i].key
      BY <2>1, <3>1
    <3> QED BY <2>2, <3>1, <3>2 DEF Contents
  <2>4. ASSUME NEW c \in Contents(m), c[1] # key PROVE c \in Contents(t)
    <3>1. PICK i \in Allocated(m) : c = <<m.elements[i].key, m.elements[i].value>>
      BY <2>4 DEF Contents
    <3>2. i \in Allocated(t) /\ c = <<t.elements[i].key, t.elements[i].value>>
      BY <2>1, <2>2, <2>4, <3>1
    <3> QED BY <3>2 DEF Contents
  <2> QED BY <2>3, <2>4 DEF Dropped
<1> QED BY <1>12, <1>13, <1>14 DEF t, p

-----------------------------------------------------------------------------
(* The rebuild *)

LEMMA ClearedRight ==
  ASSUME NEW n \in Nat \ {0}
  PROVE  /\ Right(Cleared(n), n) /\ Contents(Cleared(n)) = {}
         /\ Cleared(n).allocated_count = 0 /\ Cleared(n).freed_count = 0
<1> DEFINE t == Cleared(n)
<1>1. Unused \in Entry /\ Unused.state = "NODE_UNUSED"
  BY DEF Unused, Entry, States, NoKey
<1>2. /\ t.elements = [i \in 0 .. n - 1 |-> Unused]
      /\ t = [elements |-> t.elements, allocated_count |-> 0, freed_count |-> 0]
  BY DEF Cleared
<1> HIDE DEF t
<1>3. t \in Table(n)
  BY <1>1, <1>2 DEF Table
<1>4. Allocated(t) = {} /\ Tombs(t) = {}
  BY <1>1, <1>2 DEF Allocated, Tombs, InState
<1>5. Right(t, n) /\ Contents(t) = {}
  BY <1>2, <1>3, <1>4, FS_EmptySet DEF Right, Contents
<1> QED BY <1>2, <1>5 DEF t

\* The loop of resize_if_needed runs over the slots one by one.
LEMMA RebuiltSteps ==
  ASSUME NEW n \in Nat, NEW m, Size(m) = n
  PROVE  \E r : /\ Rebuilt(m) = r[n]
               /\ r[0] = Cleared(2 * n)
               /\ \A k \in 1 .. n : r[k] = Reinserted(r[k - 1], m.elements[k - 1])
<1> DEFINE Body(g, N) == [k \in 0 .. N |-> IF k = 0 THEN Cleared(2 * n)
                                         ELSE Reinserted(g[k - 1], m.elements[k - 1])]
           S == {N \in 0 .. n : \E g : g = Body(g, N)}
           r == CHOOSE g : g = Body(g, n)
<1>1. 0 \in S
  <2> DEFINE g == [k \in 0 .. 0 |-> Cleared(2 * n)]
  <2>1. g = Body(g, 0)
    OBVIOUS
  <2>2. \E f : f = Body(f, 0)
    <3> HIDE DEF Body
    <3> QED BY <2>1
  <2> HIDE DEF Body, g
  <2> QED BY <2>2
<1>2. ASSUME NEW N \in 0 .. n - 1, N \in S PROVE N + 1 \in S
  <2>1. PICK g : g = Body(g, N)
    BY <1>2
  <2> DEFINE h == [k \in 0 .. N + 1 |->
                     IF k = N + 1 THEN Reinserted(g[N], m.elements[N]) ELSE g[k]]
  <2>2. \A k \in 0 .. N : g[k] = IF k = 0 THEN Cleared(2 * n)
                                ELSE Reinserted(g[k - 1], m.elements[k - 1])
    BY <2>1
  <2>3. \A k \in 0 .. N + 1 : h[k] = IF k = 0 THEN Cleared(2 * n)
                                    ELSE Reinserted(h[k - 1], m.elements[k - 1])
    BY <2>2
  <2>4. h = Body(h, N + 1)
    BY <2>3
  <2>5. \E f : f = Body(f, N + 1)
    <3> HIDE DEF Body
    <3> QED BY <2>4
  <2> HIDE DEF Body, h
  <2> QED BY <2>5
<1>3. n \in S
  <2> HIDE DEF S
  <2> QED BY <1>1, <1>2, UpTo
<1>4. r = Body(r, n)
  BY <1>3
<1>5. Rebuilt(m) = r[n]
  BY DEF Rebuilt
<1> HIDE DEF r
<1>6. r[0] = Cleared(2 * n)
  BY <1>4
<1>7. \A k \in 1 .. n : r[k] = Reinserted(r[k - 1], m.elements[k - 1])
  BY <1>4
<1> QED BY <1>5, <1>6, <1>7

\* The rebuilt table holds the same entries, in twice the room, and no tombstone.
LEMMA RebuiltRight ==
  ASSUME NEW n \in Nat \ {0}, NEW m, Right(m, n)
  PROVE  /\ Right(Rebuilt(m), 2 * n) /\ Contents(Rebuilt(m)) = Contents(m)
         /\ Rebuilt(m).allocated_count = m.allocated_count
         /\ Rebuilt(m).freed_count = 0
<1>1. m \in Table(n) /\ Size(m) = n /\ DOMAIN m.elements = 0 .. n - 1
  BY TableSize DEF Right
<1>2. PICK r : /\ Rebuilt(m) = r[n]
               /\ r[0] = Cleared(2 * n)
               /\ \A k \in 1 .. n : r[k] = Reinserted(r[k - 1], m.elements[k - 1])
  BY <1>1, RebuiltSteps
<1> DEFINE A(k) == Allocated(m) \cap 0 .. k - 1
           Part(k) == {<<m.elements[i].key, m.elements[i].value>> : i \in A(k)}
           Good(k) == /\ Right(r[k], 2 * n) /\ Contents(r[k]) = Part(k)
                      /\ r[k].allocated_count = Cardinality(A(k))
                      /\ r[k].freed_count = 0
           S == {k \in 0 .. n : Good(k)}
<1>3. 2 * n \in Nat \ {0}
  OBVIOUS
<1>4. 0 \in S
  <2>1. A(0) = {} /\ Part(0) = {} /\ Cardinality({}) = 0
    BY FS_EmptySet
  <2>2. Good(0)
    BY <1>2, <1>3, <2>1, ClearedRight
  <2> HIDE DEF Good
  <2> QED BY <2>2
<1>5. ASSUME NEW k \in 0 .. n - 1, k \in S PROVE k + 1 \in S
  <2> DEFINE slot == m.elements[k]
             t == r[k]
  <2>1. /\ Right(t, 2 * n) /\ Contents(t) = Part(k)
        /\ t.allocated_count = Cardinality(A(k)) /\ t.freed_count = 0
    BY <1>5
  <2>2. r[k + 1] = Reinserted(t, slot)
    <3>1. k + 1 \in 1 .. n /\ (k + 1) - 1 = k
      OBVIOUS
    <3> QED BY <1>2, <3>1
  <2>3. slot \in Entry
    BY <1>1, StateSets
  <2> HIDE DEF t, slot
  <2>4. Good(k + 1)
    <3>1. CASE slot.state = "NODE_ALLOCATED"
      <4>1. k \in Allocated(m)
        BY <1>1, <3>1 DEF slot, Allocated, InState
      <4>2. A(k + 1) = A(k) \cup {k} /\ k \notin A(k)
        BY <4>1
      <4>3. IsFiniteSet(A(k)) /\ Cardinality(A(k)) \in Nat /\ Cardinality(A(k)) <= k
        <5>0. k \in Nat /\ k - 1 \in Int
          OBVIOUS
        <5>1. IsFiniteSet(0 .. k - 1) /\ Cardinality(0 .. k - 1) = k
          <6>1. /\ IsFiniteSet(0 .. k - 1)
                /\ Cardinality(0 .. k - 1) = IF 0 > k - 1 THEN 0 ELSE k - 1 - 0 + 1
            BY <5>0, FS_Interval
          <6> QED BY <5>0, <6>1
        <5>2. A(k) \subseteq 0 .. k - 1
          OBVIOUS
        <5>3. IsFiniteSet(A(k)) /\ Cardinality(A(k)) <= Cardinality(0 .. k - 1)
          BY <5>1, <5>2, FS_Subset
        <5> QED BY <5>1, <5>3, FS_CardinalityType
      <4>4. t.allocated_count + t.freed_count < 2 * n
        BY <2>1, <4>3
      <4>5. slot.key \in Nat /\ slot.value \in Values \cup {0}
        BY <2>3 DEF Entry
      <4>6. ~Found(t, slot.key)
        <5> SUFFICES ASSUME Found(t, slot.key) PROVE FALSE
          OBVIOUS
        <5>1. PICK v : <<slot.key, v>> \in Part(k)
          BY <1>3, <2>1, <4>5, FoundContents
        <5>2. PICK i \in A(k) : <<slot.key, v>> = <<m.elements[i].key, m.elements[i].value>>
          BY <5>1
        <5>3. m.elements[i].key = slot.key
          BY <5>2
        <5>4. i = k
          BY <4>1, <4>5, <5>3, FoundIs DEF slot
        <5> QED BY <4>2, <5>4
      <4>7. r[k + 1] = _insert(t, slot.key, slot.value)
        BY <2>2, <3>1 DEF Reinserted
      <4>8. /\ Right(r[k + 1], 2 * n)
            /\ r[k + 1].allocated_count = t.allocated_count + 1
            /\ r[k + 1].freed_count <= t.freed_count
            /\ Contents(r[k + 1]) = Contents(t) \cup {<<slot.key, slot.value>>}
        BY <1>3, <2>1, <4>4, <4>5, <4>6, <4>7, InsertEffect
      <4>9. r[k + 1].freed_count = 0
        <5>1. r[k + 1].freed_count \in Nat
          BY <4>8 DEF Right, Table
        <5> QED BY <2>1, <4>8, <5>1
      <4>10. r[k + 1].allocated_count = Cardinality(A(k + 1))
        <5>1. Cardinality(A(k) \cup {k}) = Cardinality(A(k)) + 1
          BY <4>2, <4>3, FS_AddElement
        <5> QED BY <2>1, <4>2, <4>8, <5>1
      <4>11. Contents(r[k + 1]) = Part(k + 1)
        <5>1. Part(k + 1) = Part(k) \cup {<<slot.key, slot.value>>}
          BY <4>2 DEF slot
        <5> QED BY <2>1, <4>8, <5>1
      <4> QED BY <4>8, <4>9, <4>10, <4>11
    <3>2. CASE slot.state # "NODE_ALLOCATED"
      <4>1. A(k + 1) = A(k)
        BY <1>1, <3>2 DEF slot, Allocated, InState
      <4>2. r[k + 1] = t
        BY <2>2, <3>2 DEF Reinserted
      <4> QED BY <2>1, <4>1, <4>2
    <3> QED BY <3>1, <3>2
  <2> HIDE DEF Good
  <2> QED BY <2>4
<1>6. n \in S
  <2> HIDE DEF S
  <2>1. 0 .. n \subseteq S
    BY <1>4, <1>5, UpTo
  <2> QED BY <2>1
<1>7. A(n) = Allocated(m)
  BY <1>1, StateSets
<1>8. Part(n) = Contents(m)
  BY <1>7 DEF Contents
<1>9. m.allocated_count = Cardinality(A(n))
  BY <1>7 DEF Right
<1>10. Good(n)
  BY <1>6
<1> QED BY <1>2, <1>8, <1>9, <1>10

\* What resize_if_needed leaves has room for one more entry.
LEMMA ResizedRight ==
  ASSUME NEW n \in Nat \ {0}, NEW m, Right(m, n)
  PROVE  \E q \in Nat \ {0} :
           /\ n <= q /\ Right(resize_if_needed(m), q)
           /\ Contents(resize_if_needed(m)) = Contents(m)
           /\ resize_if_needed(m).allocated_count + resize_if_needed(m).freed_count < q
<1> DEFINE a == m.allocated_count
           f == m.freed_count
<1>1. m \in Table(n) /\ Size(m) = n /\ a \in Nat /\ f \in Nat
  BY TableSize DEF Right, Table
<1>2. Num \in Nat /\ Den \in Nat /\ Num <= Den
  BY HashMapAssumption
<1>3. CASE NeedsResize(m)
  <2>1. a <= n
    <3>1. Allocated(m) \subseteq 0 .. n - 1 /\ a = Cardinality(Allocated(m))
      BY <1>1, StateSets DEF Right
    <3>2. IsFiniteSet(0 .. n - 1) /\ Cardinality(0 .. n - 1) = n
      BY FS_Interval
    <3> QED BY <3>1, <3>2, FS_Subset
  <2>2. resize_if_needed(m) = Rebuilt(m) /\ 2 * n \in Nat \ {0} /\ n <= 2 * n
    BY <1>3 DEF resize_if_needed
  <2>3. Rebuilt(m).allocated_count + Rebuilt(m).freed_count < 2 * n
    BY <1>1, <2>1, RebuiltRight
  <2> QED BY <2>2, <2>3, RebuiltRight
<1>4. CASE ~NeedsResize(m)
  <2>1. resize_if_needed(m) = m
    BY <1>4 DEF resize_if_needed
  <2>2. ~((a + f) * Den >= n * Num)
    BY <1>1, <1>4 DEF NeedsResize
  <2> HIDE DEF a, f
  <2>3. a + f < n
    <3> SUFFICES ASSUME n <= a + f PROVE FALSE
      BY <1>1
    <3>1. n * Den <= (a + f) * Den
      BY <1>1, <1>2
    <3>2. n * Num <= n * Den
      BY <1>2
    <3> QED BY <1>1, <1>2, <2>2, <3>1, <3>2
  <2> QED BY <2>1, <2>3 DEF a, f
<1> QED BY <1>3, <1>4

\* LoadBound, of c used slots out of n.
LoadOk(c, n) == c = 0 \/ (c - 1) * Den < n * Num

LEMMA LoadIs ==
  ASSUME NEW n \in Nat, NEW m, Right(m, n)
  PROVE  LoadOk(m.allocated_count + m.freed_count, n) <=>
           \/ m.allocated_count + m.freed_count = 0
           \/ (m.allocated_count + m.freed_count - 1) * Den < Size(m) * Num
<1>1. Size(m) = n /\ m.allocated_count \in Nat /\ m.freed_count \in Nat
  BY TableSize DEF Right, Table
<1>2. PICK a \in Nat, f \in Nat : a = m.allocated_count /\ f = m.freed_count
  BY <1>1
<1>3. a + f - 1 = (a + f) - 1
  OBVIOUS
<1> QED BY <1>1, <1>2, <1>3, Zenon DEF LoadOk

\* If the load exceeded the threshold by less than a slot, it no longer reaches it
\* after resize_if_needed, provided that one entry does not fill the table.
LEMMA ResizedLoad ==
  ASSUME NEW n \in Nat \ {0}, NEW m, Right(m, n), Den <= n * Num,
         \/ m.allocated_count + m.freed_count = 0
         \/ (m.allocated_count + m.freed_count - 1) * Den < n * Num
  PROVE  LET t == resize_if_needed(m)
         IN  (t.allocated_count + t.freed_count) * Den < Size(t) * Num
<1> DEFINE a == m.allocated_count
           f == m.freed_count
           t == resize_if_needed(m)
<1>1. Size(m) = n /\ a \in Nat /\ f \in Nat
  BY TableSize DEF Right, Table
<1>2. Num \in Nat \ {0} /\ Den \in Nat
  BY HashMapAssumption
<1>3. CASE NeedsResize(m)
  <2>1. t.allocated_count = a /\ t.freed_count = 0 /\ Right(t, 2 * n)
    BY <1>3, RebuiltRight DEF resize_if_needed
  <2>2. Size(t) = 2 * n
    <3>1. 2 * n \in Nat
      OBVIOUS
    <3> QED BY <2>1, <3>1, TableSize DEF Right
  <2>3. a * Den < 2 * n * Num
    <3>1. a + f = 0 \/ (a + f - 1) * Den < n * Num
      OBVIOUS
    <3> DEFINE P == n * Num
    <3> HIDE DEF a, f, t
    <3>2. P \in Nat /\ P > 0 /\ 2 * n * Num = P + P
      BY <1>2
    <3>3. CASE a + f = 0
      <4>1. a = 0 /\ a * Den = 0
        BY <1>1, <1>2, <3>3
      <4> QED BY <3>2, <4>1
    <3>4. CASE (a + f - 1) * Den < P
      <4>1. (a + f) * Den = (a + f - 1) * Den + Den
        BY <1>1, <1>2
      <4>2. (a + f) * Den = a * Den + f * Den /\ f * Den \in Nat /\ a * Den \in Nat
        BY <1>1, <1>2
      <4>3. (a + f - 1) * Den \in Int
        BY <1>1, <1>2
      <4>4. Den <= P
        OBVIOUS
      <4> HIDE DEF P
      <4> QED BY <1>2, <3>2, <3>4, <4>1, <4>2, <4>3, <4>4
    <3> QED BY <3>1, <3>3, <3>4
  <2>4. (t.allocated_count + t.freed_count) * Den = a * Den
    BY <1>1, <2>1
  <2> QED BY <2>2, <2>3, <2>4
<1>4. CASE ~NeedsResize(m)
  <2>1. t = m
    BY <1>4 DEF resize_if_needed
  <2>2. ~((a + f) * Den >= n * Num)
    BY <1>1, <1>4 DEF NeedsResize
  <2>3. (a + f) * Den \in Int /\ n * Num \in Int
    BY <1>1, <1>2
  <2> QED BY <1>1, <2>1, <2>2, <2>3
<1> QED BY <1>3, <1>4

-----------------------------------------------------------------------------
(* The calls *)

\* What insert does to a right table.
LEMMA InsertCall ==
  ASSUME NEW n \in Nat \ {0}, Right(map, n), NEW key \in Keys, NEW value \in Values,
         insert(key, value)
  PROVE  \E q \in Nat \ {0} :
           /\ n <= q /\ Right(map', q)
           /\ Found(map, key) => Contents(map') = Contents(map) /\ ret' = {}
           /\ ~Found(map, key) => /\ Contents(map') = Contents(map) \cup {<<key, value>>}
                                  /\ ret' = {value}
           /\ Den <= n * Num /\ LoadBound =>
                LoadOk(map'.allocated_count + map'.freed_count, q)
<1> DEFINE m == resize_if_needed(map)
<1>1. PICK q \in Nat \ {0} : /\ n <= q /\ Right(m, q) /\ Contents(m) = Contents(map)
                             /\ m.allocated_count + m.freed_count < q
  BY ResizedRight
<1>2. map' = _insert(m, key, value) /\ ret' = IF Found(m, key) THEN {} ELSE {value}
  BY DEF insert
<1>3. key \in Nat /\ value \in Values \cup {0}
  BY HashMapAssumption
<1>4. Den <= n * Num /\ LoadBound => (m.allocated_count + m.freed_count) * Den < q * Num
  <2>1. Size(map) = n /\ Size(m) = q
    BY <1>1, TableSize DEF Right
  <2> QED BY <2>1, ResizedLoad DEF LoadBound
<1> HIDE DEF m
<1>5. Found(m, key) <=> Found(map, key)
  BY <1>1, <1>3, FoundContents
<1>6. /\ Right(map', q) /\ map'.allocated_count + map'.freed_count
                              <= m.allocated_count + m.freed_count + 1
      /\ Found(map, key) => Contents(map') = Contents(map)
      /\ ~Found(map, key) => Contents(map') = Contents(map) \cup {<<key, value>>}
  <2>0. m.allocated_count \in Nat /\ m.freed_count \in Nat
    BY <1>1 DEF Right, Table
  <2>1. CASE Found(m, key)
    <3>1. map' = m
      BY <1>2, <2>1 DEF _insert
    <3> QED BY <1>1, <1>5, <2>0, <2>1, <3>1
  <2>2. CASE ~Found(m, key)
    <3>1. /\ Right(map', q) /\ map'.allocated_count = m.allocated_count + 1
          /\ map'.freed_count <= m.freed_count
          /\ Contents(map') = Contents(m) \cup {<<key, value>>}
      BY <1>1, <1>2, <1>3, <2>2, InsertEffect
    <3>2. map'.freed_count \in Nat
      BY <3>1 DEF Right, Table
    <3> QED BY <1>1, <1>5, <2>0, <2>2, <3>1, <3>2
  <2> QED BY <2>1, <2>2
<1>7. ASSUME Den <= n * Num, LoadBound
      PROVE  LoadOk(map'.allocated_count + map'.freed_count, q)
  <2>0. PICK x \in Nat : x = map'.allocated_count + map'.freed_count
    BY <1>6 DEF Right, Table
  <2>0a. PICK y \in Nat : y = m.allocated_count + m.freed_count
    BY <1>1 DEF Right, Table
  <2>1. x - 1 <= y
    BY <1>6, <2>0, <2>0a DEF Right, Table
  <2>2. y * Den < q * Num
    BY <1>4, <1>7, <2>0a
  <2>3. Den \in Nat /\ Num \in Nat
    BY HashMapAssumption
  <2>4. (x - 1) * Den <= y * Den
    <3>1. y - (x - 1) \in Nat /\ (y - (x - 1)) * Den \in Nat
      BY <2>1, <2>3
    <3>2. y * Den = (x - 1) * Den + (y - (x - 1)) * Den
      BY <2>1, <2>3
    <3>3. (x - 1) * Den \in Int
      BY <2>1, <2>3
    <3> QED BY <3>1, <3>2, <3>3
  <2>5. (x - 1) * Den \in Int /\ y * Den \in Int /\ q * Num \in Int
    BY <2>1, <2>3
  <2>6. (x - 1) * Den < q * Num
    BY <2>2, <2>4, <2>5
  <2>7. LoadOk(x, q)
    BY <2>6 DEF LoadOk
  <2> QED BY <2>0, <2>7
<1> QED BY <1>1, <1>2, <1>5, <1>6, <1>7

\* What erase does to a right table.
LEMMA EraseCall ==
  ASSUME NEW n \in Nat \ {0}, Right(map, n), NEW key \in Keys, erase(key)
  PROVE  /\ Right(map', n)
         /\ Contents(map') = Dropped(Contents(map), key)
         /\ ret' = IF Found(map, key) THEN {Slot(map, key, Breaks(map, key)).value} ELSE {}
         /\ map'.allocated_count + map'.freed_count = map.allocated_count + map.freed_count
<1>1. key \in Nat
  BY HashMapAssumption
<1>2. CASE Found(map, key)
  <2>1. /\ map' = Without(map, Probe(map, key, Breaks(map, key)))
        /\ ret' = {Slot(map, key, Breaks(map, key)).value}
    BY <1>2 DEF erase, Without, Slot
  <2> QED BY <1>1, <1>2, <2>1, EraseEffect
<1>3. CASE ~Found(map, key)
  <2>1. map' = map /\ ret' = {}
    BY <1>3 DEF erase
  <2>2. ASSUME NEW c \in Contents(map) PROVE c[1] # key
    <3>1. PICK i \in Allocated(map) : c = <<map.elements[i].key, map.elements[i].value>>
      BY <2>2 DEF Contents
    <3>2. SUFFICES ASSUME c[1] = key PROVE FALSE
      OBVIOUS
    <3>3. map.elements[i].key = key
      BY <3>1, <3>2
    <3> QED BY <1>1, <1>3, <3>3, FoundIs
  <2>3. Dropped(Contents(map), key) = Contents(map)
    BY <2>2 DEF Dropped
  <2> QED BY <1>3, <2>1, <2>3
<1> QED BY <1>2, <1>3

-----------------------------------------------------------------------------
(* The invariants *)

\* The table is right and never smaller than init_map made it.
IInv == \E n \in Nat \ {0} : InitSize <= n /\ Right(map, n)

\* The table starts right, and every call leaves it right.
LEMMA InvariantSteps == (Init => IInv) /\ (IInv /\ [Next]_vars => IInv')
<1>0. InitSize \in Nat \ {0}
  BY HashMapAssumption
<1>1. Init => IInv
  <2>1. InitSize <= InitSize
    BY <1>0
  <2> QED BY <1>0, <2>1, ClearedRight DEF Init, IInv
<1>2. ASSUME IInv, [Next]_vars PROVE IInv'
  <2>1. PICK n \in Nat \ {0} : InitSize <= n /\ Right(map, n)
    BY <1>2 DEF IInv
  <2>2. ASSUME NEW key \in Keys, NEW value \in Values, insert(key, value) PROVE IInv'
    <3>1. PICK q \in Nat \ {0} : n <= q /\ Right(map', q)
      BY <2>1, <2>2, InsertCall
    <3>2. InitSize <= q
      BY <1>0, <2>1, <3>1
    <3> QED BY <3>1, <3>2 DEF IInv
  <2>3. ASSUME NEW key \in Keys, erase(key) PROVE IInv'
    BY <2>1, <2>3, EraseCall DEF IInv
  <2>4. CASE UNCHANGED map
    BY <2>1, <2>4 DEF IInv
  <2> QED BY <1>2, <2>2, <2>3, <2>4 DEF Next, find, vars
<1> QED BY <1>1, <1>2

\* After any sequence of calls of map.h the table is right: entries are counted,
\* no two hold the same key, and a search that starts at a key's hash ends
\* at its entry, past collisions and tombstones.
THEOREM Inductive == Spec => []IInv
<1>1. Init => IInv
  BY InvariantSteps
<1>2. IInv /\ [Next]_vars => IInv'
  BY InvariantSteps
<1> QED BY <1>1, <1>2, PTL DEF Spec

\* The two counters always count the live slots and the tombstones.
THEOREM CountsRight == Spec => []CountsAgree
<1>1. IInv => CountsAgree
  BY DEF IInv, Right, CountsAgree, Allocated, Tombs
<1> QED BY <1>1, Inductive, PTL

\* A key is in at most one slot, and the search for it ends there.
THEOREM KeysFindable == Spec => []Findable
<1>1. IInv => Findable
  BY DEF IInv, Right, Findable, Allocated, Reached
<1> QED BY <1>1, Inductive, PTL

\* With an initial table that one entry does not fill, the load exceeds the
\* threshold by less than one slot.
THEOREM LoadBounded == ASSUME Den <= InitSize * Num PROVE Spec => []LoadBound
<1>1. Init => LoadBound
  BY ClearedRight, HashMapAssumption DEF Init, LoadBound
<1>2. ASSUME IInv, LoadBound, [Next]_vars PROVE LoadBound'
  <2>1. PICK n \in Nat \ {0} : InitSize <= n /\ Right(map, n)
    BY <1>2 DEF IInv
  <2>2. Den <= n * Num
    <3>1. InitSize \in Nat /\ Num \in Nat /\ Den \in Nat
      BY HashMapAssumption
    <3>2. InitSize * Num <= n * Num
      <4>1. n - InitSize \in Nat /\ (n - InitSize) * Num \in Nat
        BY <2>1, <3>1
      <4>2. n * Num = InitSize * Num + (n - InitSize) * Num /\ InitSize * Num \in Nat
        BY <3>1
      <4> QED BY <4>1, <4>2
    <3>3. InitSize * Num \in Nat /\ n * Num \in Nat
      BY <3>1
    <3> QED BY <3>1, <3>2, <3>3
  <2>3. ASSUME NEW key \in Keys, NEW value \in Values, insert(key, value) PROVE LoadBound'
    <3>1. PICK q \in Nat \ {0} :
            /\ Right(map', q)
            /\ LoadOk(map'.allocated_count + map'.freed_count, q)
      BY <1>2, <2>1, <2>2, <2>3, InsertCall
    <3> QED BY <3>1, LoadIs DEF LoadBound
  <2>4. ASSUME NEW key \in Keys, erase(key) PROVE LoadBound'
    <3>1. /\ Right(map', n)
          /\ map'.allocated_count + map'.freed_count = map.allocated_count + map.freed_count
      BY <2>1, <2>4, EraseCall
    <3>2. LoadOk(map.allocated_count + map.freed_count, n)
      BY <1>2, <2>1, LoadIs DEF LoadBound
    <3> QED BY <3>1, <3>2, LoadIs DEF LoadBound
  <2>5. CASE UNCHANGED map
    BY <1>2, <2>5 DEF LoadBound
  <2> QED BY <1>2, <2>3, <2>4, <2>5 DEF Next, find, vars
<1>3. LoadBound /\ IInv /\ [Next]_vars => LoadBound'
  BY <1>2
<1> QED BY <1>1, <1>3, Inductive, PTL DEF Spec

-----------------------------------------------------------------------------
(* The abstract map *)

\* The function of MapSpec that table m stands for.
Abstract(m) ==
  [key \in {m.elements[i].key : i \in Allocated(m)} |->
     (CHOOSE e \in {m.elements[i] : i \in Allocated(m)} : e.key = key).value]

\* The contents of a right table are the graph of its function.
LEMMA AbstractIs ==
  ASSUME NEW n \in Nat \ {0}, NEW m, Right(m, n)
  PROVE  /\ DOMAIN Abstract(m) = {c[1] : c \in Contents(m)}
         /\ \A c \in Contents(m) : Abstract(m)[c[1]] = c[2]
         /\ \A key \in DOMAIN Abstract(m) : <<key, Abstract(m)[key]>> \in Contents(m)
<1> DEFINE f == Abstract(m)
<1>1. m \in Table(n) /\ \A i \in Allocated(m) : m.elements[i].key \in Nat
  BY StateSets DEF Right, Entry
<1>2. DOMAIN f = {m.elements[i].key : i \in Allocated(m)}
  BY DEF Abstract
<1>3. ASSUME NEW i \in Allocated(m) PROVE f[m.elements[i].key] = m.elements[i].value
  <2> DEFINE E == {m.elements[j] : j \in Allocated(m)}
             key == m.elements[i].key
             e == CHOOSE x \in E : x.key = key
  <2>1. e \in E /\ e.key = key
    <3>1. m.elements[i] \in E
      OBVIOUS
    <3> HIDE DEF E
    <3> QED BY <3>1
  <2>2. f[key] = e.value
    BY DEF Abstract
  <2> HIDE DEF e
  <2>3. PICK j \in Allocated(m) : e = m.elements[j]
    BY <2>1
  <2>4. j = i
    BY <1>1, <2>1, <2>3, FoundIs
  <2> QED BY <2>2, <2>3, <2>4
<1> HIDE DEF f
<1>4. \A i \in Allocated(m) : /\ <<m.elements[i].key, m.elements[i].value>>[1] = m.elements[i].key
                              /\ <<m.elements[i].key, m.elements[i].value>>[2] = m.elements[i].value
  OBVIOUS
<1>5. DOMAIN f = {c[1] : c \in Contents(m)}
  <2>1. ASSUME NEW k \in DOMAIN f PROVE k \in {c[1] : c \in Contents(m)}
    <3>1. PICK i \in Allocated(m) : k = m.elements[i].key
      BY <1>2
    <3>2. <<m.elements[i].key, m.elements[i].value>> \in Contents(m)
      BY DEF Contents
    <3> QED BY <1>4, <3>1, <3>2
  <2>2. ASSUME NEW c \in Contents(m) PROVE c[1] \in DOMAIN f
    <3>1. PICK i \in Allocated(m) : c = <<m.elements[i].key, m.elements[i].value>>
      BY DEF Contents
    <3> QED BY <1>2, <1>4, <3>1
  <2> QED BY <2>1, <2>2
<1>6. \A c \in Contents(m) : f[c[1]] = c[2]
  BY <1>3, <1>4 DEF Contents
<1>7. \A key \in DOMAIN f : <<key, f[key]>> \in Contents(m)
  BY <1>2, <1>3 DEF Contents
<1> QED BY <1>5, <1>6, <1>7 DEF f

\* The function answers as the search does.
LEMMA AbstractFound ==
  ASSUME NEW n \in Nat \ {0}, NEW m, Right(m, n), NEW key \in Nat
  PROVE  /\ key \in DOMAIN Abstract(m) <=> Found(m, key)
         /\ Found(m, key) => Abstract(m)[key] = Slot(m, key, Breaks(m, key)).value
<1>1. /\ DOMAIN Abstract(m) = {c[1] : c \in Contents(m)}
      /\ \A c \in Contents(m) : Abstract(m)[c[1]] = c[2]
      /\ \A k \in DOMAIN Abstract(m) : <<k, Abstract(m)[k]>> \in Contents(m)
  BY AbstractIs
<1>2. key \in DOMAIN Abstract(m) => Found(m, key)
  BY <1>1, FoundContents
<1>3. ASSUME Found(m, key)
      PROVE  /\ key \in DOMAIN Abstract(m)
             /\ Abstract(m)[key] = Slot(m, key, Breaks(m, key)).value
  <2> DEFINE v == Slot(m, key, Breaks(m, key)).value
  <2>1. <<key, v>> \in Contents(m)
    BY <1>3, FoundContents
  <2> HIDE DEF v
  <2>2. <<key, v>>[1] = key /\ <<key, v>>[2] = v
    OBVIOUS
  <2> QED BY <1>1, <2>1, <2>2 DEF v
<1> QED BY <1>2, <1>3

\* What Insert and Erase of MapSpec make of the function.
Extended(f, key, value) ==
  [x \in DOMAIN f \cup {key} |-> IF x \in DOMAIN f THEN f[x] ELSE value]
Narrowed(f, key) == [x \in DOMAIN f \ {key} |-> f[x]]

\* A table with the same entries, one more, or those of one key less, stands for
\* the function that MapSpec asks for.
LEMMA AbstractSame ==
  ASSUME NEW n \in Nat \ {0}, NEW m, Right(m, n), NEW q \in Nat \ {0}, NEW t, Right(t, q),
         Contents(t) = Contents(m)
  PROVE  Abstract(t) = Abstract(m)
<1> DEFINE f == Abstract(m)
           g == Abstract(t)
<1>1. /\ f = [k \in DOMAIN f |-> f[k]] /\ g = [k \in DOMAIN g |-> g[k]]
  BY DEF Abstract
<1>2. /\ DOMAIN f = {c[1] : c \in Contents(m)}
      /\ \A c \in Contents(m) : f[c[1]] = c[2]
  BY AbstractIs
<1>3. /\ DOMAIN g = {c[1] : c \in Contents(m)}
      /\ \A c \in Contents(m) : g[c[1]] = c[2]
  BY AbstractIs
<1> HIDE DEF f, g
<1>4. DOMAIN f = DOMAIN g /\ \A k \in DOMAIN f : f[k] = g[k]
  BY <1>2, <1>3
<1>5. f = g
  BY <1>1, <1>4
<1> QED BY <1>5 DEF f, g

LEMMA AbstractMore ==
  ASSUME NEW n \in Nat \ {0}, NEW m, Right(m, n), NEW q \in Nat \ {0}, NEW t, Right(t, q),
         NEW key \in Nat, ~Found(m, key), NEW value,
         Contents(t) = Contents(m) \cup {<<key, value>>}
  PROVE  Abstract(t) = Extended(Abstract(m), key, value)
<1> DEFINE f == Abstract(m)
           g == Abstract(t)
<1>1. g = [k \in DOMAIN g |-> g[k]]
  BY DEF Abstract
<1>2. /\ DOMAIN f = {c[1] : c \in Contents(m)}
      /\ \A c \in Contents(m) : f[c[1]] = c[2]
  BY AbstractIs
<1>3. /\ DOMAIN g = {c[1] : c \in Contents(t)}
      /\ \A c \in Contents(t) : g[c[1]] = c[2]
  BY AbstractIs
<1>4. key \notin DOMAIN f
  BY AbstractFound
<1> HIDE DEF f, g
<1>5. <<key, value>>[1] = key /\ <<key, value>>[2] = value
  OBVIOUS
<1>6. DOMAIN g = DOMAIN f \cup {key}
  BY <1>2, <1>3, <1>5
<1>7. \A k \in DOMAIN f : f[k] = g[k]
  BY <1>2, <1>3
<1>8. g[key] = value
  BY <1>3, <1>5
<1>9. g = Extended(f, key, value)
  BY <1>1, <1>4, <1>6, <1>7, <1>8 DEF Extended
<1> QED BY <1>9 DEF f, g

LEMMA AbstractLess ==
  ASSUME NEW n \in Nat \ {0}, NEW m, Right(m, n), NEW q \in Nat \ {0}, NEW t, Right(t, q),
         NEW key, Contents(t) = Dropped(Contents(m), key)
  PROVE  Abstract(t) = Narrowed(Abstract(m), key)
<1> DEFINE f == Abstract(m)
           g == Abstract(t)
<1>1. g = [k \in DOMAIN g |-> g[k]]
  BY DEF Abstract
<1>2. /\ DOMAIN f = {c[1] : c \in Contents(m)}
      /\ \A c \in Contents(m) : f[c[1]] = c[2]
  BY AbstractIs
<1>3. /\ DOMAIN g = {c[1] : c \in Contents(t)}
      /\ \A c \in Contents(t) : g[c[1]] = c[2]
  BY AbstractIs
<1> HIDE DEF f, g
<1>4. DOMAIN g = DOMAIN f \ {key}
  BY <1>2, <1>3 DEF Dropped
<1>5. \A k \in DOMAIN g : f[k] = g[k]
  BY <1>2, <1>3 DEF Dropped
<1>6. g = Narrowed(f, key)
  BY <1>1, <1>4, <1>5 DEF Narrowed
<1> QED BY <1>6 DEF f, g

\* Every call of the hash table is the call of MapSpec with the same name.
THEOREM Refinement == Spec => ImplementsMap
<1> DEFINE F == [key \in {map.elements[i].key : i \in Live} |->
                   (CHOOSE e \in {map.elements[i] : i \in Live} : e.key = key).value]
<1>1. F = Abstract(map) /\ F' = Abstract(map')
  BY DEF Live, Abstract, Allocated
<1>2. Init => Map!Init
  <2> SUFFICES ASSUME Init PROVE Map!Init
    OBVIOUS
  <2>1. Allocated(map) = {} /\ ret = {}
    <3>1. InitSize \in Nat
      BY HashMapAssumption
    <3> QED BY <3>1, FS_EmptySet DEF Init, Cleared, Allocated, InState, Unused
  <2>2. F = [k \in {} |-> k]
    BY <2>1 DEF Live, Allocated
  <2> QED BY <2>1, <2>2 DEF Map!Init
<1>3. ASSUME IInv, [Next]_vars PROVE [Map!Next]_(Map!vars)
  <2>1. PICK n \in Nat \ {0} : Right(map, n)
    BY <1>3 DEF IInv
  <2>2. Keys \subseteq Nat
    BY HashMapAssumption
  <2>3. \A key \in Keys :
          Map!Value(key) = IF Found(map, key) THEN {Slot(map, key, Breaks(map, key)).value}
                                              ELSE {}
    <3> SUFFICES ASSUME NEW key \in Keys
                 PROVE  Map!Value(key) = IF Found(map, key)
                                         THEN {Slot(map, key, Breaks(map, key)).value} ELSE {}
      OBVIOUS
    <3>1. Map!Value(key) = {F[x] : x \in DOMAIN F \cap {key}}
      BY DEF Map!Value
    <3> HIDE DEF F
    <3>2. /\ key \in DOMAIN F <=> Found(map, key)
          /\ Found(map, key) => F[key] = Slot(map, key, Breaks(map, key)).value
      BY <1>1, <2>1, <2>2, AbstractFound
    <3> QED BY <3>1, <3>2
  <2>4. ASSUME NEW key \in Keys, NEW value \in Values, insert(key, value)
        PROVE  Map!Insert(key, value)
    <3>1. PICK q \in Nat \ {0} :
            /\ Right(map', q)
            /\ Found(map, key) => Contents(map') = Contents(map) /\ ret' = {}
            /\ ~Found(map, key) => /\ Contents(map') = Contents(map) \cup {<<key, value>>}
                                   /\ ret' = {value}
      BY <2>1, <2>4, InsertCall
    <3>2. key \in DOMAIN F <=> Found(map, key)
      BY <1>1, <2>1, <2>2, AbstractFound
    <3>3. F' = Extended(F, key, value)
      <4>1. CASE Found(map, key)
        <5>1. F' = F /\ DOMAIN F \cup {key} = DOMAIN F
          BY <1>1, <2>1, <3>1, <3>2, <4>1, AbstractSame
        <5>2. F = [x \in DOMAIN F |-> F[x]]
          OBVIOUS
        <5> HIDE DEF F
        <5> QED BY <5>1, <5>2 DEF Extended
      <4>2. CASE ~Found(map, key)
        <5> HIDE DEF F
        <5>1. Abstract(map') = Extended(Abstract(map), key, value)
          BY <2>1, <2>2, <3>1, <4>2, AbstractMore
        <5> QED BY <1>1, <5>1
      <4> QED BY <4>1, <4>2
    <3> QED BY <3>1, <3>2, <3>3 DEF Map!Insert, Extended
  <2>5. ASSUME NEW key \in Keys, erase(key) PROVE Map!Erase(key)
    <3>1. /\ Right(map', n) /\ Contents(map') = Dropped(Contents(map), key)
          /\ ret' = Map!Value(key)
      BY <2>1, <2>3, <2>5, EraseCall
    <3>2. F' = Narrowed(F, key)
      <4> HIDE DEF F
      <4>1. Abstract(map') = Narrowed(Abstract(map), key)
        BY <2>1, <3>1, AbstractLess
      <4> QED BY <1>1, <4>1
    <3> QED BY <3>1, <3>2 DEF Map!Erase, Narrowed
  <2>6. ASSUME NEW key \in Keys, find(key) PROVE Map!Find(key)
    <3>1. ret' = Map!Value(key) /\ map' = map
      BY <2>3, <2>6 DEF find
    <3>2. F' = F
      BY <1>1, <3>1
    <3> QED BY <3>1, <3>2 DEF Map!Find
  <2>7. CASE UNCHANGED vars
    <3>1. F' = F /\ ret' = ret
      BY <1>1, <2>7 DEF vars
    <3> QED BY <3>1 DEF Map!vars
  <2> QED BY <1>3, <2>4, <2>5, <2>6, <2>7 DEF Next, Map!Next
<1> QED BY <1>2, <1>3, Inductive, PTL DEF Spec, ImplementsMap, Map!Spec
====
