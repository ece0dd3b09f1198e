---- MODULE HashMap ----
(***************************************************************************)
(* utils/map.c: a hash table with open addressing and linear probing.  An  *)
(* erased slot stays in the probe sequences as a tombstone (NODE_FREED)    *)
(* until an insertion reuses it or the table is rebuilt at twice its size. *)
(***************************************************************************)
EXTENDS Integers, FiniteSets

CONSTANTS
  Keys,      \* pointers
  Values,    \* pointers
  InitSize,  \* _size of init_map (DEF_MAP_SIZE: 5)
  Num, Den,  \* _load_threshold is Num / Den (DEF_RESIZE_THRESHOLD: 0.85)
  MaxSize    \* bound: the largest table

ASSUME HashMapAssumption ==
  /\ Keys \subseteq Nat
  /\ InitSize \in Nat \ {0} /\ MaxSize \in Nat
  /\ Num \in Nat \ {0} /\ Den \in Nat /\ Num <= Den

VARIABLES
  map,    \* map_t: elements, allocated_count, freed_count
  ret     \* what the last call returned: {v} for a value or true, {} otherwise

vars == <<map, ret>>

HASH_SEED == 53

NoKey == 0

Unused == [state |-> "NODE_UNUSED", key |-> NoKey, value |-> 0]

\* calloc of the table: no slot is used.
Cleared(n) ==
  [elements |-> [i \in 0 .. n - 1 |-> Unused], allocated_count |-> 0, freed_count |-> 0]

\* The field size of map_t.
Size(m) == Cardinality(DOMAIN m.elements)

\* init_map
Init == map = Cleared(InitSize) /\ ret = {}

\* The k-th slot that the loops look at for a key.
Probe(m, key, k) == (HASH_SEED * key + k) % Size(m)

Slot(m, key, k) == m.elements[Probe(m, key, k)]

Holds(slot, key) == slot.state = "NODE_ALLOCATED" /\ slot.key = key

\* The numbers of the slots that the loop looks at before it breaks: all those
\* before the first that is unused or holds the key.  The mutant takes a
\* tombstone for an unused slot.
SkippedToFreed(m, key) ==
  {k \in 0 .. Size(m) - 1 :
     \A j \in 0 .. k : Slot(m, key, j).state = "NODE_ALLOCATED" /\ ~Holds(Slot(m, key, j), key)}
Skipped(m, key) ==
  {k \in 0 .. Size(m) - 1 :
     \A j \in 0 .. k : Slot(m, key, j).state # "NODE_UNUSED" /\ ~Holds(Slot(m, key, j), key)}

\* Where the loop breaks; Size(m) if it looked at every slot.
Breaks(m, key) == Cardinality(Skipped(m, key))

Found(m, key) == Breaks(m, key) < Size(m) /\ Holds(Slot(m, key, Breaks(m, key)), key)

\* The tombstones that _insert passes.
Freed(m, key) == {k \in Skipped(m, key) : Slot(m, key, k).state = "NODE_FREED"}

\* The slot that _insert takes: the first tombstone it passed, or the slot
\* where it broke, which is the first again if it looked at every slot.
InsertAt(m, key) ==
  IF Freed(m, key) # {}
  THEN Probe(m, key, CHOOSE k \in Freed(m, key) : \A j \in Freed(m, key) : k <= j)
  ELSE Probe(m, key, Breaks(m, key))

\* _insert of a key that is not in the map; the mutant still counts the
\* tombstone it reuses.
FreedAfterNot(m, key) == m.freed_count
FreedAfter(m, key) ==
  IF Freed(m, key) # {} THEN m.freed_count - 1 ELSE m.freed_count

_insert(m, key, value) ==
  IF Found(m, key)
  THEN m
  ELSE [elements |-> [m.elements EXCEPT ![InsertAt(m, key)] =
                        [state |-> "NODE_ALLOCATED", key |-> key, value |-> value]],
        allocated_count |-> m.allocated_count + 1,
        freed_count |-> FreedAfter(m, key)]

\* The test of resize_if_needed; the mutant lets a full table be.
NeedsResizeLate(m) == m.allocated_count + m.freed_count > Size(m)
NeedsResize(m) == (m.allocated_count + m.freed_count) * Den >= Size(m) * Num

\* The rebuild's loop over the old slots inserts the live ones in the new table t.
Reinserted(t, slot) ==
  IF slot.state = "NODE_ALLOCATED" THEN _insert(t, slot.key, slot.value) ELSE t

\* The rebuilt table: r[n] holds the live entries of the first n slots.
Rebuilt(m) ==
  LET r[n \in 0 .. Size(m)] ==
        IF n = 0 THEN Cleared(2 * Size(m)) ELSE Reinserted(r[n - 1], m.elements[n - 1])
  IN  r[Size(m)]

resize_if_needed(m) == IF NeedsResize(m) THEN Rebuilt(m) ELSE m

\* insert, which resizes even if it then refuses the key.
insert(key, value) ==
  LET m == resize_if_needed(map)
  IN  /\ Size(m) <= MaxSize
      /\ map' = _insert(m, key, value)
      /\ ret' = IF Found(m, key) THEN {} ELSE {value}

\* The slot that erase leaves; the mutant forgets the tombstone.
ErasedUnused(slot) == Unused
Erased(slot) == [slot EXCEPT !.state = "NODE_FREED", !.key = NoKey]

erase(key) ==
  IF Found(map, key)
  THEN LET i == Probe(map, key, Breaks(map, key))
       IN  /\ map' = [elements |-> [map.elements EXCEPT ![i] = Erased(@)],
                      allocated_count |-> map.allocated_count - 1,
                      freed_count |-> map.freed_count + 1]
           /\ ret' = {map.elements[i].value}
  ELSE ret' = {} /\ UNCHANGED map

find(key) ==
  /\ ret' = IF Found(map, key) THEN {Slot(map, key, Breaks(map, key)).value} ELSE {}
  /\ UNCHANGED map

Next ==
  \E key \in Keys : (\E value \in Values : insert(key, value)) \/ erase(key) \/ find(key)

Spec == Init /\ [][Next]_vars

-----------------------------------------------------------------------------
(* Properties *)

\* The slots of m that are in state s.
InState(m, s) == {i \in DOMAIN m.elements : m.elements[i].state = s}

\* The two counters, from which the map decides to resize and is_map_empty
\* answers, count the live slots and the tombstones, through reuse, erasure
\* and rebuilding.
CountsAgree ==
  /\ map.allocated_count = Cardinality(InState(map, "NODE_ALLOCATED"))
  /\ map.freed_count = Cardinality(InState(map, "NODE_FREED"))

\* Live entries and tombstones together exceed the load threshold by less than
\* one slot, so with a threshold up to 1 an insertion always ends at a slot
\* that holds no live entry.
LoadBound ==
  \/ map.allocated_count + map.freed_count = 0
  \/ (map.allocated_count + map.freed_count - 1) * Den < Size(map) * Num

\* A key is in at most one slot, and every live slot is on the probe path of
\* its key with no unused slot before it: neither a tombstone, nor its reuse
\* ahead of the key, nor a rebuild hides an entry or doubles it.
Findable ==
  \A i \in InState(map, "NODE_ALLOCATED") :
    LET key == map.elements[i].key
    IN  Found(map, key) /\ Probe(map, key, Breaks(map, key)) = i

Live == InState(map, "NODE_ALLOCATED")

\* The table is the map of MapSpec, call by call and result by result.
Map ==
  INSTANCE MapSpec WITH
    f <- [key \in {map.elements[i].key : i \in Live} |->
            (CHOOSE e \in {map.elements[i] : i \in Live} : e.key = key).value],
    ret <- ret

ImplementsMap == Map!Spec
====
