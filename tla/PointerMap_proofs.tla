---- MODULE PointerMap_proofs ----
(***************************************************************************)
(* Proofs that the hash map of hashmap.h finds every key that was put, and *)
(* implements the table of TableSpec, for all keys, values and capacities. *)
(***************************************************************************)
EXTENDS PointerMap, FiniteSetTheorems, TLAPS

-----------------------------------------------------------------------------
(* Numbers *)

\* Every nonempty set of naturals has a least element.
LEMMA LeastNatural ==
  ASSUME NEW S \in SUBSET Nat, S # {}
  PROVE  \E m \in S : \A j \in S : m <= j
<1>1. PICK m \in S : \A j \in S : ~ (<<j, m>> \in OpToRel(<, Nat))
  BY NatLessThanWellFounded, WFMin, Zenon
<1>2. \A j \in S : ~ (j < m)
  BY <1>1 DEF OpToRel
<1> QED BY <1>2

-----------------------------------------------------------------------------
(* The search in a table of keys f *)

\* The loop that begins at entry i stops at entry j.
Stops(f, i, k, j) ==
  /\ j \in i .. Capacity
  /\ f[j] \in {Nothing, k}
  /\ \A h \in i .. j - 1 : f[h] \notin {Nothing, k}

\* Walk, for any table of keys.
WalkIn(f, i, k) ==
  CHOOSE j \in i .. Capacity :
    /\ f[j] \in {Nothing, k}
    /\ \A h \in i .. j - 1 : f[h] \notin {Nothing, k}

AddressIn(f, k) ==
  LET a == WalkIn(f, get_ideal_address(k), k)
  IN  IF a = Capacity THEN WalkIn(f, 0, k) ELSE a

\* The boundary ends every loop, at one place.
LEMMA WalkStops ==
  ASSUME NEW f, f[Capacity] = Nothing, NEW i \in Entries, NEW k
  PROVE  /\ Stops(f, i, k, WalkIn(f, i, k))
         /\ \A j : Stops(f, i, k, j) => j = WalkIn(f, i, k)
<1> DEFINE S == {j \in i .. Capacity : f[j] \in {Nothing, k}}
<1>1. Capacity \in S /\ S \subseteq Nat
  BY PointerMapAssumption DEF Entries
<1>2. PICK j \in S : \A h \in S : j <= h
  BY <1>1, LeastNatural
<1>3. Stops(f, i, k, j)
  <2>1. ASSUME NEW h \in i .. j - 1, f[h] \in {Nothing, k} PROVE FALSE
    <3>1. h \in S
      BY <2>1, PointerMapAssumption DEF Entries
    <3> QED BY <1>2, <3>1, <2>1, PointerMapAssumption DEF Entries
  <2> QED BY <2>1 DEF Stops
<1>4. Stops(f, i, k, WalkIn(f, i, k))
  BY <1>3 DEF Stops, WalkIn
<1>5. ASSUME NEW a, NEW b, Stops(f, i, k, a), Stops(f, i, k, b), a # b PROVE FALSE
  <2>1. a \in i .. Capacity /\ b \in i .. Capacity
    BY <1>5 DEF Stops
  <2>2. a \in i .. b - 1 \/ b \in i .. a - 1
    BY <1>5, <2>1, PointerMapAssumption DEF Entries
  <2> QED BY <1>5, <2>2 DEF Stops
<1> QED BY <1>4, <1>5

\* Every pointer has an ideal entry before the boundary.
LEMMA IdealInTable ==
  ASSUME NEW k \in Keys
  PROVE  get_ideal_address(k) \in 0 .. Capacity - 1
<1>1. k \in Nat
  BY PointerMapAssumption
<1> QED BY <1>1, PointerMapAssumption DEF get_ideal_address

\* Where a search ends: at the key, or at an empty entry, or, in a full table
\* without the key, nowhere.
LEMMA AddressEnds ==
  ASSUME NEW f, f[Capacity] = Nothing, NEW k \in Keys
  PROVE  LET a == AddressIn(f, k)
         IN  /\ a \in Entries /\ f[a] \in {Nothing, k}
             /\ a = Capacity => \A i \in 0 .. Capacity - 1 : f[i] \notin {Nothing, k}
<1> DEFINE h == get_ideal_address(k)
           w == WalkIn(f, h, k)
<1>1. h \in 0 .. Capacity - 1
  BY IdealInTable
<1>2. h \in Entries /\ 0 \in Entries
  BY <1>1, PointerMapAssumption DEF Entries
<1> HIDE DEF h
<1>3. Stops(f, h, k, w) /\ Stops(f, 0, k, WalkIn(f, 0, k))
  BY <1>2, WalkStops
<1>4. AddressIn(f, k) = IF w = Capacity THEN WalkIn(f, 0, k) ELSE w
  BY DEF AddressIn, h
<1> HIDE DEF w
<1> QED BY <1>1, <1>3, <1>4, PointerMapAssumption DEF Stops, Entries

\* A loop does not notice that an empty entry that it does not meet is written.
LEMMA WalkUnchanged ==
  ASSUME NEW f, NEW g, NEW i \in Entries, NEW k, NEW a \in Entries,
         f[Capacity] = Nothing, g[Capacity] = Nothing,
         \A j \in Entries \ {a} : g[j] = f[j],
         f[a] = Nothing, WalkIn(f, i, k) # a
  PROVE  WalkIn(g, i, k) = WalkIn(f, i, k)
<1> DEFINE w == WalkIn(f, i, k)
<1>1. Stops(f, i, k, w)
  BY WalkStops
<1> HIDE DEF w
<1>2. a \notin i .. w - 1
  BY <1>1 DEF Stops
<1>3. \A j \in i .. w : j \in Entries \ {a}
  BY <1>1, <1>2, PointerMapAssumption DEF Stops, Entries, w
<1>4. Stops(g, i, k, w)
  BY <1>1, <1>3, PointerMapAssumption DEF Stops, Entries
<1> QED BY <1>4, WalkStops DEF w

\* A loop that ends at an empty entry ends there too when the key is put in it.
LEMMA WalkWritten ==
  ASSUME NEW f, NEW g, NEW i \in Entries, NEW k, NEW a \in Entries,
         f[Capacity] = Nothing, g[Capacity] = Nothing,
         \A j \in Entries \ {a} : g[j] = f[j],
         g[a] = k, WalkIn(f, i, k) = a
  PROVE  WalkIn(g, i, k) = a
<1>1. Stops(f, i, k, a)
  BY WalkStops
<1>2. \A j \in i .. a - 1 : j \in Entries \ {a}
  BY <1>1, PointerMapAssumption DEF Stops, Entries
<1>3. Stops(g, i, k, a)
  BY <1>1, <1>2 DEF Stops
<1> QED BY <1>3, WalkStops

ReachableIn(f) ==
  /\ f[Capacity] = Nothing
  /\ \A i \in Entries : f[i] # Nothing => AddressIn(f, f[i]) = i

\* A key that is put where its search ends is found there, and so are the
\* others where they were.
LEMMA PutKeepsReachable ==
  ASSUME NEW f \in [Entries -> Keys \cup {Nothing}], ReachableIn(f),
         NEW k \in Keys, AddressIn(f, k) # Capacity
  PROVE  ReachableIn([f EXCEPT ![AddressIn(f, k)] = k])
<1> DEFINE a == AddressIn(f, k)
           g == [f EXCEPT ![a] = k]
<1>1. f[Capacity] = Nothing /\ Capacity \in Entries
  BY PointerMapAssumption DEF ReachableIn, Entries
<1>2. a \in Entries /\ f[a] \in {Nothing, k}
  BY <1>1, AddressEnds
<1>3. CASE f[a] = k
  <2>1. g = f
    BY <1>2, <1>3
  <2> QED BY <2>1
<1>4. CASE f[a] = Nothing
  <2>1. /\ g[a] = k /\ g[Capacity] = Nothing
        /\ \A j \in Entries \ {a} : g[j] = f[j]
    BY <1>1, <1>2
  <2> HIDE DEF g
  <2>2. \A c \in Keys : get_ideal_address(c) \in Entries
    BY IdealInTable, PointerMapAssumption DEF Entries
  <2>3. 0 \in Entries
    BY PointerMapAssumption DEF Entries
  <2>4. ASSUME NEW i \in Entries \ {a}, f[i] # Nothing PROVE AddressIn(g, f[i]) = i
    <3>1. f[i] \in Keys /\ AddressIn(f, f[i]) = i
      BY <2>4 DEF ReachableIn
    <3>2. WalkIn(f, get_ideal_address(f[i]), f[i]) # a
      BY <1>1, <2>4, <3>1 DEF AddressIn
    <3>3. WalkIn(g, get_ideal_address(f[i]), f[i]) = WalkIn(f, get_ideal_address(f[i]), f[i])
      BY <1>1, <1>2, <1>4, <2>1, <2>2, <3>1, <3>2, WalkUnchanged
    <3>4. CASE WalkIn(f, get_ideal_address(f[i]), f[i]) = Capacity
      <4>1. WalkIn(f, 0, f[i]) = i
        BY <3>1, <3>4 DEF AddressIn
      <4>2. WalkIn(g, 0, f[i]) = i
        BY <1>1, <1>2, <1>4, <2>1, <2>3, <2>4, <4>1, WalkUnchanged
      <4> QED BY <3>3, <3>4, <4>2 DEF AddressIn
    <3>5. CASE WalkIn(f, get_ideal_address(f[i]), f[i]) # Capacity
      BY <3>1, <3>3, <3>5 DEF AddressIn
    <3> QED BY <3>4, <3>5
  <2>5. AddressIn(g, k) = a
    <3>1. CASE WalkIn(f, get_ideal_address(k), k) = Capacity
      <4>1. WalkIn(g, get_ideal_address(k), k) = Capacity
        BY <1>1, <1>2, <1>4, <2>1, <2>2, <3>1, WalkUnchanged
      <4>2. WalkIn(f, 0, k) = a
        BY <3>1 DEF AddressIn
      <4>3. WalkIn(g, 0, k) = a
        BY <1>1, <1>2, <2>1, <2>3, <4>2, WalkWritten
      <4> QED BY <4>1, <4>3 DEF AddressIn
    <3>2. CASE WalkIn(f, get_ideal_address(k), k) # Capacity
      <4>1. WalkIn(f, get_ideal_address(k), k) = a
        BY <3>2 DEF AddressIn
      <4>2. WalkIn(g, get_ideal_address(k), k) = a
        BY <1>1, <1>2, <2>1, <2>2, <4>1, WalkWritten
      <4> QED BY <4>2 DEF AddressIn
    <3> QED BY <3>1, <3>2
  <2>6. ReachableIn(g)
    <3> HIDE DEF a
    <3> QED BY <2>1, <2>4, <2>5 DEF ReachableIn, a
  <2> QED BY <2>6 DEF g
<1> QED BY <1>2, <1>3, <1>4

-----------------------------------------------------------------------------
(* The invariant is inductive *)

IInv == TypeOK /\ Reachable

\* The search of the module is the search in the table of the state.
LEMMA InState ==
  /\ \A k : get_actual_address(k) = AddressIn(key, k)
  /\ Reachable <=> ReachableIn(key)
<1>1. \A i, k : Walk(i, k) = WalkIn(key, i, k)
  BY DEF Walk, WalkIn
<1>2. \A k : get_actual_address(k) = AddressIn(key, k)
  BY <1>1 DEF get_actual_address, AddressIn
<1> QED BY <1>2 DEF Reachable, ReachableIn, Used

LEMMA InNextState == Reachable' <=> ReachableIn(key')
<1>1. \A i, k : Walk(i, k)' = WalkIn(key', i, k)
  BY DEF Walk, WalkIn
<1>2. \A k : get_actual_address(k)' = AddressIn(key', k)
  BY <1>1 DEF get_actual_address, AddressIn
<1> QED BY <1>2 DEF Reachable, ReachableIn, Used

\* What a call finds: the entry of the key or an empty one, unless it finds
\* none.
LEMMA AddressType ==
  ASSUME IInv, NEW k \in Keys
  PROVE  /\ get_actual_address(k) \in Entries
         /\ key[get_actual_address(k)] \in {Nothing, k}
         /\ get_actual_address(k) = Capacity =>
              \A i \in 0 .. Capacity - 1 : key[i] \notin {Nothing, k}
  BY InState, AddressEnds DEF IInv, Reachable

LEMMA InitIInv == ASSUME Init PROVE IInv
<1>1. TypeOK
  BY DEF Init, TypeOK
<1>2. Reachable
  BY PointerMapAssumption DEF Init, Reachable, Used, Entries
<1> QED BY <1>1, <1>2 DEF IInv

LEMMA PutStep ==
  ASSUME IInv, NEW k \in Keys, NEW v \in Values, put(k, v)
  PROVE  IInv'
<1> DEFINE a == get_actual_address(k)
<1>1. a \in Entries
  BY AddressType
<1>2. CASE a = Capacity
  <2>1. UNCHANGED <<key, value, ret>> /\ crashed' = TRUE
    BY <1>2 DEF put
  <2>2. TypeOK'
    BY <2>1 DEF IInv, TypeOK
  <2> QED BY <2>1, <2>2, InState, InNextState DEF IInv
<1>3. CASE a # Capacity
  <2>1. /\ key' = [key EXCEPT ![a] = k] /\ value' = [value EXCEPT ![a] = v]
        /\ UNCHANGED <<ret, crashed>>
    BY <1>3 DEF put
  <2>2. TypeOK'
    <3> HIDE DEF a
    <3> QED BY <1>1, <2>1 DEF IInv, TypeOK
  <2>3. ReachableIn(key')
    <3>1. a = AddressIn(key, k)
      BY InState
    <3> QED BY <1>3, <2>1, <3>1, InState, PutKeepsReachable DEF IInv, TypeOK
  <2> QED BY <2>2, <2>3, InNextState DEF IInv
<1> QED BY <1>2, <1>3

LEMMA GetStep ==
  ASSUME IInv, NEW k \in Keys, get(k)
  PROVE  IInv'
<1> DEFINE a == get_actual_address(k)
<1>1. a \in Entries
  BY AddressType
<1>2. /\ UNCHANGED <<key, value>>
      /\ \/ ret' = {value[a]} /\ UNCHANGED crashed
         \/ UNCHANGED ret /\ crashed' = TRUE
  BY DEF get
<1> HIDE DEF a
<1>3. TypeOK'
  BY <1>1, <1>2 DEF IInv, TypeOK
<1> QED BY <1>2, <1>3, InState, InNextState DEF IInv

\* In every reachable state the entries have their types and every key that
\* was put is where the search for it ends.
THEOREM Inductive == Spec => []IInv
<1>1. IInv /\ [Next]_vars => IInv'
  <2> SUFFICES ASSUME IInv, [Next]_vars PROVE IInv'
    OBVIOUS
  <2>1. CASE UNCHANGED vars
    <3>1. TypeOK' /\ key' = key
      BY <2>1 DEF vars, IInv, TypeOK
    <3> QED BY <3>1, InState, InNextState DEF IInv
  <2>2. ASSUME NEW k \in Keys, NEW v \in Values, put(k, v) PROVE IInv'
    BY <2>2, PutStep
  <2>3. ASSUME NEW k \in Keys, get(k) PROVE IInv'
    BY <2>3, GetStep
  <2> QED BY <2>1, <2>2, <2>3 DEF Next
<1> QED BY <1>1, InitIInv, PTL DEF Spec

\* Type correctness: keys and values in their entries.
THEOREM TypeCorrect == Spec => []TypeOK
<1>1. IInv => TypeOK
  BY DEF IInv
<1> QED BY <1>1, Inductive, PTL

\* No key has two entries and none is hidden from the search for it, although
\* the search passes the boundary, which is never written.
THEOREM KeysReachable == Spec => []Reachable
<1>1. IInv => Reachable
  BY DEF IInv
<1> QED BY <1>1, Inductive, PTL

-----------------------------------------------------------------------------
(* The refinement *)

UsedIn(f) == {i \in Entries : f[i] # Nothing}

\* The table of TableSpec that entries with keys f and values w stand for.
TableOf(f, w) ==
  [k \in {f[i] : i \in UsedIn(f)} |-> w[CHOOSE i \in UsedIn(f) : f[i] = k]]

LEMMA TableOfEntries ==
  ASSUME NEW f, NEW w, ReachableIn(f)
  PROVE  /\ DOMAIN TableOf(f, w) = {f[i] : i \in UsedIn(f)}
         /\ \A i \in UsedIn(f) : TableOf(f, w)[f[i]] = w[i]
<1>1. ASSUME NEW i \in UsedIn(f), NEW j \in UsedIn(f), f[i] = f[j] PROVE i = j
  BY <1>1 DEF ReachableIn, UsedIn
<1>2. ASSUME NEW i \in UsedIn(f) PROVE (CHOOSE j \in UsedIn(f) : f[j] = f[i]) = i
  BY <1>1
<1> QED BY <1>2 DEF TableOf

\* How many keys there are: all entries are full, or one is not.
LEMMA KeysCounted ==
  ASSUME IInv
  PROVE  LET S == {key[i] : i \in UsedIn(key)}
         IN  /\ (\A i \in 0 .. Capacity - 1 : key[i] # Nothing) => Cardinality(S) = Capacity
             /\ (\E i \in 0 .. Capacity - 1 : key[i] = Nothing) => Cardinality(S) < Capacity
<1> DEFINE S == {key[i] : i \in UsedIn(key)}
           T == 0 .. Capacity - 1
           g == [k \in S |-> AddressIn(key, k)]
<1>1. IsFiniteSet(T) /\ Cardinality(T) = Capacity
  BY FS_Interval, PointerMapAssumption
<1>2. /\ ReachableIn(key)
      /\ \A i \in UsedIn(key) : i \in T /\ AddressIn(key, key[i]) = i
  BY InState, PointerMapAssumption DEF IInv, ReachableIn, UsedIn, Entries
<1>3. g \in [S -> T] /\ \A k \in S : key[g[k]] = k
  BY <1>2
<1>4. g \in Injection(S, T)
  BY <1>3 DEF Injection, IsInjective
<1>5. g \in Surjection(S, T) <=> \A i \in T : key[i] # Nothing
  <2>1. ASSUME g \in Surjection(S, T), NEW i \in T PROVE key[i] # Nothing
    <3>1. PICK k \in S : g[k] = i
      BY <2>1 DEF Surjection
    <3>2. PICK j \in UsedIn(key) : key[j] = k
      OBVIOUS
    <3>3. i = j
      BY <1>2, <3>1, <3>2
    <3> QED BY <3>3 DEF UsedIn
  <2>2. ASSUME \A i \in T : key[i] # Nothing PROVE g \in Surjection(S, T)
    <3>1. ASSUME NEW i \in T PROVE key[i] \in S /\ g[key[i]] = i
      <4>1. i \in UsedIn(key)
        BY <2>2, PointerMapAssumption DEF UsedIn, Entries
      <4> QED BY <1>2, <4>1
    <3> QED BY <1>3, <3>1 DEF Surjection
  <2> QED BY <2>1, <2>2
<1> HIDE DEF g
<1>6. /\ Cardinality(S) <= Cardinality(T)
      /\ Cardinality(S) = Cardinality(T) <=> g \in Surjection(S, T)
      /\ IsFiniteSet(S)
  BY <1>1, <1>4, FS_Injection
<1>7. Cardinality(S) \in Nat
  BY <1>6, FS_CardinalityType
<1> QED BY <1>1, <1>5, <1>6, <1>7, PointerMapAssumption

\* The variables of TableSpec.
LEMMA TableVariables ==
  /\ Table!vars = <<TableOf(key, value), ret, crashed>>
  /\ Table!vars' = <<TableOf(key', value'), ret', crashed'>>
  BY DEF Table!vars, TableOf, UsedIn, Used

\* The instance of TableSpec counts as this module does.
LEMMA SameCardinality ==
  ASSUME NEW S
  PROVE  Table!Cardinality(S) = Cardinality(S)
  BY DEF Table!Cardinality, Cardinality

\* The actions of TableSpec, in terms of TableOf.
LEMMA TableActions ==
  ASSUME NEW k, NEW v
  PROVE  /\ /\ k \notin DOMAIN TableOf(key, value)
            /\ Cardinality(DOMAIN TableOf(key, value)) = Capacity
            /\ UNCHANGED <<key, value, ret>> /\ crashed' = TRUE
            => Table!Overflow(k)
         /\ /\ k \in DOMAIN TableOf(key, value)
               \/ Cardinality(DOMAIN TableOf(key, value)) < Capacity
            /\ TableOf(key', value') =
                 [x \in DOMAIN TableOf(key, value) \cup {k} |->
                    IF x = k THEN v ELSE TableOf(key, value)[x]]
            /\ UNCHANGED <<ret, crashed>>
            => Table!Put(k, v)
         /\ /\ k \in DOMAIN TableOf(key, value)
               \/ Cardinality(DOMAIN TableOf(key, value)) < Capacity
            /\ v \in Values /\ (k \in DOMAIN TableOf(key, value) => v = TableOf(key, value)[k])
            /\ ret' = {v} /\ UNCHANGED <<key, value, crashed>>
            => Table!Get(k)
<1> DEFINE F == TableOf(key, value)
           G == TableOf(key', value')
<1>1. Table!Overflow(k) <=>
        /\ k \notin DOMAIN F /\ Cardinality(DOMAIN F) = Capacity
        /\ crashed' = TRUE /\ G = F /\ ret' = ret
  BY SameCardinality DEF Table!Overflow, TableOf, UsedIn, Used
<1>2. Table!Put(k, v) <=>
        /\ k \in DOMAIN F \/ Cardinality(DOMAIN F) < Capacity
        /\ G = [x \in DOMAIN F \cup {k} |-> IF x = k THEN v ELSE F[x]]
        /\ UNCHANGED <<ret, crashed>>
  BY SameCardinality DEF Table!Put, TableOf, UsedIn, Used
<1>3. Table!Get(k) <=>
        /\ k \in DOMAIN F \/ Cardinality(DOMAIN F) < Capacity
        /\ \E u \in Values : (k \in DOMAIN F => u = F[k]) /\ ret' = {u}
        /\ G = F /\ crashed' = crashed
  BY SameCardinality DEF Table!Get, TableOf, UsedIn, Used
<1>4. key' = key /\ value' = value => G = F
  OBVIOUS
<1> HIDE DEF F, G
<1> QED BY <1>1, <1>2, <1>3, <1>4 DEF F, G

LEMMA PutRefines ==
  ASSUME IInv, IInv', NEW k \in Keys, NEW v \in Values, ~crashed, put(k, v)
  PROVE  Table!Next
<1> DEFINE a == get_actual_address(k)
           F == TableOf(key, value)
<1>1. a \in Entries /\ key[a] \in {Nothing, k}
  BY AddressType
<1>2. CASE a = Capacity
  <2>1. \A i \in 0 .. Capacity - 1 : key[i] \notin {Nothing, k}
    BY <1>2, AddressType
  <2>2. key[Capacity] = Nothing /\ k # Nothing
    BY PointerMapAssumption DEF IInv, Reachable
  <2>3. k \notin {key[i] : i \in UsedIn(key)}
    BY <2>1, <2>2, PointerMapAssumption DEF UsedIn, Entries
  <2>4. Cardinality(DOMAIN F) = Capacity
    BY <2>1, KeysCounted DEF TableOf
  <2>5. UNCHANGED <<key, value, ret>> /\ crashed' = TRUE
    BY <1>2 DEF put
  <2>6. Table!Overflow(k)
    <3>1. k \notin DOMAIN F
      BY <2>3 DEF TableOf
    <3> QED BY <2>4, <2>5, <3>1, TableActions
  <2> QED BY <2>6 DEF Table!Next
<1>3. CASE a # Capacity
  <2>1. /\ key' = [key EXCEPT ![a] = k] /\ value' = [value EXCEPT ![a] = v]
        /\ UNCHANGED <<ret, crashed>>
    BY <1>3 DEF put
  <2>2. ReachableIn(key) /\ ReachableIn(key')
    BY InState, InNextState DEF IInv
  <2>3. k # Nothing
    BY PointerMapAssumption
  <2> HIDE DEF a
  <2>4. UsedIn(key') = UsedIn(key) \cup {a}
    BY <1>1, <2>1, <2>3 DEF UsedIn, IInv, TypeOK
  <2>5. {key'[i] : i \in UsedIn(key')} = {key[i] : i \in UsedIn(key)} \cup {k}
    BY <1>1, <2>1, <2>3, <2>4 DEF UsedIn, IInv, TypeOK
  <2>6. \A i \in UsedIn(key) \ {a} : key'[i] = key[i] /\ value'[i] = value[i]
    BY <2>1 DEF UsedIn, IInv, TypeOK
  <2>7. key'[a] = k /\ value'[a] = v
    BY <1>1, <2>1 DEF IInv, TypeOK
  <2>8. TableOf(key', value') = [x \in DOMAIN F \cup {k} |-> IF x = k THEN v ELSE F[x]]
    <3>1. DOMAIN TableOf(key', value') = DOMAIN F \cup {k}
      BY <2>5 DEF TableOf
    <3>2. TableOf(key', value')[k] = v
      <4>1. a \in UsedIn(key')
        BY <2>4
      <4>2. TableOf(key', value')[key'[a]] = value'[a]
        BY <2>2, <4>1, TableOfEntries
      <4> QED BY <2>7, <4>2
    <3>3. ASSUME NEW x \in DOMAIN F, x # k PROVE TableOf(key', value')[x] = F[x]
      <4>1. PICK i \in UsedIn(key) : key[i] = x
        BY DEF TableOf
      <4>2. i # a
        BY <1>1, <3>3, <4>1 DEF UsedIn
      <4>3. i \in UsedIn(key')
        BY <2>4
      <4>4. TableOf(key', value')[key'[i]] = value'[i]
        BY <2>2, <4>3, TableOfEntries
      <4>5. F[key[i]] = value[i]
        BY <2>2, TableOfEntries
      <4> QED BY <2>6, <4>1, <4>2, <4>4, <4>5
    <3>4. TableOf(key', value') = [x \in DOMAIN TableOf(key', value') |-> TableOf(key', value')[x]]
      BY DEF TableOf
    <3> HIDE DEF F
    <3> QED BY <3>1, <3>2, <3>3, <3>4
  <2>9. k \in DOMAIN F \/ Cardinality(DOMAIN F) < Capacity
    <3>1. CASE key[a] = k
      BY <1>1, <2>3, <3>1 DEF TableOf, UsedIn
    <3>2. CASE key[a] = Nothing
      <4>1. a \in 0 .. Capacity - 1
        BY <1>1, <1>3, PointerMapAssumption DEF Entries
      <4> QED BY <3>2, <4>1, KeysCounted DEF TableOf
    <3> QED BY <1>1, <3>1, <3>2
  <2>10. Table!Put(k, v)
    <3>1. k \in DOMAIN TableOf(key, value)
          \/ Cardinality(DOMAIN TableOf(key, value)) < Capacity
      BY <2>9
    <3>2. TableOf(key', value') =
            [x \in DOMAIN TableOf(key, value) \cup {k} |->
               IF x = k THEN v ELSE TableOf(key, value)[x]]
      BY <2>8
    <3> HIDE DEF F
    <3> QED BY <2>1, <3>1, <3>2, TableActions, ZenonT(40)
  <2> QED BY <2>10 DEF Table!Next
<1> QED BY <1>2, <1>3

LEMMA GetRefines ==
  ASSUME IInv, NEW k \in Keys, ~crashed, get(k)
  PROVE  Table!Next
<1> DEFINE a == get_actual_address(k)
           F == TableOf(key, value)
<1>1. a \in Entries /\ key[a] \in {Nothing, k}
  BY AddressType
<1>2. k # Nothing
  BY PointerMapAssumption
<1>3. CASE a = Capacity
  <2>1. \A i \in 0 .. Capacity - 1 : key[i] \notin {Nothing, k}
    BY <1>3, AddressType
  <2>2. key[Capacity] = Nothing
    BY DEF IInv, Reachable
  <2>3. k \notin {key[i] : i \in UsedIn(key)}
    BY <1>2, <2>1, <2>2, PointerMapAssumption DEF UsedIn, Entries
  <2>4. Cardinality(DOMAIN F) = Capacity
    BY <2>1, KeysCounted DEF TableOf
  <2>5. UNCHANGED <<key, value, ret>> /\ crashed' = TRUE
    BY <1>3 DEF get
  <2>6. Table!Overflow(k)
    <3>1. k \notin DOMAIN F
      BY <2>3 DEF TableOf
    <3> QED BY <2>4, <2>5, <3>1, TableActions
  <2> QED BY <2>6 DEF Table!Next
<1>4. CASE a # Capacity
  <2>1. ret' = {value[a]} /\ UNCHANGED <<key, value, crashed>>
    BY <1>4 DEF get
  <2> HIDE DEF a
  <2>2. value[a] \in Values
    BY <1>1 DEF IInv, TypeOK
  <2>3. ReachableIn(key)
    BY InState DEF IInv
  <2>4. k \in DOMAIN F => F[k] = value[a]
    <3>1. SUFFICES ASSUME k \in DOMAIN F PROVE F[k] = value[a]
      OBVIOUS
    <3>2. PICK i \in UsedIn(key) : key[i] = k
      BY <3>1 DEF TableOf
    <3>3. i = a
      BY <2>3, <3>2, InState DEF ReachableIn, UsedIn, a
    <3> QED BY <2>3, <3>2, <3>3, TableOfEntries
  <2>5. k \in DOMAIN F \/ Cardinality(DOMAIN F) < Capacity
    <3>1. CASE key[a] = k
      BY <1>1, <1>2, <3>1 DEF TableOf, UsedIn
    <3>2. CASE key[a] = Nothing
      <4>1. a \in 0 .. Capacity - 1
        BY <1>1, <1>4, PointerMapAssumption DEF Entries
      <4> QED BY <3>2, <4>1, KeysCounted DEF TableOf
    <3> QED BY <1>1, <3>1, <3>2
  <2>6. Table!Get(k)
    BY <2>1, <2>2, <2>4, <2>5, TableActions
  <2> QED BY <2>6 DEF Table!Next
<1> QED BY <1>3, <1>4

\* The entries are a table of at most Capacity keys that returns the value put
\* last for a key; only a full table that is asked about another key ends the
\* program.
THEOREM Refinement == Spec => ImplementsTable
<1>1. Init => Table!Init
  <2> SUFFICES ASSUME Init PROVE Table!Init
    OBVIOUS
  <2>1. Used = {}
    BY DEF Init, Used
  <2> QED BY <2>1 DEF Init, Table!Init
<1>2. IInv /\ IInv' /\ [Next]_vars => [Table!Next]_Table!vars
  <2> SUFFICES ASSUME IInv, IInv', [Next]_vars PROVE [Table!Next]_Table!vars
    OBVIOUS
  <2>1. CASE UNCHANGED vars
    BY <2>1, TableVariables DEF vars
  <2>2. CASE Next
    BY <2>2, PutRefines, GetRefines DEF Next
  <2> QED BY <2>1, <2>2
<1> QED BY <1>1, <1>2, Inductive, PTL DEF Spec, ImplementsTable, Table!Spec
====
