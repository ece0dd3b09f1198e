---- MODULE PointerMap ----
(***************************************************************************)
(* core/utils/impl/hashmap.h, as pointer_hashmap.h instantiates it: a hash *)
(* table of fixed capacity from pointers to ints, with open addressing.    *)
(* The entry behind the last one is a boundary that ends every search; a   *)
(* search that meets it starts again at the first entry.  Nothing erases.  *)
(***************************************************************************)
EXTENDS Integers, FiniteSets

CONSTANTS
  Keys,      \* pointers that are put and asked for
  Values,    \* ints
  Capacity,
  Nothing    \* the key of an empty entry

ASSUME PointerMapAssumption ==
  /\ Keys \subseteq Nat /\ Nothing \notin Keys
  /\ Capacity \in Nat \ {0}

VARIABLES
  key, value,  \* the entries: 0 .. Capacity, the last one is the boundary
  ret,         \* what the last get returned: {v}, {} at first
  crashed      \* the process died on a NULL dereference

vars == <<key, value, ret, crashed>>

Entries == 0 .. Capacity

\* hashmap_object2int_new: malloc leaves any values in the entries.
Init ==
  /\ key = [i \in Entries |-> Nothing]
  /\ value \in [Entries -> Values]
  /\ ret = {} /\ crashed = FALSE

\* HASH_OF is the pointer itself.
get_ideal_address(k) == k % Capacity

\* Where the loop that begins at entry i stops: at the first entry that is
\* empty or has the key.  The mutant looks for an empty one only.
WalkToEmpty(i, k) ==
  CHOOSE j \in i .. Capacity :
    /\ key[j] = Nothing
    /\ \A h \in i .. j - 1 : key[h] # Nothing
Walk(i, k) ==
  CHOOSE j \in i .. Capacity :
    /\ key[j] \in {Nothing, k}
    /\ \A h \in i .. j - 1 : key[h] \notin {Nothing, k}

\* get_actual_address; the boundary stands for NULL.  The mutant does not start
\* again at the first entry.
get_actual_address_once(k) == Walk(get_ideal_address(k), k)
get_actual_address(k) ==
  LET a == Walk(get_ideal_address(k), k)
  IN  IF a = Capacity THEN Walk(0, k) ELSE a

put(k, v) ==
  LET i == get_actual_address(k)
  IN  IF i = Capacity
      THEN crashed' = TRUE /\ UNCHANGED <<key, value, ret>>
      ELSE /\ key' = [key EXCEPT ![i] = k]
           /\ value' = [value EXCEPT ![i] = v]
           /\ UNCHANGED <<ret, crashed>>

get(k) ==
  LET i == get_actual_address(k)
  IN  IF i = Capacity
      THEN crashed' = TRUE /\ UNCHANGED <<key, value, ret>>
      ELSE ret' = {value[i]} /\ UNCHANGED <<key, value, crashed>>

Next ==
  /\ ~crashed
  /\ \E k \in Keys : (\E v \in Values : put(k, v)) \/ get(k)

Spec == Init /\ [][Next]_vars

-----------------------------------------------------------------------------
(* Properties *)

Used == {i \in Entries : key[i] # Nothing}

\* Type correctness: keys and values in their entries.
TypeOK ==
  /\ key \in [Entries -> Keys \cup {Nothing}]
  /\ value \in [Entries -> Values]
  /\ ret \in SUBSET Values /\ crashed \in BOOLEAN

\* The boundary is never written, so both loops of get_actual_address end
\* inside the array, and every entry is where the search for its key ends,
\* although the search may pass the boundary: no key has two entries, and none
\* is hidden behind an empty one.
Reachable ==
  /\ key[Capacity] = Nothing
  /\ \A i \in Used : get_actual_address(key[i]) = i

\* The entries are the table of TableSpec, put by put and get by get: get returns
\* the value put last for a key in the table, which is the precondition of get
\* in hashmap.h.  The program dies only when a full table is asked about
\* another key.
Table ==
  INSTANCE TableSpec WITH
    f <- [k \in {key[i] : i \in Used} |-> value[CHOOSE i \in Used : key[i] = k]]

ImplementsTable == Table!Spec

\* pointer_hashmap.h says of get: "This will segfault if the entry is not in the
\* hashmap", and hashmap.h at its return: "Crash the program if the key cannot be
\* found".
CrashesOnMissing ==
  [][\A k \in Keys \ {key[i] : i \in Used} : get(k) => crashed']_vars
====
