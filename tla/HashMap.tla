------------------------------- MODULE HashMap -------------------------------
(***************************************************************************)
(* hashmap.c: open addressing with double hashing in tables of prime size  *)
(* that grow and shrink with the load.  A removed entry leaves a DELETED   *)
(* slot behind.  map is the map a client believes in; a put that finds a   *)
(* DELETED slot before the key's own entry stores the key a second time    *)
(* (doubled).                                                              *)
(***************************************************************************)
EXTENDS Integers, Sequences, FiniteSets, FiniteSetsExt

CONSTANTS
  Key, Value,
  Hash,         \* the hash function, a function of Key
  TableSizes,   \* table_sizes, from index 1
  High, Low     \* load_factor_high, load_factor_low, in percent

VARIABLES
  tableSizeIndex,
  table,        \* h->table: a slot is Empty, Deleted or an entry
  entries,      \* h->size
  map, fine, doubled

mapVars == <<tableSizeIndex, table, entries, map, fine, doubled>>

Empty == [state |-> "empty"]
Deleted == [state |-> "deleted"]
Entry(k, v) == [state |-> "used", key |-> k, value |-> v]
Used(e) == e.state = "used"
Absent == "absent"
Failed == "failed"
Done == "done"

Init == /\ tableSizeIndex = 0 /\ table = <<>> /\ entries = 0
        /\ map = <<>> /\ fine = TRUE /\ doubled = FALSE

Answer(got, want) == fine' = (got = want)
Lookup(k) == IF k \in DOMAIN map THEN map[k] ELSE Absent
Load == (entries * 100) \div TableSizes[tableSizeIndex]

(* the slot the i-th probe for k looks at in a table of ts slots *)
Probe(k, i, ts) == (Hash[k] + i * (1 + (Hash[k] % (ts - 2)))) % ts

(* hashmap_resize: the entries move in the order of the old table *)
Resize(index) ==
  LET ts == TableSizes[index]
      Place(t, e) == LET i == Min({j \in 0 .. ts : t[Probe(e.key, j, ts)] = Empty})
                     IN [t EXCEPT ![Probe(e.key, i, ts)] = e]
      moved[n \in 0 .. Cardinality(DOMAIN table)] ==
        IF n = 0 THEN [s \in 0 .. ts - 1 |-> Empty]
        ELSE IF Used(table[n - 1]) THEN Place(moved[n - 1], table[n - 1]) ELSE moved[n - 1]
  IN moved[Cardinality(DOMAIN table)]

MustGrow == tableSizeIndex # 0 => Load >= High /\ tableSizeIndex < Len(TableSizes)
MustShrink == tableSizeIndex > 1 /\ Load < Low

(* a resize that gets no memory: the call fails and changes nothing *)
NoMemory == /\ MustGrow \/ MustShrink
            /\ Answer(Failed, Failed)
            /\ UNCHANGED <<tableSizeIndex, table, entries, map, doubled>>

(* where a search for k in t ends, the first probe among the slots stops *)
Found(t, k, stops) ==
  LET ts == Cardinality(DOMAIN t)
      hits == {i \in 0 .. ts - 1 : Probe(k, i, ts) \in stops}
  IN IF hits = {} THEN -1 ELSE Probe(k, Min(hits), ts)
Holds(e, k) == Used(e) /\ e.key = k

\* mutant: the entries keep their slots in the larger table
Grown_Copy == [s \in 0 .. TableSizes[tableSizeIndex + 1] - 1 |->
                 IF s \in DOMAIN table THEN table[s] ELSE Empty]
Grown == Resize(tableSizeIndex + 1)

(* hashmap_put *)
Put(k, v) ==
  LET t == IF MustGrow THEN Grown ELSE table
      s == Found(t, k, {i \in DOMAIN t : ~Used(t[i]) \/ t[i].key = k})
  IN /\ ~doubled     \* bound: no put after the first that stored a key twice
     /\ tableSizeIndex' = IF MustGrow THEN tableSizeIndex + 1 ELSE tableSizeIndex
     /\ IF s = -1 \/ Used(t[s])
        THEN /\ table' = t /\ UNCHANGED <<entries, map, doubled>>
             /\ Answer(Failed, IF k \in DOMAIN map \/ entries = Cardinality(DOMAIN t)
                               THEN Failed ELSE Done)
        ELSE /\ table' = [t EXCEPT ![s] = Entry(k, v)]
             /\ entries' = entries + 1
             /\ map' = [j \in DOMAIN map \cup {k} |-> IF j = k THEN v ELSE map[j]]
             /\ doubled' = (doubled \/ k \in DOMAIN map)
             /\ Answer(Done, IF k \in DOMAIN map THEN Failed ELSE Done)

Slot(t, k) == Found(t, k, {i \in DOMAIN t : t[i] = Empty \/ Holds(t[i], k)})

(* hashmap_get *)
Get(k) ==
  LET s == Slot(table, k)
  IN /\ Answer(IF table # <<>> /\ s # -1 /\ Used(table[s]) THEN table[s].value ELSE Absent, Lookup(k))
     /\ UNCHANGED <<tableSizeIndex, table, entries, map, doubled>>

\* mutant: the slot of a removed entry becomes empty, which ends other searches
Vacant_Empty == Empty
Vacant == Deleted

(* hashmap_remove *)
RemoveKey(k) ==
  LET t == IF MustShrink THEN Resize(tableSizeIndex - 1) ELSE table
      s == Slot(t, k)
      hit == table # <<>> /\ s # -1 /\ Used(t[s])
  IN /\ tableSizeIndex' = IF MustShrink THEN tableSizeIndex - 1 ELSE tableSizeIndex
     /\ table' = IF hit THEN [t EXCEPT ![s] = Vacant] ELSE t
     /\ entries' = IF hit THEN entries - 1 ELSE entries
     /\ map' = [j \in DOMAIN map \ {k} |-> map[j]]
     /\ Answer(IF hit THEN t[s].value ELSE Absent, Lookup(k))
     /\ UNCHANGED doubled

(* hashmap_clear; hashmap_deinit and hashmap_new come to the same *)
Clear == /\ tableSizeIndex' = 0 /\ table' = <<>> /\ entries' = 0
         /\ map' = <<>> /\ Answer(Done, Done) /\ doubled' = FALSE

(* hashmap_iterate, then hashmap_next to the end; hashmap_size *)
Walk == LET used == {s \in DOMAIN table : Used(table[s])}
        IN /\ Answer([keys |-> {table[s].key : s \in used}, visits |-> Cardinality(used), size |-> entries],
                     [keys |-> DOMAIN map, visits |-> Cardinality(DOMAIN map), size |-> Cardinality(DOMAIN map)])
           /\ UNCHANGED <<tableSizeIndex, table, entries, map, doubled>>

Next == \/ \E k \in Key, v \in Value : Put(k, v)
        \/ \E k \in Key : Get(k) \/ RemoveKey(k)
        \/ Clear \/ Walk \/ NoMemory

(* Every entry can be found by probing for its key past DELETED slots,     *)
(* after any mix of removals and resizes.                                  *)
Reachable == \A s \in DOMAIN table : Used(table[s]) =>
               LET f == Slot(table, table[s].key) IN Used(table[f])

(* The table is the client's map, and answers as it would, unless a put    *)
(* stored a key twice; even then no entry gets lost to a search and the    *)
(* count is right.                                                         *)
Faithful == /\ entries = Cardinality({s \in DOMAIN table : Used(table[s])})
            /\ Reachable
            /\ fine \/ doubled
            /\ \/ doubled
               \/ {<<table[s].key, table[s].value>> : s \in {r \in DOMAIN table : Used(table[r])}}
                    = {<<k, map[k]>> : k \in DOMAIN map}
=============================================================================
