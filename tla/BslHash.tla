------------------------------ MODULE BslHash ------------------------------
(* The chained hash table of the basic services (bsl_hash.c).  A table is a *)
(* function from bucket numbers to the sequence of the bucket's nodes; a    *)
(* node has a key and a value.  Copies and releases of values (dupFunc and  *)
(* freeFunc) belong to the owner of the table: each operator that drops or  *)
(* adds a node says which one, and the owner counts the references.         *)
(* An iterator is the key of the node it points to: keys are unique as long *)
(* as nodes are added by Insert and Put.                                    *)
EXTENDS Naturals, SequencesExt

CONSTANTS
  Keys,          \* the keys
  BucketSize,    \* number of buckets
  HashCode(_),   \* bucket of a key
  IterEnd        \* the iterator past the last node

ASSUME HashAssumption ==
  /\ BucketSize \in Nat \ {0}
  /\ \A k \in Keys : HashCode(k) \in 0 .. BucketSize - 1
  /\ IterEnd \notin Keys

Buckets == 0 .. BucketSize - 1

(* BSL_HASH_Create: empty buckets.                                          *)
EmptyTable == [b \in Buckets |-> <<>>]

(* The nodes of all buckets; what the tables' owners say is in the table.   *)
Nodes(table) == UNION {Range(table[b]) : b \in Buckets}

(* BSL_HASH_FindNode on the bucket of the key: the position, 0 for none.    *)
FindNode(table, key) ==
  LET list == table[HashCode(key)]
      at == {i \in DOMAIN list : list[i].key = key}
  IN IF at = {} THEN 0 ELSE Min(at)

(* BSL_HASH_At returns the value of the node found.                         *)
HasKey(table, key) == FindNode(table, key) # 0
At(table, key) == table[HashCode(key)][FindNode(table, key)].value

(* The first node of the buckets from b on: BSL_HASH_Front is FirstFrom(t, 0).  *)
FirstFrom(table, b) ==
  LET filled == {i \in Buckets : i >= b /\ table[i] # <<>>}
  IN IF filled = {} THEN IterEnd ELSE Head(table[Min(filled)]).key

(* The iterator moves on to the next bucket: the rest of this one is missed. *)
FaultyIterNext(table, it) == FirstFrom(table, HashCode(it) + 1)

(* BSL_HASH_Next: the node behind this one, then the later buckets.         *)
IterNext(table, it) ==
  LET list == table[HashCode(it)]
      i == FindNode(table, it)
  IN IF i < Len(list) THEN list[i + 1].key ELSE FirstFrom(table, HashCode(it) + 1)

(* Inserting skips the search for the key: a key may have two nodes.        *)
FaultyInsert(table, key, value) ==
  [table EXCEPT ![HashCode(key)] = Append(@, [key |-> key, value |-> value])]

(* BSL_HASH_Insert: refused without a change if the key has a node, else a  *)
(* node is added behind the bucket's last one.                              *)
Insert(table, key, value) ==
  IF HasKey(table, key) THEN table
  ELSE [table EXCEPT ![HashCode(key)] = Append(@, [key |-> key, value |-> value])]

(* BSL_HASH_Erase removes the node of the key; the iterator it returns is   *)
(* IterNext of the table before the removal.                                *)
Erase(table, key) ==
  IF HasKey(table, key)
  THEN [table EXCEPT ![HashCode(key)] = RemoveAt(@, FindNode(table, key))]
  ELSE table
=============================================================================
