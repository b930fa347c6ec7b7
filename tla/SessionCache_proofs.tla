-------------------------- MODULE SessionCache_proofs --------------------------
(***************************************************************************)
(* The sessions' reference counts are exact, the table is coherent, the    *)
(* clearing of the cache misses nothing, and only invalid sessions leave   *)
(* it: for every number of connections, sessions, keys and buckets.        *)
(***************************************************************************)
EXTENDS SessionCache, SequenceTheorems, FiniteSetTheorems, TLAPS

(* A table whose nodes are in the bucket of their key, one for each key. *)
WellHashed(t) ==
  /\ t \in [Buckets -> Seq(NodeType)]
  /\ \A b \in Buckets : \A i, j \in DOMAIN t[b] :
       /\ HashCode(t[b][i].key) = b
       /\ t[b][i].key = t[b][j].key => i = j

Node(k, v) == [key |-> k, value |-> v]

One(p) == IF p THEN 1 ELSE 0

(* Session y in the memory x. *)
Put(h, x, y) == [h EXCEPT ![x] = y]

(* A session is there as long as it has references. *)
HeapOK(h) ==
  /\ h \in [Cells -> Sessions]
  /\ \A s \in Cells : h[s].live <=> h[s].references > 0

(* The same session, later: only its references change, and it may be disabled. *)
SameObject(x, y) ==
  /\ x.id = y.id /\ x.start = y.start /\ x.timeout = y.timeout
  /\ y.enable => x.enable

(* The connections that have session s, and those with a configuration. *)
ConnsOf(s) == {c \in Conns : conn[c].session = s}
Configured == {c \in Conns : conn[c].pc \notin {"none", "gone"}}
HasSession(c, s) == c \in Conns /\ conn[c].session = s
HasConfig(c) == c \in Conns /\ conn[c].pc \notin {"none", "gone"}

(* Every reference of a session, and of the manager, has its holder. *)
RefInv ==
  /\ HeapOK(heap)
  /\ \A s \in Cells :
       heap[s].references = Cardinality(ConnsOf(s)) + Cardinality(NodesOf(s)) + kept[s]
  /\ mgr.references = Cardinality(Configured) + One(owned)
  /\ ~MgrAlive => Nodes(table) = {}

(* The table and the sessions in it. *)
TableInv ==
  /\ WellHashed(table)
  /\ IsFiniteSet(Nodes(table)) /\ hashCount = Cardinality(Nodes(table))
  /\ \A n \in Nodes(table) : heap[n.value].id = n.key

(* What a connection relies on at the point where it is. *)
ConnOK(c) ==
  /\ conn[c].curTime <= clock
  /\ conn[c].pc = "found" => ~conn[c].isResume
  /\ conn[c].pc = "hello" /\ conn[c].isResume => conn[c].session # None
  /\ conn[c].pc \in {"ticket", "mode", "insert"} => conn[c].session # None
  /\ conn[c].pc \in {"mode", "insert"} => heap[conn[c].session].id = conn[c].sessionId
  /\ conn[c].pc = "insert" => conn[c].sessionId # None
  /\ conn[c].pc = "clear" <=> writer = c
  /\ conn[c].pc = "clear" /\ conn[c].it # IterEnd => HasKey(table, conn[c].it)

ConnInv == \A c \in Conns : ConnOK(c)

CacheInv == TypeOK /\ RefInv /\ TableInv /\ ConnInv

(* A step of connection c, or of none, that moves references between it and *)
(* the application and leaves the table as it is.                           *)
ConnMove(c) ==
  /\ conn' \in [Conns -> Connections] /\ kept' \in [Cells -> Nat]
  /\ \A d \in Conns \ {c} : conn'[d] = conn[d]
  /\ HeapOK(heap')
  /\ \A s \in Cells :
       heap'[s].references + One(HasSession(c, s)) + kept[s]
         = heap[s].references + One(HasSession(c, s)') + kept'[s]
  /\ \A s \in Cells : heap'[s].references > 0 =>
       SameObject(heap[s], heap'[s]) \/ heap[s].references <= One(HasSession(c, s))
  /\ UNCHANGED <<table, hashCount, owned>>
  /\ mgr'.references + One(HasConfig(c)) = mgr.references + One(HasConfig(c)')
  /\ mgr.references <= mgr'.references
  /\ clock <= clock'
  /\ \A d \in Conns \ {c} : writer' = d <=> writer = d
  /\ c \in Conns => ConnOK(c)'

(* What such a step of a connection does to the other variables. *)
Aside(c) ==
  /\ UNCHANGED <<role, table, hashCount, mgr, clock, owned>>
  /\ writer' \in Conns \cup {None}
  /\ \A d \in Conns \ {c} : writer' = d <=> writer = d
  /\ hellos' \in [Conns -> Nat] /\ settings' \in 0 .. MaxSettings
  /\ doomed' \in SUBSET NodeType /\ corrupted' \in BOOLEAN

-----------------------------------------------------------------------------
(* The hash table. *)

(* A sequence without its element at a position. *)
LEMMA RemoveAtElements ==
  ASSUME NEW S, NEW s \in Seq(S), NEW i \in DOMAIN s
  PROVE  /\ RemoveAt(s, i) \in Seq(S)
         /\ Len(RemoveAt(s, i)) = Len(s) - 1
         /\ \A j \in 1 .. Len(s) - 1 :
              RemoveAt(s, i)[j] = IF j < i THEN s[j] ELSE s[j + 1]
<1> DEFINE front == SubSeq(s, 1, i - 1)
           back == SubSeq(s, i + 1, Len(s))
<1>1. i \in Nat /\ Len(s) \in Nat /\ 1 <= i /\ i <= Len(s) /\ DOMAIN s = 1 .. Len(s)
  OBVIOUS
<1>2. front \in Seq(S) /\ Len(front) = i - 1 /\ \A j \in 1 .. i - 1 : front[j] = s[j]
  BY <1>1
<1>3. back \in Seq(S) /\ Len(back) = Len(s) - i /\ \A j \in 1 .. Len(s) - i : back[j] = s[i + j]
  BY <1>1
<1>4. RemoveAt(s, i) = front \o back
  BY DEF RemoveAt
<1> HIDE DEF front, back
<1>5. /\ front \o back \in Seq(S) /\ Len(front \o back) = Len(s) - 1
      /\ \A j \in 1 .. Len(s) - 1 :
           (front \o back)[j] = IF j <= Len(front) THEN front[j] ELSE back[j - Len(front)]
  <2>1. Len(front) + Len(back) = Len(s) - 1
    BY <1>1, <1>2, <1>3
  <2>2. /\ front \o back \in Seq(S)
        /\ Len(front \o back) = Len(front) + Len(back)
        /\ \A j \in 1 .. Len(front) + Len(back) :
             (front \o back)[j] = IF j <= Len(front) THEN front[j] ELSE back[j - Len(front)]
    BY ONLY <1>2, <1>3, ConcatProperties
  <2> QED
    BY <2>1, <2>2
<1>6. ASSUME NEW j \in 1 .. Len(s) - 1
      PROVE  (front \o back)[j] = IF j < i THEN s[j] ELSE s[j + 1]
  <2>1. CASE j < i
    BY <1>1, <1>2, <1>5, <2>1
  <2>2. CASE ~(j < i)
    <3>1. j - (i - 1) \in 1 .. Len(s) - i /\ i + (j - (i - 1)) = j + 1
      BY <1>1, <2>2
    <3>2. (front \o back)[j] = back[j - (i - 1)]
      BY <1>1, <1>2, <1>5, <2>2
    <3>3. back[j - (i - 1)] = s[i + (j - (i - 1))]
      BY <1>3, <3>1
    <3> QED
      BY <2>2, <3>1, <3>2, <3>3
  <2> QED
    BY <2>1, <2>2
<1> QED
  BY <1>4, <1>5, <1>6

(* BSL_HASH_FindNode finds the key's node, if there is one. *)
LEMMA FindNodeFinds ==
  ASSUME NEW t, WellHashed(t), NEW k \in Keys
  PROVE  /\ HashCode(k) \in Buckets
         /\ HasKey(t, k) =>
              /\ FindNode(t, k) \in DOMAIN t[HashCode(k)]
              /\ t[HashCode(k)][FindNode(t, k)].key = k
         /\ ~HasKey(t, k) =>
              \A i \in DOMAIN t[HashCode(k)] : t[HashCode(k)][i].key # k
<1> DEFINE list == t[HashCode(k)]
           at == {i \in DOMAIN list : list[i].key = k}
<1>1. HashCode(k) \in Buckets
  BY HashAssumption DEF Buckets
<1>2. list \in Seq(NodeType) /\ DOMAIN list \subseteq Nat \ {0}
  BY <1>1 DEF WellHashed
<1>3. FindNode(t, k) = IF at = {} THEN 0 ELSE Min(at)
  BY DEF FindNode
<1>4. ASSUME at # {}
      PROVE  Min(at) \in at
  <2>1. PICK i \in at : TRUE
    BY <1>4
  <2>2. \A j \in at : j = i
    BY <1>1 DEF WellHashed
  <2>3. \A y \in at : i =< y
    BY <1>2, <2>2
  <2> QED
    BY <2>1, <2>3 DEF Min
<1> QED
  BY <1>1, <1>2, <1>3, <1>4 DEF HasKey

(* The nodes of the table: what BSL_HASH_At finds under its key. *)
LEMMA NodesFound ==
  ASSUME NEW t, WellHashed(t)
  PROVE  /\ Nodes(t) \subseteq NodeType
         /\ \A k \in Keys : HasKey(t, k) =>
              At(t, k) \in Cells /\ Node(k, At(t, k)) \in Nodes(t)
         /\ \A n \in Nodes(t) : HasKey(t, n.key) /\ At(t, n.key) = n.value
         /\ \A m, n \in Nodes(t) : m.key = n.key => m = n
<1>1. \A b \in Buckets : \A i \in DOMAIN t[b] : t[b][i] \in NodeType
  BY DEF WellHashed
<1>2. \A n : n \in Nodes(t) <=> \E b \in Buckets : \E i \in DOMAIN t[b] : n = t[b][i]
  BY DEF Nodes, Range
<1>3. Nodes(t) \subseteq NodeType
  BY <1>1, <1>2
<1>4. ASSUME NEW k \in Keys, HasKey(t, k)
      PROVE  At(t, k) \in Cells /\ Node(k, At(t, k)) \in Nodes(t)
  <2> DEFINE n == t[HashCode(k)][FindNode(t, k)]
  <2>1. n \in Nodes(t) /\ n.key = k /\ n.value = At(t, k)
    BY <1>2, <1>4, FindNodeFinds DEF At
  <2>2. n \in NodeType
    BY <1>3, <2>1
  <2>3. n = Node(n.key, n.value)
    BY <2>2 DEF NodeType, Node
  <2> QED
    BY <2>1, <2>2, <2>3 DEF NodeType
<1>5. ASSUME NEW n \in Nodes(t)
      PROVE  HasKey(t, n.key) /\ At(t, n.key) = n.value
  <2>0. PICK b \in Buckets : \E i \in DOMAIN t[b] : n = t[b][i]
    BY <1>2
  <2>1. PICK i \in DOMAIN t[b] : n = t[b][i]
    BY <2>0
  <2>2. HashCode(n.key) = b /\ n.key \in Keys
    BY <1>3, <2>1 DEF WellHashed, NodeType
  <2>3. HasKey(t, n.key)
    BY <2>1, <2>2, FindNodeFinds
  <2>4. FindNode(t, n.key) = i
    BY <2>1, <2>2, <2>3, FindNodeFinds DEF WellHashed
  <2> QED
    BY <2>1, <2>2, <2>3, <2>4 DEF At
<1>6. ASSUME NEW m \in Nodes(t), NEW n \in Nodes(t), m.key = n.key
      PROVE  m = n
  BY <1>3, <1>5, <1>6 DEF NodeType
<1> QED
  BY <1>3, <1>4, <1>5, <1>6

(* BSL_HASH_Insert of a key that has no node adds one node. *)
LEMMA InsertAdds ==
  ASSUME NEW t, WellHashed(t), NEW k \in Keys, NEW v \in Cells, ~HasKey(t, k)
  PROVE  /\ WellHashed(Insert(t, k, v))
         /\ Nodes(Insert(t, k, v)) = Nodes(t) \cup {Node(k, v)}
         /\ Node(k, v) \notin Nodes(t)
         /\ Insert(t, k, v) # t
<1> DEFINE h == HashCode(k)
           added == Append(t[h], Node(k, v))
           u == [t EXCEPT ![h] = added]
<1>1. h \in Buckets /\ \A i \in DOMAIN t[h] : t[h][i].key # k
  BY FindNodeFinds
<1>2. t \in [Buckets -> Seq(NodeType)] /\ t[h] \in Seq(NodeType) /\ Node(k, v) \in NodeType
  BY <1>1 DEF WellHashed, NodeType, Node
<1>3. /\ added \in Seq(NodeType) /\ DOMAIN added = DOMAIN t[h] \cup {Len(t[h]) + 1}
      /\ \A i \in DOMAIN t[h] : added[i] = t[h][i]
      /\ added[Len(t[h]) + 1] = Node(k, v)
      /\ Len(t[h]) + 1 \notin DOMAIN t[h]
  BY <1>2
<1>4. Insert(t, k, v) = u
  BY <1>2 DEF Insert, Node
<1> HIDE DEF added
<1>5. u \in [Buckets -> Seq(NodeType)] /\ u[h] = added /\ \A b \in Buckets \ {h} : u[b] = t[b]
  BY <1>1, <1>2, <1>3
<1> HIDE DEF u
<1>6. WellHashed(u)
  <2> SUFFICES ASSUME NEW b \in Buckets, NEW i \in DOMAIN u[b], NEW j \in DOMAIN u[b]
               PROVE  /\ HashCode(u[b][i].key) = b
                      /\ u[b][i].key = u[b][j].key => i = j
    BY <1>5 DEF WellHashed
  <2>1. CASE b # h
    BY <1>5, <2>1 DEF WellHashed
  <2>2. CASE b = h
    <3>1. Node(k, v).key = k
      BY DEF Node
    <3>2. \A x \in DOMAIN t[h] : HashCode(t[h][x].key) = h /\ t[h][x].key # k
      BY <1>1 DEF WellHashed
    <3>3. HashCode(added[i].key) = h
      BY <1>3, <2>2, <1>5, <3>1, <3>2
    <3>4. added[i].key = added[j].key => i = j
      BY <1>1, <1>3, <2>2, <1>5, <3>1, <3>2 DEF WellHashed
    <3> QED
      BY <1>5, <2>2, <3>3, <3>4
  <2> QED
    BY <2>1, <2>2
<1>7. \A n : n \in Nodes(u) <=> n \in Nodes(t) \/ n = Node(k, v)
  <2>1. \A s, n : n \in Nodes(s) <=> \E b \in Buckets : \E i \in DOMAIN s[b] : n = s[b][i]
    BY DEF Nodes, Range
  <2>2. ASSUME NEW n \in Nodes(u)
        PROVE  n \in Nodes(t) \/ n = Node(k, v)
    <3>1. PICK b \in Buckets : \E i \in DOMAIN u[b] : n = u[b][i]
      BY <2>1
    <3> QED
      BY <1>3, <1>5, <2>1, <3>1
  <2>3. ASSUME NEW n \in Nodes(t)
        PROVE  n \in Nodes(u)
    <3>1. PICK b \in Buckets : \E i \in DOMAIN t[b] : n = t[b][i]
      BY <2>1
    <3> QED
      BY <1>3, <1>5, <2>1, <3>1
  <2>4. Node(k, v) \in Nodes(u)
    BY <1>1, <1>3, <1>5, <2>1
  <2> QED
    BY <2>2, <2>3, <2>4
<1>8. Node(k, v) \notin Nodes(t)
  <2>1. Node(k, v) \in Nodes(t) => HasKey(t, Node(k, v).key)
    BY NodesFound
  <2> QED
    BY <2>1 DEF Node
<1> QED
  BY <1>4, <1>6, <1>7, <1>8

(* BSL_HASH_Erase of a key that has a node removes this node and no other. *)
LEMMA EraseRemoves ==
  ASSUME NEW t, WellHashed(t), NEW k \in Keys, HasKey(t, k)
  PROVE  /\ WellHashed(Erase(t, k))
         /\ Nodes(Erase(t, k)) = Nodes(t) \ {Node(k, At(t, k))}
         /\ Node(k, At(t, k)) \in Nodes(t)
<1> DEFINE h == HashCode(k)
           x == FindNode(t, k)
           rest == RemoveAt(t[h], x)
           u == [t EXCEPT ![h] = rest]
           Shift(j) == IF j < x THEN j ELSE j + 1
<1>1. h \in Buckets /\ x \in DOMAIN t[h] /\ t[h][x].key = k
  BY FindNodeFinds
<1>2. t \in [Buckets -> Seq(NodeType)] /\ t[h] \in Seq(NodeType)
  BY <1>1 DEF WellHashed
<1>3. /\ rest \in Seq(NodeType) /\ DOMAIN rest = 1 .. Len(t[h]) - 1
      /\ \A j \in DOMAIN rest : rest[j] = t[h][Shift(j)]
  <2>1. /\ rest \in Seq(NodeType) /\ Len(rest) = Len(t[h]) - 1
        /\ \A j \in 1 .. Len(t[h]) - 1 : rest[j] = IF j < x THEN t[h][j] ELSE t[h][j + 1]
    BY <1>1, <1>2, RemoveAtElements
  <2>2. DOMAIN rest = 1 .. Len(rest)
    BY <2>1
  <2> QED
    BY <2>1, <2>2
<1>4. Erase(t, k) = u
  BY DEF Erase
<1> HIDE DEF rest
<1>5. u \in [Buckets -> Seq(NodeType)] /\ u[h] = rest /\ \A b \in Buckets \ {h} : u[b] = t[b]
  BY <1>1, <1>2, <1>3
<1> HIDE DEF u
<1>6. /\ x \in Nat /\ Len(t[h]) \in Nat /\ DOMAIN t[h] = 1 .. Len(t[h])
      /\ \A j \in DOMAIN rest : Shift(j) \in DOMAIN t[h] /\ Shift(j) # x
      /\ \A i, j \in DOMAIN rest : Shift(i) = Shift(j) => i = j
      /\ \A i \in DOMAIN t[h] : i # x => \E j \in DOMAIN rest : Shift(j) = i
  <2>1. x \in Nat /\ Len(t[h]) \in Nat /\ DOMAIN t[h] = 1 .. Len(t[h]) /\ x \in 1 .. Len(t[h])
    BY <1>1, <1>2
  <2>2. \A j \in DOMAIN rest : Shift(j) \in DOMAIN t[h] /\ Shift(j) # x
    BY <1>3, <2>1
  <2>3. \A i, j \in DOMAIN rest : Shift(i) = Shift(j) => i = j
    BY <1>3, <2>1
  <2>4. ASSUME NEW i \in DOMAIN t[h], i # x
        PROVE  \E j \in DOMAIN rest : Shift(j) = i
    <3>1. CASE i < x
      BY <1>3, <2>1, <3>1
    <3>2. CASE i > x
      <4>1. i - 1 \in DOMAIN rest /\ Shift(i - 1) = i
        BY <1>3, <2>1, <3>2
      <4> QED
        BY <4>1
    <3> QED
      BY <2>1, <2>4, <3>1, <3>2
  <2> QED
    BY <2>1, <2>2, <2>3, <2>4
<1> HIDE DEF Shift
<1>7. WellHashed(u)
  <2> SUFFICES ASSUME NEW b \in Buckets, NEW i \in DOMAIN u[b], NEW j \in DOMAIN u[b]
               PROVE  /\ HashCode(u[b][i].key) = b
                      /\ u[b][i].key = u[b][j].key => i = j
    BY <1>5 DEF WellHashed
  <2>1. CASE b # h
    BY <1>5, <2>1 DEF WellHashed
  <2>2. CASE b = h
    <3>1. /\ i \in DOMAIN rest /\ j \in DOMAIN rest
          /\ u[b][i] = t[h][Shift(i)] /\ u[b][j] = t[h][Shift(j)]
      BY <1>3, <1>5, <2>2
    <3>2. Shift(i) \in DOMAIN t[h] /\ Shift(j) \in DOMAIN t[h] /\ (Shift(i) = Shift(j) => i = j)
      BY <1>6, <3>1
    <3> QED
      BY <1>1, <2>2, <3>1, <3>2 DEF WellHashed
  <2> QED
    BY <2>1, <2>2
<1>8. t[h][x] = Node(k, At(t, k)) /\ t[h][x] \in Nodes(t)
  <2>1. t[h][x] \in NodeType /\ t[h][x].value = At(t, k)
    BY <1>1, <1>2 DEF At
  <2>2. t[h][x] = [key |-> t[h][x].key, value |-> t[h][x].value]
    BY <2>1 DEF NodeType
  <2> QED
    BY <1>1, <2>1, <2>2 DEF Node, Nodes, Range
<1>9. \A n : n \in Nodes(u) <=> n \in Nodes(t) /\ n # t[h][x]
  <2>1. \A s, n : n \in Nodes(s) <=> \E b \in Buckets : \E i \in DOMAIN s[b] : n = s[b][i]
    BY DEF Nodes, Range
  <2>2. ASSUME NEW n \in Nodes(u)
        PROVE  n \in Nodes(t) /\ n # t[h][x]
    <3>1. PICK b \in Buckets : \E i \in DOMAIN u[b] : n = u[b][i]
      BY <2>1
    <3>2. PICK i \in DOMAIN u[b] : n = u[b][i]
      BY <3>1
    <3>3. CASE b # h
      <4>1. n = t[b][i] /\ i \in DOMAIN t[b]
        BY <1>5, <3>2, <3>3
      <4>2. HashCode(n.key) = b /\ HashCode(t[h][x].key) = h
        BY <1>1, <4>1 DEF WellHashed
      <4> QED
        BY <2>1, <3>3, <4>1, <4>2
    <3>4. CASE b = h
      <4>1. i \in DOMAIN rest /\ n = t[h][Shift(i)]
        BY <1>3, <1>5, <3>2, <3>4
      <4>2. Shift(i) \in DOMAIN t[h] /\ Shift(i) # x
        BY <1>6, <4>1
      <4>3. n.key # t[h][x].key
        BY <1>1, <4>1, <4>2 DEF WellHashed
      <4> QED
        BY <1>1, <2>1, <4>1, <4>2, <4>3
    <3> QED
      BY <3>3, <3>4
  <2>3. ASSUME NEW n \in Nodes(t), n # t[h][x]
        PROVE  n \in Nodes(u)
    <3>1. PICK b \in Buckets : \E i \in DOMAIN t[b] : n = t[b][i]
      BY <2>1
    <3>2. PICK i \in DOMAIN t[b] : n = t[b][i]
      BY <3>1
    <3>3. CASE b # h
      BY <1>5, <2>1, <3>2, <3>3
    <3>4. CASE b = h
      <4>1. PICK j \in DOMAIN rest : Shift(j) = i
        BY <1>6, <2>3, <3>2, <3>4
      <4> QED
        BY <1>1, <1>3, <1>5, <2>1, <3>2, <3>4, <4>1
    <3> QED
      BY <3>3, <3>4
  <2> QED
    BY <2>2, <2>3
<1> QED
  BY <1>4, <1>7, <1>8, <1>9

-----------------------------------------------------------------------------
(* References. *)

(* Two sets that differ at most in one element. *)
LEMMA CountChange ==
  ASSUME NEW S, IsFiniteSet(S), NEW A \in SUBSET S, NEW B \in SUBSET S, NEW c,
         A \ {c} = B \ {c}
  PROVE  /\ IsFiniteSet(A) /\ IsFiniteSet(B)
         /\ Cardinality(A) \in Nat /\ Cardinality(B) \in Nat
         /\ Cardinality(B) + One(c \in A) = Cardinality(A) + One(c \in B)
<1>1. IsFiniteSet(A) /\ IsFiniteSet(B)
  BY FS_Subset
<1>2. Cardinality(A) \in Nat /\ Cardinality(B) \in Nat
  BY <1>1, FS_CardinalityType
<1>3. Cardinality(A \ {c}) = IF c \in A THEN Cardinality(A) - 1 ELSE Cardinality(A)
  BY <1>1, FS_RemoveElement
<1>4. Cardinality(B \ {c}) = IF c \in B THEN Cardinality(B) - 1 ELSE Cardinality(B)
  BY <1>1, FS_RemoveElement
<1>5. (c \in A => One(c \in A) = 1) /\ (c \notin A => One(c \in A) = 0)
  BY DEF One
<1>6. (c \in B => One(c \in B) = 1) /\ (c \notin B => One(c \in B) = 0)
  BY DEF One
<1>7. Cardinality(A \ {c}) = Cardinality(B \ {c})
  OBVIOUS
<1>8. Cardinality(B) + One(c \in A) = Cardinality(A) + One(c \in B)
  <2>1. CASE c \in A /\ c \in B
    BY <1>2, <1>3, <1>4, <1>5, <1>6, <1>7, <2>1
  <2>2. CASE c \in A /\ c \notin B
    BY <1>2, <1>3, <1>4, <1>5, <1>6, <1>7, <2>2
  <2>3. CASE c \notin A /\ c \in B
    BY <1>2, <1>3, <1>4, <1>5, <1>6, <1>7, <2>3
  <2>4. CASE c \notin A /\ c \notin B
    BY <1>2, <1>3, <1>4, <1>5, <1>6, <1>7, <2>4
  <2> QED
    BY <2>1, <2>2, <2>3, <2>4
<1> QED
  BY <1>1, <1>2, <1>8

(* HITLS_SESS_Dup adds one reference to a session. *)
LEMMA UpRefCounts ==
  ASSUME NEW h, HeapOK(h), NEW x \in Cells \cup {None}, x # None => h[x].live
  PROVE  /\ HeapOK(UpRef(h, x))
         /\ \A s \in Cells :
              /\ UpRef(h, x)[s].references = h[s].references + One(x = s)
              /\ SameObject(h[s], UpRef(h, x)[s])
<1>1. CASE x = None
  <2>1. UpRef(h, x) = h /\ \A s \in Cells : x # s /\ h[s].references \in Nat
    BY <1>1, SessionAssumption DEF UpRef, HeapOK, Sessions
  <2> QED
    BY <2>1 DEF One, SameObject
<1>2. CASE x # None
  <2>1. UpRef(h, x) = [h EXCEPT ![x].references = @ + 1] /\ x \in Cells
    BY <1>2 DEF UpRef
  <2>2. ASSUME NEW s \in Cells, s # x
        PROVE  UpRef(h, x)[s] = h[s]
    BY <2>1, <2>2 DEF HeapOK
  <2>3. UpRef(h, x)[x] = [h[x] EXCEPT !.references = @ + 1]
    BY <2>1 DEF HeapOK
  <2>4. h[x] \in Sessions /\ h[x].live /\ h[x].references > 0
    BY <1>2, <2>1 DEF HeapOK
  <2>5. /\ UpRef(h, x)[x] \in Sessions /\ UpRef(h, x)[x].live
        /\ UpRef(h, x)[x].references = h[x].references + 1
        /\ SameObject(h[x], UpRef(h, x)[x])
    BY <2>3, <2>4 DEF Sessions, SameObject
  <2>6. UpRef(h, x) \in [Cells -> Sessions]
    BY <2>1, <2>2, <2>5 DEF HeapOK
  <2>7. \A s \in Cells : h[s].references \in Nat
    BY DEF HeapOK, Sessions
  <2>8. \A s \in Cells : UpRef(h, x)[s].live <=> UpRef(h, x)[s].references > 0
    BY <2>2, <2>4, <2>5, <2>7 DEF HeapOK
  <2> QED
    BY <2>2, <2>5, <2>6, <2>7, <2>8 DEF HeapOK, One, SameObject
<1> QED
  BY <1>1, <1>2

(* HITLS_SESS_Free takes one reference away; the last one frees the memory. *)
LEMMA ReleaseCounts ==
  ASSUME NEW h, HeapOK(h), NEW x \in Cells \cup {None}, x # None => h[x].live
  PROVE  /\ HeapOK(Release(h, x))
         /\ \A s \in Cells :
              /\ Release(h, x)[s].references + One(x = s) = h[s].references
              /\ Release(h, x)[s].references > 0 => SameObject(h[s], Release(h, x)[s])
<1>0. \A s \in Cells : h[s] \in Sessions /\ h[s].references \in Nat
  BY DEF HeapOK, Sessions
<1>1. CASE x = None
  BY <1>0, <1>1, SessionAssumption DEF Release, One, SameObject, HeapOK
<1>2. CASE x # None
  <2> DEFINE r == Release(h, x)
  <2>1. x \in Cells /\ h[x].live /\ h[x].references > 0
    BY <1>2 DEF HeapOK
  <2>2. r = [h EXCEPT ![x] = IF h[x].references > 1 THEN [h[x] EXCEPT !.references = @ - 1]
                             ELSE Freed]
    BY <1>2, <2>1 DEF Release, HeapOK
  <2>3. r[x] = IF h[x].references > 1 THEN [h[x] EXCEPT !.references = @ - 1] ELSE Freed
    BY <2>1, <2>2 DEF HeapOK
  <2>4. \A s \in Cells : s # x => r[s] = h[s]
    BY <2>2 DEF HeapOK
  <2>5. /\ r[x] \in Sessions /\ r[x].references = h[x].references - 1
        /\ r[x].live <=> r[x].references > 0
        /\ r[x].references > 0 => SameObject(h[x], r[x])
    <3>1. CASE h[x].references > 1
      BY <1>0, <2>1, <2>3, <3>1 DEF Sessions, SameObject
    <3>2. CASE ~(h[x].references > 1)
      <4>1. h[x].references = 1 /\ r[x] = Freed
        BY <1>0, <2>1, <2>3, <3>2
      <4> QED
        BY <4>1 DEF Freed, Sessions
    <3> QED
      BY <3>1, <3>2
  <2>6. r \in [Cells -> Sessions]
    BY <2>2, <2>4, <2>5 DEF HeapOK
  <2> HIDE DEF r
  <2>7. \A s \in Cells : r[s].live <=> r[s].references > 0
    BY <2>4, <2>5 DEF HeapOK
  <2>8. \A s \in Cells : r[s].references + One(x = s) = h[s].references
    BY <1>0, <2>4, <2>5, <2>1 DEF One
  <2>9. \A s \in Cells : r[s].references > 0 => SameObject(h[s], r[s])
    BY <2>4, <2>5 DEF SameObject
  <2> QED
    BY <2>6, <2>7, <2>8, <2>9 DEF HeapOK, r
<1> QED
  BY <1>1, <1>2

(* SESS_Disable leaves the references alone. *)
LEMMA DisableCounts ==
  ASSUME NEW h, HeapOK(h), NEW x \in Cells \cup {None}
  PROVE  /\ HeapOK(Disable(h, x))
         /\ \A s \in Cells :
              /\ Disable(h, x)[s].references = h[s].references
              /\ SameObject(h[s], Disable(h, x)[s])
<1>1. CASE x = None
  BY <1>1 DEF Disable, SameObject, HeapOK
<1>2. CASE x # None
  <2>1. Disable(h, x) = [h EXCEPT ![x].enable = FALSE] /\ x \in Cells
    BY <1>2 DEF Disable
  <2>2. \A s \in Cells : s # x => Disable(h, x)[s] = h[s]
    BY <2>1 DEF HeapOK
  <2>3. Disable(h, x)[x] = [h[x] EXCEPT !.enable = FALSE] /\ h[x] \in Sessions
    BY <2>1 DEF HeapOK
  <2>4. /\ Disable(h, x)[x] \in Sessions
        /\ Disable(h, x)[x].references = h[x].references
        /\ Disable(h, x)[x].live = h[x].live
        /\ SameObject(h[x], Disable(h, x)[x])
    BY <2>3 DEF Sessions, SameObject
  <2>5. Disable(h, x) \in [Cells -> Sessions]
    BY <2>1, <2>2, <2>4 DEF HeapOK
  <2> QED
    BY <2>2, <2>4, <2>5 DEF HeapOK, SameObject
<1> QED
  BY <1>1, <1>2

(* HITLS_SESS_New fills memory that nobody uses with a session. *)
LEMMA PutCounts ==
  ASSUME NEW h, HeapOK(h), NEW x \in Cells, ~h[x].live,
         NEW y \in Sessions, y.live, y.references = 1
  PROVE  /\ HeapOK(Put(h, x, y)) /\ Put(h, x, y)[x] = y /\ h[x].references = 0
         /\ \A s \in Cells : s # x => Put(h, x, y)[s] = h[s]
         /\ \A s \in Cells : Put(h, x, y)[s].references = h[s].references + One(x = s)
<1> DEFINE g == Put(h, x, y)
<1>1. g \in [Cells -> Sessions] /\ g[x] = y /\ \A s \in Cells : s # x => g[s] = h[s]
  BY DEF HeapOK, Put
<1>2. h[x].references = 0 /\ \A s \in Cells : h[s].references \in Nat
  BY DEF HeapOK, Sessions
<1> HIDE DEF g
<1>3. ASSUME NEW s \in Cells
      PROVE  /\ g[s].live <=> g[s].references > 0
             /\ g[s].references = h[s].references + One(x = s)
  <2>1. CASE s = x
    BY <1>1, <1>2, <2>1 DEF One
  <2>2. CASE s # x
    BY <1>1, <1>2, <2>2 DEF One, HeapOK
  <2> QED
    BY <2>1, <2>2
<1>4. HeapOK(g)
  BY <1>1, <1>3 DEF HeapOK
<1> QED
  BY <1>1, <1>2, <1>3, <1>4 DEF g

(* The counts are natural numbers. *)
LEMMA CountTypes ==
  ASSUME CacheInv
  PROVE  /\ \A s : Cardinality(ConnsOf(s)) \in Nat /\ Cardinality(NodesOf(s)) \in Nat
         /\ \A s : IsFiniteSet(ConnsOf(s)) /\ IsFiniteSet(NodesOf(s))
         /\ Cardinality(Configured) \in Nat
<1>1. IsFiniteSet(Conns) /\ IsFiniteSet(Nodes(table))
  BY SessionAssumption DEF CacheInv, TableInv
<1>2. ASSUME NEW s
      PROVE  /\ IsFiniteSet(ConnsOf(s)) /\ IsFiniteSet(NodesOf(s))
             /\ Cardinality(ConnsOf(s)) \in Nat /\ Cardinality(NodesOf(s)) \in Nat
  <2>1. ConnsOf(s) \in SUBSET Conns /\ NodesOf(s) \in SUBSET Nodes(table)
    BY DEF ConnsOf, NodesOf
  <2>2. IsFiniteSet(ConnsOf(s)) /\ IsFiniteSet(NodesOf(s))
    BY <1>1, <2>1, FS_Subset
  <2> QED
    BY <2>2, FS_CardinalityType
<1>3. Configured \in SUBSET Conns
  BY DEF Configured
<1>4. Cardinality(Configured) \in Nat
  BY <1>1, <1>3, FS_Subset, FS_CardinalityType
<1> QED
  BY <1>2, <1>4

(* What a holder holds is there: the reference it has keeps it alive. *)
LEMMA HeldIsLive ==
  ASSUME CacheInv
  PROVE  /\ \A c \in Conns : conn[c].session # None =>
              conn[c].session \in Cells /\ heap[conn[c].session].live
         /\ \A n \in Nodes(table) : n.value \in Cells /\ n.key \in Keys /\ heap[n.value].live
         /\ \A s \in Cells : kept[s] > 0 => heap[s].live
<1>1. HeapOK(heap) /\ \A s \in Cells :
        heap[s].references = Cardinality(ConnsOf(s)) + Cardinality(NodesOf(s)) + kept[s]
  BY DEF CacheInv, RefInv
<1>2. /\ \A s : Cardinality(ConnsOf(s)) \in Nat /\ Cardinality(NodesOf(s)) \in Nat
      /\ \A s : IsFiniteSet(ConnsOf(s)) /\ IsFiniteSet(NodesOf(s))
      /\ \A s \in Cells : kept[s] \in Nat
  BY CountTypes DEF CacheInv, TypeOK
<1>3. ASSUME NEW c \in Conns, conn[c].session # None
      PROVE  conn[c].session \in Cells /\ heap[conn[c].session].live
  <2> DEFINE s == conn[c].session
  <2>1. s \in Cells
    BY <1>3 DEF CacheInv, TypeOK, Connections
  <2>2. ConnsOf(s) # {}
    BY DEF ConnsOf
  <2>3. Cardinality(ConnsOf(s)) > 0
    BY <1>2, <2>2, FS_EmptySet
  <2> HIDE DEF s
  <2>4. heap[s].references > 0
    BY <1>1, <1>2, <2>1, <2>3
  <2> QED
    BY <1>1, <2>1, <2>4 DEF HeapOK, s
<1>4. ASSUME NEW n \in Nodes(table)
      PROVE  n.value \in Cells /\ n.key \in Keys /\ heap[n.value].live
  <2>1. n.value \in Cells /\ n.key \in Keys
    BY NodesFound DEF CacheInv, TableInv, NodeType
  <2>2. NodesOf(n.value) # {}
    BY DEF NodesOf
  <2>3. Cardinality(NodesOf(n.value)) > 0
    BY <1>2, <2>2, FS_EmptySet
  <2>4. heap[n.value].references > 0
    BY <1>1, <1>2, <2>1, <2>3
  <2> QED
    BY <1>1, <2>1, <2>4 DEF HeapOK
<1>5. ASSUME NEW s \in Cells, kept[s] > 0
      PROVE  heap[s].live
  <2>1. heap[s].references > 0
    BY <1>1, <1>2, <1>5
  <2> QED
    BY <1>1, <2>1 DEF HeapOK
<1> QED
  BY <1>3, <1>4, <1>5

(* After such a step the references are exact, and what others hold is what *)
(* it was.                                                                  *)
LEMMA ReferencesMove ==
  ASSUME CacheInv, NEW c, ConnMove(c)
  PROVE  /\ \A s \in Cells :
              heap'[s].references
                = Cardinality(ConnsOf(s)') + Cardinality(NodesOf(s)') + kept'[s]
         /\ \A n \in Nodes(table) : SameObject(heap[n.value], heap'[n.value])
         /\ \A d \in Conns \ {c} : conn[d].session # None =>
              SameObject(heap[conn[d].session], heap'[conn[d].session])
<1>0. /\ conn' \in [Conns -> Connections] /\ kept' \in [Cells -> Nat] /\ HeapOK(heap')
      /\ table' = table
      /\ \A d \in Conns \ {c} : conn'[d] = conn[d]
      /\ \A s \in Cells :
           heap'[s].references + One(HasSession(c, s)) + kept[s]
             = heap[s].references + One(HasSession(c, s)') + kept'[s]
      /\ \A s \in Cells : heap'[s].references > 0 =>
           SameObject(heap[s], heap'[s]) \/ heap[s].references <= One(HasSession(c, s))
  BY DEF ConnMove
<1>1. \A s \in Cells :
        /\ heap[s].references = Cardinality(ConnsOf(s)) + Cardinality(NodesOf(s)) + kept[s]
        /\ heap[s].references \in Nat /\ heap'[s].references \in Nat
        /\ kept[s] \in Nat /\ kept'[s] \in Nat
  BY <1>0 DEF CacheInv, RefInv, HeapOK, Sessions, TypeOK
<1>2. ASSUME NEW s \in Cells
      PROVE  /\ Cardinality(ConnsOf(s)) \in Nat /\ Cardinality(ConnsOf(s)') \in Nat
             /\ Cardinality(ConnsOf(s)') + One(HasSession(c, s))
                  = Cardinality(ConnsOf(s)) + One(HasSession(c, s)')
             /\ One(HasSession(c, s)) \in {0, 1} /\ One(HasSession(c, s)') \in {0, 1}
  <2> DEFINE A == ConnsOf(s)
             B == ConnsOf(s)'
  <2>1. A \in SUBSET Conns /\ B \in SUBSET Conns /\ A \ {c} = B \ {c}
    BY <1>0 DEF ConnsOf
  <2>2. (HasSession(c, s) <=> c \in A) /\ (HasSession(c, s)' <=> c \in B)
    BY DEF ConnsOf, HasSession
  <2> HIDE DEF A, B
  <2>3. /\ Cardinality(A) \in Nat /\ Cardinality(B) \in Nat
        /\ Cardinality(B) + One(c \in A) = Cardinality(A) + One(c \in B)
    BY <2>1, CountChange, SessionAssumption
  <2>4. One(HasSession(c, s)) = One(c \in A) /\ One(HasSession(c, s)') = One(c \in B)
    BY <2>2 DEF One
  <2>5. One(HasSession(c, s)) \in {0, 1} /\ One(HasSession(c, s)') \in {0, 1}
    BY DEF One
  <2> QED
    BY <2>3, <2>4, <2>5 DEF A, B
<1>3. \A s : NodesOf(s)' = NodesOf(s) /\ Cardinality(NodesOf(s)) \in Nat /\ IsFiniteSet(NodesOf(s))
  BY <1>0, CountTypes DEF NodesOf
<1>4. ASSUME NEW s \in Cells
      PROVE  heap'[s].references
               = Cardinality(ConnsOf(s)') + Cardinality(NodesOf(s)') + kept'[s]
  <2>1. heap'[s].references + One(HasSession(c, s)) + kept[s]
          = heap[s].references + One(HasSession(c, s)') + kept'[s]
    BY <1>0
  <2>2. Cardinality(NodesOf(s)') = Cardinality(NodesOf(s)) /\ Cardinality(NodesOf(s)) \in Nat
    BY <1>3
  <2>3. One(HasSession(c, s)) \in Nat /\ One(HasSession(c, s)') \in Nat
    BY <1>2
  <2> QED
    BY <1>1, <1>2, <2>1, <2>2, <2>3
<1>5. ASSUME NEW s \in Cells, Cardinality(NodesOf(s)) > 0
      PROVE  SameObject(heap[s], heap'[s])
  <2>1. heap'[s].references > 0
    BY <1>1, <1>2, <1>3, <1>4, <1>5
  <2>2. c \in ConnsOf(s) => Cardinality(ConnsOf(s)) > 0
    BY CountTypes, FS_EmptySet
  <2>3. One(HasSession(c, s)) <= Cardinality(ConnsOf(s))
    <3>1. CASE HasSession(c, s)
      <4>1. One(HasSession(c, s)) = 1 /\ Cardinality(ConnsOf(s)) \in Nat
        BY <1>2, <3>1 DEF One
      <4>2. c \in ConnsOf(s)
        BY <3>1 DEF HasSession, ConnsOf
      <4> QED
        BY <2>2, <4>1, <4>2
    <3>2. CASE ~HasSession(c, s)
      <4>1. One(HasSession(c, s)) = 0 /\ Cardinality(ConnsOf(s)) \in Nat
        BY <1>2, <3>2 DEF One
      <4> QED
        BY <4>1
    <3> QED
      BY <3>1, <3>2
  <2>4. heap[s].references > One(HasSession(c, s))
    BY <1>1, <1>2, <1>3, <1>5, <2>3
  <2> QED
    BY <1>0, <1>1, <1>2, <2>1, <2>4
<1>6. ASSUME NEW n \in Nodes(table)
      PROVE  SameObject(heap[n.value], heap'[n.value])
  <2>1. n.value \in Cells /\ n \in NodesOf(n.value)
    BY HeldIsLive DEF NodesOf
  <2>2. Cardinality(NodesOf(n.value)) > 0
    BY <1>3, <2>1, FS_EmptySet
  <2> QED
    BY <1>5, <2>1, <2>2
<1>7. ASSUME NEW d \in Conns \ {c}, conn[d].session # None
      PROVE  SameObject(heap[conn[d].session], heap'[conn[d].session])
  <2>0. PICK s \in Cells : s = conn[d].session
    BY <1>7, HeldIsLive
  <2>1. d \in ConnsOf(s) /\ d \in ConnsOf(s)'
    BY <1>0, <2>0 DEF ConnsOf
  <2>2. IsFiniteSet(ConnsOf(s)') /\ IsFiniteSet(ConnsOf(s))
    <3>1. ConnsOf(s)' \in SUBSET Conns
      BY DEF ConnsOf
    <3> QED
      BY <3>1, CountTypes, FS_Subset, SessionAssumption
  <2>3. heap'[s].references > 0
    <3>1. ConnsOf(s)' # {}
      BY <2>1
    <3>2. Cardinality(ConnsOf(s)') # 0
      BY <2>2, <3>1, FS_EmptySet
    <3>3. Cardinality(NodesOf(s)') \in Nat
      BY <1>3
    <3> QED
      BY <1>1, <1>2, <1>4, <3>2, <3>3
  <2>4. One(HasSession(c, s)) < Cardinality(ConnsOf(s))
    <3>1. CASE HasSession(c, s)
      <4>1. Cardinality(ConnsOf(s) \ {c}) = Cardinality(ConnsOf(s)) - 1
        BY <2>2, <3>1, FS_RemoveElement DEF HasSession, ConnsOf
      <4>2. IsFiniteSet(ConnsOf(s) \ {c}) /\ d \in ConnsOf(s) \ {c}
        BY <2>1, <2>2, FS_RemoveElement
      <4>3. Cardinality(ConnsOf(s) \ {c}) # 0 /\ Cardinality(ConnsOf(s) \ {c}) \in Nat
        BY <4>2, FS_EmptySet, FS_CardinalityType
      <4> QED
        BY <1>2, <2>1, <3>1, <4>1, <4>3 DEF One
    <3>2. CASE ~HasSession(c, s)
      <4>1. Cardinality(ConnsOf(s)) # 0
        BY <2>1, <2>2, FS_EmptySet
      <4> QED
        BY <1>2, <2>1, <3>2, <4>1 DEF One
    <3> QED
      BY <3>1, <3>2
  <2>5. heap[s].references > One(HasSession(c, s))
    BY <1>1, <1>2, <1>3, <2>1, <2>4
  <2> QED
    BY <1>0, <1>1, <1>2, <2>0, <2>3, <2>5
<1> QED
  BY <1>4, <1>6, <1>7

(* A step of this kind keeps the invariant. *)
LEMMA ConnMoveKeeps ==
  ASSUME CacheInv, TypeOK', NEW c, ConnMove(c)
  PROVE  CacheInv'
<1>1. /\ \A s \in Cells :
           heap'[s].references
             = Cardinality(ConnsOf(s)') + Cardinality(NodesOf(s)') + kept'[s]
      /\ \A n \in Nodes(table) : SameObject(heap[n.value], heap'[n.value])
      /\ \A d \in Conns \ {c} : conn[d].session # None =>
           SameObject(heap[conn[d].session], heap'[conn[d].session])
  BY ReferencesMove
<1>2. RefInv'
  <2>1. mgr'.references = Cardinality(Configured') + One(owned)
    <3> DEFINE A == Configured
               B == Configured'
    <3>1. A \in SUBSET Conns /\ B \in SUBSET Conns /\ A \ {c} = B \ {c}
      BY DEF Configured, ConnMove
    <3>2. (HasConfig(c) <=> c \in A) /\ (HasConfig(c)' <=> c \in B)
      BY DEF Configured, HasConfig
    <3>3. mgr.references = Cardinality(A) + One(owned)
      BY DEF CacheInv, RefInv
    <3> HIDE DEF A, B
    <3>4. /\ Cardinality(A) \in Nat /\ Cardinality(B) \in Nat
          /\ Cardinality(B) + One(c \in A) = Cardinality(A) + One(c \in B)
      BY <3>1, CountChange, SessionAssumption
    <3>5. One(HasConfig(c)) = One(c \in A) /\ One(HasConfig(c)') = One(c \in B)
      BY <3>2 DEF One
    <3>6. One(owned) \in {0, 1} /\ One(c \in A) \in {0, 1} /\ One(c \in B) \in {0, 1}
      BY DEF One
    <3>7. mgr.references \in Nat /\ mgr'.references \in Nat
      BY DEF CacheInv, TypeOK
    <3>8. mgr'.references + One(c \in A) = mgr.references + One(c \in B)
      BY <3>5 DEF ConnMove
    <3>9. mgr'.references = Cardinality(B) + One(owned)
      BY <3>3, <3>4, <3>6, <3>7, <3>8
    <3> QED
      BY <3>9 DEF B
  <2>2. ~MgrAlive' => Nodes(table) = {}
    <3>1. mgr.references \in Nat /\ mgr'.references \in Nat /\ mgr.references <= mgr'.references
      BY DEF CacheInv, TypeOK, ConnMove
    <3> QED
      BY <3>1 DEF CacheInv, RefInv, MgrAlive
  <2>3. HeapOK(heap') /\ table' = table /\ owned' = owned
    BY DEF ConnMove
  <2> QED
    BY <1>1, <2>1, <2>2, <2>3 DEF RefInv
<1>3. TableInv'
  BY <1>1 DEF TableInv, CacheInv, ConnMove, SameObject
<1>4. ASSUME NEW d \in Conns
      PROVE  ConnOK(d)'
  <2>1. CASE d = c
    BY <2>1 DEF ConnMove
  <2>2. CASE d # c
    <3>1. ConnOK(d) /\ conn'[d] = conn[d] /\ clock <= clock' /\ (writer' = d <=> writer = d) /\ table' = table
      BY <2>2 DEF CacheInv, ConnInv, ConnMove
    <3>2. conn[d].curTime \in Nat /\ clock \in Nat /\ clock' \in Nat
      BY DEF CacheInv, TypeOK, Connections
    <3>3. conn[d].session # None => heap'[conn[d].session].id = heap[conn[d].session].id
      BY <1>1, <2>2 DEF SameObject
    <3> QED
      BY <3>1, <3>2, <3>3 DEF ConnOK
  <2> QED
    BY <2>1, <2>2
<1> QED
  BY <1>2, <1>3, <1>4 DEF CacheInv, ConnInv

-----------------------------------------------------------------------------
(* The steps that leave the table alone. *)

(* Connection c is updated to r and nothing else happens to connections. *)
LEMMA ConnUpdate ==
  ASSUME TypeOK, NEW c \in Conns, NEW r \in Connections, conn' = [conn EXCEPT ![c] = r]
  PROVE  /\ conn' \in [Conns -> Connections]
         /\ conn'[c] = r
         /\ \A d \in Conns \ {c} : conn'[d] = conn[d]
BY DEF TypeOK

(* What a step of connection c does when it leaves its session alone. *)
LEMMA SameReferences ==
  ASSUME CacheInv, NEW c \in Conns, heap' = heap, kept' = kept,
         conn'[c].session = conn[c].session
  PROVE  /\ HeapOK(heap')
         /\ \A s \in Cells :
              heap'[s].references + One(HasSession(c, s)) + kept[s]
                = heap[s].references + One(HasSession(c, s)') + kept'[s]
         /\ \A s \in Cells : SameObject(heap[s], heap'[s])
<1>1. \A s \in Cells : HasSession(c, s)' <=> HasSession(c, s)
  BY DEF HasSession
<1>2. \A s \in Cells : One(HasSession(c, s)') = One(HasSession(c, s))
  BY <1>1 DEF One
<1> QED
  BY <1>2 DEF CacheInv, RefInv, SameObject

(* HITLS_New. *)
LEMMA HITLS_NewKeeps ==
  ASSUME CacheInv, NEW c \in Conns, HITLS_New(c)
  PROVE  CacheInv'
<1> DEFINE r == [conn[c] EXCEPT !.pc = "idle"]
<1>1. conn[c] \in Connections /\ TypeOK
  BY DEF CacheInv, TypeOK
<1>2. r \in Connections
  BY <1>1 DEF Connections, Points
<1>3. conn' = [conn EXCEPT ![c] = r]
  BY <1>1 DEF HITLS_New, Move, TypeOK
<1>4. conn' \in [Conns -> Connections] /\ conn'[c] = r /\ \A d \in Conns \ {c} : conn'[d] = conn[d]
  BY <1>1, <1>2, <1>3, ConnUpdate
<1>5. TypeOK'
  <2>1. mgr' \in [mode : CacheModes, size : Nat, timeout : Nat, references : Nat]
    <3>1. /\ mgr \in [mode : CacheModes, size : Nat, timeout : Nat, references : Nat]
          /\ mgr' = [mgr EXCEPT !.references = @ + 1]
      BY <1>1 DEF HITLS_New, TypeOK
    <3> QED
      BY <3>1
  <2>2. UNCHANGED <<role, heap, table, hashCount, writer, clock, kept, hellos, settings, owned, doomed, corrupted>>
    BY DEF HITLS_New
  <2> QED
    BY <1>1, <1>4, <2>1, <2>2 DEF TypeOK
<1>6. ConnOK(c)'
  BY <1>1, <1>4 DEF HITLS_New, CacheInv, ConnInv, ConnOK, Connections
<1>7. /\ HeapOK(heap')
      /\ \A s \in Cells :
           heap'[s].references + One(HasSession(c, s)) + kept[s]
             = heap[s].references + One(HasSession(c, s)') + kept'[s]
      /\ \A s \in Cells : SameObject(heap[s], heap'[s])
  BY <1>1, <1>4, SameReferences DEF HITLS_New, Connections
<1>8. mgr'.references + One(HasConfig(c)) = mgr.references + One(HasConfig(c)')
      /\ mgr.references <= mgr'.references
  <2>1. mgr'.references = mgr.references + 1 /\ mgr.references \in Nat
    BY <1>1 DEF HITLS_New, TypeOK
  <2>2. One(HasConfig(c)) = 0
    BY DEF HITLS_New, HasConfig, One
  <2>3. One(HasConfig(c)') = 1
    BY <1>1, <1>4 DEF HasConfig, One, Connections
  <2> QED
    BY <2>1, <2>2, <2>3
<1>9. ConnMove(c)
  BY <1>1, <1>4, <1>6, <1>7, <1>8 DEF HITLS_New, ConnMove, TypeOK
<1> QED
  BY <1>5, <1>9, ConnMoveKeeps

(* A step of a connection that has a configuration: connection c becomes r. *)
LEMMA StepOfConn ==
  ASSUME CacheInv, NEW c \in Conns, NEW r \in Connections, conn' = [conn EXCEPT ![c] = r],
         conn[c].pc \notin {"none", "gone"}, r.pc \notin {"none", "gone"},
         Aside(c),
         kept' \in [Cells -> Nat], HeapOK(heap'),
         \A s \in Cells :
           heap'[s].references + One(conn[c].session = s) + kept[s]
             = heap[s].references + One(r.session = s) + kept'[s],
         \A s \in Cells : heap'[s].references > 0 =>
           SameObject(heap[s], heap'[s]) \/ heap[s].references <= One(conn[c].session = s),
         ConnOK(c)'
  PROVE  CacheInv'
<1>1. TypeOK
  BY DEF CacheInv
<1>2. conn' \in [Conns -> Connections] /\ conn'[c] = r /\ \A d \in Conns \ {c} : conn'[d] = conn[d]
  BY <1>1, ConnUpdate
<1>3. TypeOK'
  BY <1>1, <1>2 DEF TypeOK, HeapOK, Aside
<1>4. \A s : /\ One(HasSession(c, s)) = One(conn[c].session = s)
             /\ One(HasSession(c, s)') = One(r.session = s)
  BY <1>2 DEF HasSession
<1>5. One(HasConfig(c)) = 1 /\ One(HasConfig(c)') = 1
  BY <1>2 DEF HasConfig, One
<1>6. mgr' = mgr /\ mgr.references \in Nat /\ clock' = clock /\ clock \in Nat
  BY <1>1 DEF TypeOK, Aside
<1>7. ConnMove(c)
  BY <1>2, <1>4, <1>5, <1>6 DEF ConnMove, Aside
<1> QED
  BY <1>3, <1>7, ConnMoveKeeps

(* The same of a step that leaves the references alone. *)
LEMMA PlainStepOfConn ==
  ASSUME CacheInv, NEW c \in Conns, NEW r \in Connections, conn' = [conn EXCEPT ![c] = r],
         conn[c].pc \notin {"none", "gone"}, r.pc \notin {"none", "gone"},
         r.session = conn[c].session,
         heap' = heap, kept' = kept, Aside(c),
         ConnOK(c)'
  PROVE  CacheInv'
<1>1. HeapOK(heap') /\ kept' \in [Cells -> Nat] /\ \A s \in Cells : SameObject(heap[s], heap'[s])
  BY DEF CacheInv, TypeOK, RefInv, SameObject
<1>2. \A s \in Cells :
        heap'[s].references + One(conn[c].session = s) + kept[s]
          = heap[s].references + One(r.session = s) + kept'[s]
  OBVIOUS
<1> QED
  BY <1>1, <1>2, StepOfConn

(* A holder's reference is one of those that are counted. *)
LEMMA ReferencesAtLeast ==
  ASSUME CacheInv, NEW c \in Conns, NEW s \in Cells
  PROVE  /\ heap[s].references \in Nat /\ kept[s] \in Nat
         /\ One(conn[c].session = s) + kept[s] <= heap[s].references
<1>1. /\ heap[s].references = Cardinality(ConnsOf(s)) + Cardinality(NodesOf(s)) + kept[s]
      /\ heap[s].references \in Nat /\ kept[s] \in Nat
  BY DEF CacheInv, RefInv, TypeOK, HeapOK, Sessions
<1>2. /\ Cardinality(ConnsOf(s)) \in Nat /\ Cardinality(NodesOf(s)) \in Nat
      /\ IsFiniteSet(ConnsOf(s))
  BY CountTypes
<1>3. One(conn[c].session = s) <= Cardinality(ConnsOf(s))
  <2>1. CASE conn[c].session = s
    <3>1. ConnsOf(s) # {} /\ One(conn[c].session = s) = 1
      BY <2>1 DEF ConnsOf, One
    <3> QED
      BY <1>2, <3>1, FS_EmptySet
  <2>2. CASE conn[c].session # s
    <3>1. One(conn[c].session = s) = 0
      BY <2>2 DEF One
    <3> QED
      BY <1>2, <3>1
  <2> QED
    BY <2>1, <2>2
<1>4. One(conn[c].session = s) \in {0, 1}
  BY DEF One
<1> QED
  BY <1>1, <1>2, <1>3, <1>4

(* HITLS_SetSession. *)
LEMMA HITLS_SetSessionKeeps ==
  ASSUME CacheInv, NEW c \in Conns, NEW x \in Cells, HITLS_SetSession(c, x)
  PROVE  CacheInv'
<1> DEFINE r == [conn[c] EXCEPT !.session = x]
           old == conn[c].session
           dropped == Release(heap, old)
<1>1. conn[c] \in Connections /\ TypeOK /\ HeapOK(heap)
  BY DEF CacheInv, TypeOK, RefInv
<1>2. r \in Connections /\ r.session = x /\ r.pc = conn[c].pc
  BY <1>1 DEF Connections
<1>3. conn' = [conn EXCEPT ![c] = r]
  BY <1>1 DEF HITLS_SetSession, TypeOK
<1>4. old \in Cells \cup {None} /\ (old # None => heap[old].live)
  BY <1>1, HeldIsLive DEF Connections
<1>5. /\ HeapOK(dropped)
      /\ \A s \in Cells :
           /\ dropped[s].references + One(old = s) = heap[s].references
           /\ dropped[s].references > 0 => SameObject(heap[s], dropped[s])
  BY <1>1, <1>4, ReleaseCounts
<1> HIDE DEF dropped, r
<1>6. \A s \in Cells : dropped[s].references \in Nat /\ One(old = s) \in {0, 1} /\ One(x = s) \in {0, 1}
  BY <1>5 DEF HeapOK, Sessions, One
<1>7. dropped[x].live
  <2>1. dropped[x].references > 0
    BY <1>5, <1>6, ReferencesAtLeast DEF HITLS_SetSession
  <2> QED
    BY <1>5, <2>1 DEF HeapOK
<1>8. heap' = UpRef(dropped, x)
  BY DEF HITLS_SetSession, dropped
<1>9. /\ HeapOK(heap')
      /\ \A s \in Cells :
           /\ heap'[s].references = dropped[s].references + One(x = s)
           /\ SameObject(dropped[s], heap'[s])
  BY <1>5, <1>7, <1>8, UpRefCounts
<1>10. \A s \in Cells :
         heap'[s].references + One(old = s) + kept[s]
           = heap[s].references + One(r.session = s) + kept'[s]
  BY <1>2, <1>5, <1>6, <1>9, ReferencesAtLeast DEF HITLS_SetSession
<1>11. \A s \in Cells : heap'[s].references > 0 => SameObject(heap[s], heap'[s])
  <2> SUFFICES ASSUME NEW s \in Cells, heap'[s].references > 0
               PROVE  SameObject(heap[s], heap'[s])
    OBVIOUS
  <2>1. dropped[s].references > 0
    <3>1. CASE s = x
      BY <1>5, <1>7, <3>1 DEF HeapOK
    <3>2. CASE s # x
      BY <1>6, <1>9, <3>2 DEF One
    <3> QED
      BY <3>1, <3>2
  <2> QED
    BY <1>5, <1>9, <2>1 DEF SameObject
<1>12. ConnOK(c)'
  <2>1. conn'[c] = r /\ ConnOK(c)
    BY <1>1, <1>3 DEF CacheInv, ConnInv, TypeOK
  <2> QED
    BY <1>1, <2>1 DEF HITLS_SetSession, ConnOK, r, Connections
<1>13. Aside(c)
  BY <1>1 DEF HITLS_SetSession, Aside, TypeOK
<1>14. r.pc \notin {"none", "gone"} /\ conn[c].pc \notin {"none", "gone"} /\ kept' \in [Cells -> Nat]
  BY <1>1, <1>2 DEF HITLS_SetSession, TypeOK
<1> QED
  BY <1>2, <1>3, <1>9, <1>10, <1>11, <1>12, <1>13, <1>14, StepOfConn

(* HITLS_GetDupSession. *)
LEMMA HITLS_GetDupSessionKeeps ==
  ASSUME CacheInv, NEW c \in Conns, HITLS_GetDupSession(c)
  PROVE  CacheInv'
<1> DEFINE x == conn[c].session
<1>1. conn[c] \in Connections /\ TypeOK /\ HeapOK(heap) /\ ConnOK(c)
  BY DEF CacheInv, TypeOK, RefInv, ConnInv
<1>2. x \in Cells /\ heap[x].live
  BY HeldIsLive DEF HITLS_GetDupSession
<1>3. heap' = UpRef(heap, x) /\ kept' = [kept EXCEPT ![x] = @ + 1]
  BY DEF HITLS_GetDupSession
<1>4. /\ HeapOK(heap')
      /\ \A s \in Cells :
           /\ heap'[s].references = heap[s].references + One(x = s)
           /\ SameObject(heap[s], heap'[s])
  BY <1>1, <1>2, <1>3, UpRefCounts
<1>5. kept \in [Cells -> Nat] /\ kept' \in [Cells -> Nat]
  BY <1>1, <1>2, <1>3 DEF TypeOK
<1>6. ASSUME NEW s \in Cells
      PROVE  heap'[s].references + One(x = s) + kept[s]
               = heap[s].references + One(x = s) + kept'[s]
  <2>1. kept'[s] = kept[s] + One(x = s)
    BY <1>2, <1>3, <1>5 DEF One
  <2>2. heap[s].references \in Nat /\ One(x = s) \in Nat /\ kept[s] \in Nat
    BY <1>1, <1>5 DEF HeapOK, Sessions, One
  <2> QED
    BY <1>4, <2>1, <2>2
<1>7. ConnOK(c)'
  BY <1>1, <1>2, <1>4 DEF HITLS_GetDupSession, ConnOK, SameObject
<1>8. Aside(c)
  BY <1>1 DEF HITLS_GetDupSession, Aside, TypeOK
<1>9. conn' = [conn EXCEPT ![c] = conn[c]] /\ conn[c].pc \notin {"none", "gone"}
  BY <1>1 DEF HITLS_GetDupSession, TypeOK
<1> QED
  BY <1>1, <1>4, <1>5, <1>6, <1>7, <1>8, <1>9, StepOfConn

(* A fatal alert disables the session; nothing else of it changes. *)
LEMMA DisablingStep ==
  ASSUME CacheInv, NEW c \in Conns, NEW r \in Connections, conn' = [conn EXCEPT ![c] = r],
         conn[c].pc \notin {"none", "gone"}, r.pc \notin {"none", "gone"},
         r.session = conn[c].session, heap' = Disable(heap, conn[c].session), kept' = kept,
         Aside(c), ConnOK(c)'
  PROVE  CacheInv'
<1>1. conn[c] \in Connections /\ HeapOK(heap) /\ kept \in [Cells -> Nat]
  BY DEF CacheInv, TypeOK, RefInv
<1>2. /\ HeapOK(heap')
      /\ \A s \in Cells :
           /\ heap'[s].references = heap[s].references
           /\ SameObject(heap[s], heap'[s])
  BY SMTT(30), <1>1, DisableCounts DEF Connections
<1>3. \A s \in Cells :
        heap'[s].references + One(conn[c].session = s) + kept[s]
          = heap[s].references + One(r.session = s) + kept'[s]
  BY <1>2
<1> QED
  BY <1>1, <1>2, <1>3, StepOfConn

(* The connection lets go of its session. *)
LEMMA ReleasingStep ==
  ASSUME CacheInv, NEW c \in Conns, NEW r \in Connections, conn' = [conn EXCEPT ![c] = r],
         conn[c].pc \notin {"none", "gone"}, r.pc \notin {"none", "gone"},
         r.session = None, heap' = Release(heap, conn[c].session), kept' = kept,
         Aside(c), ConnOK(c)'
  PROVE  CacheInv'
<1> DEFINE old == conn[c].session
<1>1. conn[c] \in Connections /\ HeapOK(heap) /\ kept \in [Cells -> Nat]
  BY DEF CacheInv, TypeOK, RefInv
<1>2. old \in Cells \cup {None} /\ (old # None => heap[old].live)
  BY <1>1, HeldIsLive DEF Connections
<1>3. /\ HeapOK(heap')
      /\ \A s \in Cells :
           /\ heap'[s].references + One(old = s) = heap[s].references
           /\ heap'[s].references > 0 => SameObject(heap[s], heap'[s])
  BY <1>1, <1>2, ReleaseCounts
<1>4. ASSUME NEW s \in Cells
      PROVE  heap'[s].references + One(old = s) + kept[s]
               = heap[s].references + One(r.session = s) + kept'[s]
  <2>1. One(r.session = s) = 0
    BY SessionAssumption DEF One
  <2>2. heap'[s].references \in Nat /\ heap[s].references \in Nat /\ kept[s] \in Nat
    BY <1>1, <1>3 DEF HeapOK, Sessions
  <2> QED
    BY <1>3, <2>1, <2>2
<1> QED
  BY <1>1, <1>3, <1>4, StepOfConn

(* A new session, in memory that nobody uses, before the connection lets go *)
(* of the one it has.                                                       *)
LEMMA SwapCounts ==
  ASSUME CacheInv, NEW c \in Conns, NEW x \in FreeCells(heap),
         NEW y \in Sessions, y.live, y.references = 1,
         NEW h, h = Release(Put(heap, x, y), conn[c].session)
  PROVE  /\ HeapOK(h) /\ x \in Cells /\ h[x].live
         /\ \A s \in Cells :
              /\ h[s].references + One(conn[c].session = s) = heap[s].references + One(x = s)
              /\ h[s].references > 0 =>
                   SameObject(heap[s], h[s]) \/ heap[s].references = 0
<1> DEFINE old == conn[c].session
           g == Put(heap, x, y)
<1>1. HeapOK(heap) /\ x \in Cells /\ ~heap[x].live /\ conn[c] \in Connections
  BY DEF CacheInv, RefInv, FreeCells, TypeOK
<1>2. old \in Cells \cup {None} /\ (old # None => heap[old].live)
  BY <1>1, HeldIsLive DEF Connections
<1>3. old # x
  BY <1>1, <1>2, SessionAssumption
<1>4. /\ HeapOK(g) /\ heap[x].references = 0
      /\ \A s \in Cells : s # x => g[s] = heap[s]
      /\ \A s \in Cells : g[s].references = heap[s].references + One(x = s)
  BY <1>1, PutCounts
<1> HIDE DEF g, old
<1>5. old # None => g[old].live
  BY <1>2, <1>3, <1>4
<1>6. /\ HeapOK(h)
      /\ \A s \in Cells :
           /\ h[s].references + One(old = s) = g[s].references
           /\ h[s].references > 0 => SameObject(g[s], h[s])
  <2>1. h = Release(g, old)
    BY DEF g, old
  <2> QED
    BY <1>2, <1>4, <1>5, <2>1, ReleaseCounts
<1>7. h[x].live
  <2>1. One(old = x) = 0 /\ One(x = x) = 1
    BY <1>3 DEF One
  <2>2. h[x].references \in Nat
    BY <1>1, <1>6 DEF HeapOK, Sessions
  <2>3. h[x].references + One(old = x) = heap[x].references + One(x = x)
    BY <1>1, <1>4, <1>6
  <2>4. h[x].references = 1
    BY <1>4, <2>1, <2>2, <2>3
  <2> QED
    BY <1>1, <1>6, <2>4 DEF HeapOK
<1>8. ASSUME NEW s \in Cells, h[s].references > 0
      PROVE  SameObject(heap[s], h[s]) \/ heap[s].references = 0
  <2>1. CASE s = x
    BY <1>4, <2>1
  <2>2. CASE s # x
    BY <1>4, <1>6, <1>8, <2>2
  <2> QED
    BY <2>1, <2>2
<1>9. ASSUME NEW s \in Cells
      PROVE  h[s].references + One(conn[c].session = s) = heap[s].references + One(x = s)
  BY <1>4, <1>6 DEF old
<1> QED
  BY <1>1, <1>6, <1>7, <1>8, <1>9

(* The connection gets a new session in the place of its own; the           *)
(* application may take a reference to it too.                              *)
LEMMA SwappingStep ==
  ASSUME CacheInv, NEW c \in Conns, NEW r \in Connections, conn' = [conn EXCEPT ![c] = r],
         conn[c].pc \notin {"none", "gone"}, r.pc \notin {"none", "gone"},
         NEW x \in FreeCells(heap), NEW y \in Sessions, y.live, y.references = 1,
         NEW h, h = Release(Put(heap, x, y), conn[c].session), r.session = x,
         \/ heap' = h /\ kept' = kept
         \/ heap' = UpRef(h, x) /\ kept' = Put(kept, x, kept[x] + 1),
         Aside(c), ConnOK(c)'
  PROVE  CacheInv'
<1> DEFINE old == conn[c].session
<1>1. /\ HeapOK(h) /\ x \in Cells /\ h[x].live
      /\ \A s \in Cells :
           /\ h[s].references + One(old = s) = heap[s].references + One(x = s)
           /\ h[s].references > 0 => SameObject(heap[s], h[s]) \/ heap[s].references = 0
  BY SwapCounts
<1>2. kept \in [Cells -> Nat] /\ HeapOK(heap)
  BY DEF CacheInv, TypeOK, RefInv
<1>3. /\ \A s \in Cells : One(x = s) \in Nat /\ One(old = s) \in Nat
      /\ \A s \in Cells : h[s].references \in Nat /\ heap[s].references \in Nat /\ kept[s] \in Nat
  BY <1>1, <1>2 DEF HeapOK, Sessions, One
<1>4. /\ HeapOK(heap') /\ kept' \in [Cells -> Nat]
      /\ \A s \in Cells :
           /\ heap'[s].references + kept[s] = h[s].references + kept'[s]
           /\ heap'[s].references > 0 => h[s].references > 0
           /\ SameObject(h[s], heap'[s])
  <2>1. CASE heap' = h /\ kept' = kept
    BY <1>1, <1>2, <2>1 DEF SameObject
  <2>2. CASE heap' = UpRef(h, x) /\ kept' = Put(kept, x, kept[x] + 1)
    <3>1. /\ HeapOK(heap')
          /\ \A s \in Cells : /\ heap'[s].references = h[s].references + One(x = s)
                              /\ SameObject(h[s], heap'[s])
      BY <1>1, <2>2, UpRefCounts
    <3>2. kept' \in [Cells -> Nat] /\ \A s \in Cells : kept'[s] = kept[s] + One(x = s)
      BY <1>1, <1>2, <2>2 DEF One, Put
    <3>3. ASSUME NEW s \in Cells
          PROVE  heap'[s].references > 0 => h[s].references > 0
      <4>1. CASE s = x
        BY <1>1, <4>1 DEF HeapOK
      <4>2. CASE s # x
        BY <1>3, <3>1, <4>2 DEF One
      <4> QED
        BY <4>1, <4>2
    <3>4. ASSUME NEW s \in Cells
          PROVE  heap'[s].references + kept[s] = h[s].references + kept'[s]
      BY <1>3, <3>1, <3>2
    <3> QED
      BY <3>1, <3>2, <3>3, <3>4
  <2> QED
    BY <2>1, <2>2
<1>5. ASSUME NEW s \in Cells
      PROVE  heap'[s].references + One(old = s) + kept[s]
               = heap[s].references + One(r.session = s) + kept'[s]
  <2>1. heap'[s].references \in Nat /\ kept'[s] \in Nat
    BY <1>4 DEF HeapOK, Sessions
  <2>2. heap'[s].references + kept[s] = h[s].references + kept'[s]
    BY <1>4
  <2>3. h[s].references + One(old = s) = heap[s].references + One(r.session = s)
    BY <1>1
  <2>4. One(r.session = s) \in Nat
    BY DEF One
  <2> HIDE DEF old
  <2> QED
    BY <1>3, <2>1, <2>2, <2>3, <2>4
<1>6. ASSUME NEW s \in Cells, heap'[s].references > 0
      PROVE  SameObject(heap[s], heap'[s]) \/ heap[s].references <= One(old = s)
  <2>1. SameObject(heap[s], h[s]) \/ heap[s].references = 0
    BY <1>1, <1>4, <1>6
  <2>2. SameObject(h[s], heap'[s])
    BY <1>4
  <2>3. 0 <= One(old = s)
    BY DEF One
  <2> QED
    BY <2>1, <2>2, <2>3 DEF SameObject
<1> QED
  BY <1>4, <1>5, <1>6, StepOfConn

(* The handshake context of a connection that is not in a handshake. *)
LEMMA UnusedFields ==
  ASSUME CacheInv, NEW c \in Conns, NEW pc \in Points
  PROVE  /\ [Unused EXCEPT !.pc = pc] \in Connections
         /\ [Unused EXCEPT !.pc = pc].pc = pc
         /\ [Unused EXCEPT !.pc = pc].session = None
         /\ [Unused EXCEPT !.pc = pc].curTime = 0
         /\ Done(c, pc) \in Connections
         /\ Done(c, pc).pc = pc
         /\ Done(c, pc).session = conn[c].session
         /\ Done(c, pc).curTime = 0
<1>1. 0 \in 0 .. MaxTime /\ conn[c].session \in Cells \cup {None}
  BY SessionAssumption DEF CacheInv, TypeOK, Connections
<1>2. /\ Unused \in Connections /\ Unused.session = None /\ Unused.curTime = 0
  BY <1>1 DEF Unused, Connections, Points
<1>3. Done(c, pc) = [Unused EXCEPT !.pc = pc, !.session = conn[c].session]
  BY DEF Done
<1> QED
  BY <1>1, <1>2, <1>3 DEF Connections

(* At most points a connection relies on nothing but the time it has read. *)
LEMMA NothingRelied ==
  ASSUME CacheInv, NEW c \in Conns,
         conn'[c].pc \notin {"found", "hello", "ticket", "mode", "insert", "clear"},
         conn'[c].curTime \in {0, conn[c].curTime, clock},
         conn[c].pc # "clear", writer' = writer, clock' = clock
  PROVE  ConnOK(c)'
<1>1. conn[c].curTime <= clock /\ writer # c /\ clock \in Nat
  BY DEF CacheInv, TypeOK, ConnInv, ConnOK
<1> QED
  BY <1>1 DEF ConnOK

(* FatalAlert. *)
LEMMA FatalAlertKeeps ==
  ASSUME CacheInv, NEW c \in Conns, FatalAlert(c)
  PROVE  CacheInv'
<1> DEFINE r == Done(c, "alerted")
<1>1. conn[c] \in Connections /\ TypeOK /\ ConnOK(c)
  BY DEF CacheInv, TypeOK, ConnInv
<1>2. r.pc = "alerted" /\ r.session = conn[c].session /\ r.curTime = 0
  BY UnusedFields DEF Points
<1>3. r \in Connections
  BY UnusedFields DEF Points
<1>4. conn' = [conn EXCEPT ![c] = r] /\ conn'[c] = r
  BY <1>1 DEF FatalAlert, TypeOK
<1> HIDE DEF r
<1>5. ConnOK(c)'
  BY <1>2, <1>4, NothingRelied DEF FatalAlert, BetweenSteps
<1>6. Aside(c)
  BY <1>1 DEF FatalAlert, Aside, TypeOK
<1>7. /\ heap' = Disable(heap, conn[c].session) /\ kept' = kept
      /\ conn[c].pc \notin {"none", "gone"}
  BY DEF FatalAlert, BetweenSteps
<1> QED
  BY <1>2, <1>3, <1>4, <1>5, <1>6, <1>7, DisablingStep

(* HITLS_Free. *)
LEMMA HITLS_FreeKeeps ==
  ASSUME CacheInv, NEW c \in Conns, HITLS_Free(c)
  PROVE  CacheInv'
<1> DEFINE r == [Unused EXCEPT !.pc = "freeing"]
<1>1. conn[c] \in Connections /\ TypeOK /\ ConnOK(c)
  BY DEF CacheInv, TypeOK, ConnInv
<1>2. r.pc = "freeing" /\ r.session = None /\ r.curTime = 0
  BY UnusedFields DEF Points
<1>3. r \in Connections
  BY UnusedFields DEF Points
<1>4. conn' = [conn EXCEPT ![c] = r] /\ conn'[c] = r
  BY <1>1 DEF HITLS_Free, TypeOK
<1> HIDE DEF r
<1>5. ConnOK(c)'
  BY <1>2, <1>4, NothingRelied DEF HITLS_Free, BetweenSteps
<1>6. Aside(c)
  BY <1>1 DEF HITLS_Free, Aside, TypeOK
<1>7. /\ heap' = Release(heap, conn[c].session) /\ kept' = kept
      /\ conn[c].pc \notin {"none", "gone"}
  BY DEF HITLS_Free, BetweenSteps
<1> QED
  BY <1>2, <1>3, <1>4, <1>5, <1>6, <1>7, ReleasingStep

(* SESSMGR_Find. *)
LEMMA SESSMGR_FindKeeps ==
  ASSUME CacheInv, NEW c \in Conns, NEW id \in Keys \cup {None}, SESSMGR_Find(c, id)
  PROVE  CacheInv'
<1> DEFINE found == IF id # None /\ HasKey(table, id) /\ Valid(heap[At(table, id)], clock)
                    THEN At(table, id) ELSE None
           r == [conn[c] EXCEPT !.pc = "found", !.isResume = FALSE,
                                !.sessionId = None, !.sess = found]
<1>1. conn[c] \in Connections /\ TypeOK /\ ConnOK(c) /\ WellHashed(table)
  BY DEF CacheInv, TypeOK, ConnInv, TableInv
<1>2. found \in Cells \cup {None}
  BY <1>1, NodesFound
<1>3. conn' = [conn EXCEPT ![c] = r]
  BY <1>1 DEF SESSMGR_Find, TypeOK
<1> HIDE DEF found
<1>4. r \in Connections /\ r.pc = "found" /\ ~r.isResume /\ r.session = conn[c].session /\ r.curTime = conn[c].curTime
  BY <1>1, <1>2 DEF Connections, Points
<1>5. conn'[c] = r
  BY <1>1, <1>3 DEF TypeOK
<1> HIDE DEF r
<1>6. ConnOK(c)'
  BY <1>1, <1>4, <1>5 DEF SESSMGR_Find, ConnOK
<1>7. Aside(c)
  BY SMTT(30), <1>1, SessionAssumption DEF SESSMGR_Find, Aside, TypeOK
<1>8. heap' = heap /\ kept' = kept /\ conn[c].pc \notin {"none", "gone"}
  BY DEF SESSMGR_Find
<1> QED
  BY <1>3, <1>4, <1>6, <1>7, <1>8, PlainStepOfConn

(* ResumeFound. *)
LEMMA ResumeFoundKeeps ==
  ASSUME CacheInv, NEW c \in Conns, ResumeFound(c)
  PROVE  CacheInv'
<1> DEFINE x == conn[c].sess
           old == conn[c].session
<1>1. /\ conn[c] \in Connections /\ TypeOK /\ ConnOK(c) /\ HeapOK(heap)
      /\ conn[c].pc = "found" /\ conn \in [Conns -> Connections]
  BY DEF CacheInv, TypeOK, ConnInv, RefInv, ResumeFound
<1>2. x \in Cells \cup {None} /\ old \in Cells \cup {None} /\ (old # None => heap[old].live)
  BY <1>1, HeldIsLive DEF Connections
<1>3. Aside(c) /\ kept' = kept /\ kept' \in [Cells -> Nat] /\ clock' = clock /\ writer' = writer
  BY <1>1 DEF ResumeFound, Aside, TypeOK
<1>4. CASE DeclineResume(c)
  <2> DEFINE r == [conn[c] EXCEPT !.pc = "hello", !.sess = None]
  <2>1. conn' = [conn EXCEPT ![c] = r] /\ conn'[c] = r
    BY <1>1, <1>4 DEF DeclineResume
  <2>2. /\ r \in Connections /\ r.pc = "hello" /\ r.session = conn[c].session
        /\ r.isResume = conn[c].isResume /\ r.curTime = conn[c].curTime
    BY <1>1 DEF Connections, Points
  <2> HIDE DEF r
  <2>3. ~conn[c].isResume
    BY <1>1 DEF ConnOK
  <2>4. ConnOK(c)'
    BY <1>1, <1>3, <2>1, <2>2, <2>3 DEF ConnOK
  <2>5. heap' = heap
    BY <1>4 DEF DeclineResume
  <2> QED
    BY <1>1, <1>3, <2>1, <2>2, <2>4, <2>5, PlainStepOfConn
<1>5. CASE UNCHANGED <<heap, conn>>
  <2>1. conn' = [conn EXCEPT ![c] = conn[c]]
    BY <1>1, <1>5
  <2>2. ConnOK(c)'
    BY <1>1, <1>3, <1>5 DEF ConnOK
  <2> QED
    BY <1>1, <1>3, <1>5, <2>1, <2>2, PlainStepOfConn
<1>6. CASE AbortResume(c)
  <2> DEFINE r == [conn[c] EXCEPT !.pc = "alerted", !.sess = None]
  <2>1. conn' = [conn EXCEPT ![c] = r] /\ conn'[c] = r
    BY <1>1, <1>6 DEF AbortResume
  <2>2. /\ r \in Connections /\ r.pc = "alerted" /\ r.session = conn[c].session
        /\ r.curTime = conn[c].curTime
    BY <1>1 DEF Connections, Points
  <2> HIDE DEF r
  <2>3. ConnOK(c)'
    BY <1>1, <1>3, <2>1, <2>2, NothingRelied
  <2>4. heap' = Disable(heap, conn[c].session)
    BY <1>6 DEF AbortResume
  <2> QED
    BY <1>1, <1>3, <2>1, <2>2, <2>3, <2>4, DisablingStep
<1>7. CASE AgreeResume(c) /\ x # None /\ heap[x].live
  <2> DEFINE r == [conn[c] EXCEPT !.pc = "hello", !.session = x, !.sess = None, !.isResume = TRUE]
             dup == UpRef(heap, x)
  <2>1. conn' = [conn EXCEPT ![c] = r] /\ conn'[c] = r /\ heap' = Release(dup, old)
    BY <1>1, <1>7 DEF AgreeResume
  <2>2. r \in Connections /\ r.pc = "hello" /\ r.session = x /\ r.curTime = conn[c].curTime
    BY <1>1, <1>2 DEF Connections, Points
  <2> HIDE DEF r
  <2>3. ConnOK(c)'
    BY <1>1, <1>3, <1>7, <2>1, <2>2 DEF ConnOK
  <2>4. /\ HeapOK(dup)
        /\ \A s \in Cells :
             /\ dup[s].references = heap[s].references + One(x = s)
             /\ SameObject(heap[s], dup[s])
    BY <1>1, <1>2, <1>7, UpRefCounts
  <2> HIDE DEF dup
  <2>5. \A s \in Cells : heap[s].references \in Nat /\ dup[s].references \in Nat
                         /\ kept[s] \in Nat /\ One(x = s) \in Nat /\ One(old = s) \in Nat
    BY <1>1, <2>4 DEF HeapOK, Sessions, TypeOK, One
  <2>6. old # None => dup[old].live
    BY <1>1, <1>2, <2>4, <2>5 DEF HeapOK
  <2>7. /\ HeapOK(heap')
        /\ \A s \in Cells :
             /\ heap'[s].references + One(old = s) = dup[s].references
             /\ heap'[s].references > 0 => SameObject(dup[s], heap'[s])
    BY <1>2, <2>1, <2>4, <2>6, ReleaseCounts
  <2>8. ASSUME NEW s \in Cells
        PROVE  heap'[s].references + One(old = s) + kept[s]
                 = heap[s].references + One(r.session = s) + kept'[s]
    BY <1>3, <2>2, <2>4, <2>5, <2>7
  <2>9. \A s \in Cells : heap'[s].references > 0 => SameObject(heap[s], heap'[s])
    BY <2>4, <2>7 DEF SameObject
  <2> QED
    BY <1>1, <1>3, <2>1, <2>2, <2>3, <2>7, <2>8, <2>9, StepOfConn
<1> QED
  BY <1>4, <1>5, <1>6, <1>7 DEF ResumeFound

(* ServerCheckResumeTicket. *)
LEMMA ServerCheckResumeTicketKeeps ==
  ASSUME CacheInv, NEW c \in Conns, ServerCheckResumeTicket(c)
  PROVE  CacheInv'
<1>1. /\ conn[c] \in Connections /\ TypeOK /\ ConnOK(c) /\ conn \in [Conns -> Connections]
      /\ conn[c].pc \in {"idle", "open"} /\ mgr.timeout \in Nat /\ clock \in Nat
  <2>1. conn[c].pc \in {"idle", "open"}
    BY Zenon DEF ServerCheckResumeTicket
  <2> QED
    BY <2>1 DEF CacheInv, TypeOK, ConnInv
<1>2. Aside(c) /\ kept' = kept /\ clock' = clock /\ writer' = writer
  <2>1. /\ UNCHANGED <<role, table, hashCount, mgr, writer, clock, kept, settings, owned, doomed, corrupted>>
        /\ hellos' = [hellos EXCEPT ![c] = @ + 1]
    BY Zenon DEF ServerCheckResumeTicket
  <2> QED
    BY <1>1, <2>1 DEF Aside, TypeOK
<1>3. \A pc \in Points : Done(c, pc) \in Connections /\ Done(c, pc).pc = pc
        /\ Done(c, pc).session = conn[c].session /\ Done(c, pc).curTime = 0
  BY UnusedFields
<1>4. "hello" \in Points /\ "alerted" \in Points /\ ~Done(c, "hello").isResume
  BY DEF Points, Done, Unused
<1>5. CASE heap' = heap /\ conn' = [conn EXCEPT ![c] = Done(c, "hello")]
  <2>1. conn'[c] = Done(c, "hello")
    BY <1>1, <1>5
  <2>2. ConnOK(c)'
    BY <1>1, <1>2, <1>3, <1>4, <2>1 DEF ConnOK
  <2> QED
    BY <1>1, <1>2, <1>3, <1>4, <1>5, <2>2, PlainStepOfConn
<1>6. CASE heap' = Disable(heap, conn[c].session) /\ conn' = [conn EXCEPT ![c] = Done(c, "alerted")]
  <2>1. conn'[c] = Done(c, "alerted")
    BY <1>1, <1>6
  <2>2. ConnOK(c)'
    BY <1>1, <1>2, <1>3, <1>4, <2>1, NothingRelied
  <2> QED
    BY <1>1, <1>2, <1>3, <1>4, <1>6, <2>2, DisablingStep
<1>7. ASSUME NEW id \in TicketIds, NEW start \in 0 .. clock, NEW x \in FreeCells(heap),
             heap' = Release([heap EXCEPT ![x] = [NewSession(id) EXCEPT !.start = start]],
                             conn[c].session),
             conn' = [conn EXCEPT ![c] =
                        [Done(c, "hello") EXCEPT !.session = x, !.isResume = TRUE]]
      PROVE  CacheInv'
  <2> DEFINE r == [Done(c, "hello") EXCEPT !.session = x, !.isResume = TRUE]
             y == [NewSession(id) EXCEPT !.start = start]
  <2>1. x \in Cells
    BY DEF FreeCells
  <2>2. /\ r \in Connections /\ r.pc = "hello" /\ r.session = x /\ r.curTime = 0
    <3>1. Done(c, "hello") \in Connections /\ Done(c, "hello").pc = "hello" /\ Done(c, "hello").curTime = 0
      BY <1>3, <1>4
    <3> QED
      BY <2>1, <3>1 DEF Connections
  <2>3. conn'[c] = r
    BY <1>1, <1>7
  <2>4. y \in Sessions /\ y.live /\ y.references = 1
    <3>1. id \in Keys \cup {None} /\ start \in Nat
      BY <1>1, SessionAssumption
    <3> QED
      BY <1>1, <3>1 DEF NewSession, Sessions
  <2> HIDE DEF r
  <2>5. ConnOK(c)'
    BY <1>1, <1>2, <2>1, <2>2, <2>3, SessionAssumption DEF ConnOK
  <2> HIDE DEF y
  <2>6. heap' = Release(Put(heap, x, y), conn[c].session) /\ conn' = [conn EXCEPT ![c] = r]
    BY <1>7 DEF y, r, Put
  <2> QED
    BY <1>1, <1>2, <2>2, <2>4, <2>5, <2>6, SwappingStep
<1>8. ASSUME FreeCells(heap) # {}
      PROVE  (CHOOSE x \in FreeCells(heap) : TRUE) \in FreeCells(heap)
  BY <1>8
<1> QED
  BY <1>5, <1>6, <1>7, <1>8 DEF ServerCheckResumeTicket

(* ServerPrepareSessionId. *)
LEMMA ServerPrepareSessionIdKeeps ==
  ASSUME CacheInv, NEW c \in Conns, ServerPrepareSessionId(c)
  PROVE  CacheInv'
<1>1. /\ conn[c] \in Connections /\ TypeOK /\ ConnOK(c) /\ HeapOK(heap)
      /\ conn[c].pc = "hello" /\ conn \in [Conns -> Connections]
  BY DEF CacheInv, TypeOK, ConnInv, RefInv, ServerPrepareSessionId
<1>2. Aside(c) /\ kept' = kept /\ clock' = clock /\ writer' = writer
  BY <1>1 DEF ServerPrepareSessionId, Aside, TypeOK
<1>3. ASSUME NEW id \in Keys \cup {None}, heap' = heap,
             conn' = [conn EXCEPT ![c].pc = "finished", ![c].sessionId = id]
      PROVE  CacheInv'
  <2> DEFINE r == [conn[c] EXCEPT !.pc = "finished", !.sessionId = id]
  <2>1. conn' = [conn EXCEPT ![c] = r] /\ conn'[c] = r
    BY <1>1, <1>3
  <2>2. r \in Connections /\ r.pc = "finished" /\ r.session = conn[c].session /\ r.curTime = conn[c].curTime
    BY <1>1 DEF Connections, Points
  <2> HIDE DEF r
  <2>3. ConnOK(c)'
    BY <1>1, <1>2, <2>1, <2>2, NothingRelied
  <2> QED
    BY <1>1, <1>2, <1>3, <2>1, <2>2, <2>3, PlainStepOfConn
<1>4. CASE conn[c].isResume /\ UNCHANGED heap
           /\ conn' = [conn EXCEPT ![c].pc = "finished",
                                   ![c].sessionId = heap[conn[c].session].id]
  <2>1. conn[c].session \in Cells
    BY <1>1, <1>4 DEF ConnOK, Connections
  <2>2. heap[conn[c].session].id \in Keys \cup {None}
    BY <1>1, <2>1 DEF HeapOK, Sessions
  <2> QED
    BY <1>3, <1>4, <2>2
<1>5. CASE Move(c, "finished") /\ UNCHANGED heap
  <2>1. conn' = [conn EXCEPT ![c].pc = "finished", ![c].sessionId = conn[c].sessionId]
    BY <1>1, <1>5 DEF Move, Connections
  <2>2. conn[c].sessionId \in Keys \cup {None}
    BY <1>1 DEF Connections
  <2> QED
    BY <1>3, <1>5, <2>1, <2>2
<1>6. CASE heap' = Disable(heap, conn[c].session) /\ Move(c, "alerted")
  <2> DEFINE r == [conn[c] EXCEPT !.pc = "alerted"]
  <2>1. conn' = [conn EXCEPT ![c] = r] /\ conn'[c] = r
    BY <1>1, <1>6 DEF Move
  <2>2. r \in Connections /\ r.pc = "alerted" /\ r.session = conn[c].session /\ r.curTime = conn[c].curTime
    BY <1>1 DEF Connections, Points
  <2> HIDE DEF r
  <2>3. ConnOK(c)'
    BY <1>1, <1>2, <2>1, <2>2, NothingRelied
  <2> QED
    BY <1>1, <1>2, <1>6, <2>1, <2>2, <2>3, DisablingStep
<1> QED
  BY <1>3, <1>4, <1>5, <1>6 DEF ServerPrepareSessionId

(* ClientPrepareSession. *)
LEMMA ClientPrepareSessionKeeps ==
  ASSUME CacheInv, NEW c \in Conns, ClientPrepareSession(c)
  PROVE  CacheInv'
<1> DEFINE x == conn[c].session
<1>1. /\ conn[c] \in Connections /\ TypeOK /\ HeapOK(heap) /\ conn \in [Conns -> Connections]
      /\ conn[c].pc \in {"idle", "open"}
  BY DEF CacheInv, TypeOK, RefInv, ClientPrepareSession
<1>2. Aside(c) /\ kept' = kept /\ clock' = clock /\ writer' = writer
  BY SMTT(30), <1>1, SessionAssumption DEF ClientPrepareSession, Aside, TypeOK
<1>3. CASE x # None /\ UNCHANGED heap
           /\ conn' = [conn EXCEPT ![c].pc = "offered", ![c].sessionId = heap[x].id]
  <2> DEFINE r == [conn[c] EXCEPT !.pc = "offered", !.sessionId = heap[x].id]
  <2>1. conn' = [conn EXCEPT ![c] = r] /\ conn'[c] = r
    BY <1>1, <1>3
  <2>2. heap[x].id \in Keys \cup {None}
    BY <1>1, <1>3, HeldIsLive DEF HeapOK, Sessions
  <2>3. r \in Connections /\ r.pc = "offered" /\ r.session = x /\ r.curTime = conn[c].curTime
    BY <1>1, <2>2 DEF Connections, Points
  <2> HIDE DEF r
  <2>4. ConnOK(c)'
    BY <1>1, <1>2, <2>1, <2>3, NothingRelied
  <2> QED
    BY <1>1, <1>2, <1>3, <2>1, <2>3, <2>4, PlainStepOfConn
<1>4. CASE heap' = Release(heap, x)
           /\ conn' = [conn EXCEPT ![c].pc = "offered", ![c].session = None, ![c].sessionId = None]
  <2> DEFINE r == [conn[c] EXCEPT !.pc = "offered", !.session = None, !.sessionId = None]
  <2>1. conn' = [conn EXCEPT ![c] = r] /\ conn'[c] = r
    BY <1>1, <1>4
  <2>2. r \in Connections /\ r.pc = "offered" /\ r.session = None /\ r.curTime = conn[c].curTime
    BY <1>1 DEF Connections, Points
  <2> HIDE DEF r
  <2>3. ConnOK(c)'
    BY <1>1, <1>2, <2>1, <2>2, NothingRelied
  <2> QED
    BY <1>1, <1>2, <1>4, <2>1, <2>2, <2>3, ReleasingStep
<1> QED
  BY <1>3, <1>4 DEF ClientPrepareSession

(* ClientRecvServerHello. *)
LEMMA ClientRecvServerHelloKeeps ==
  ASSUME CacheInv, NEW c \in Conns, NEW id \in Keys \cup {None}, ClientRecvServerHello(c, id)
  PROVE  CacheInv'
<1> DEFINE resumes == conn[c].session # None /\ id # None /\ id = conn[c].sessionId
           R(pc) == [conn[c] EXCEPT !.pc = pc, !.isResume = resumes,
                                    !.sessionId = IF id = None THEN @ ELSE id]
<1>1. conn[c] \in Connections /\ TypeOK /\ conn \in [Conns -> Connections] /\ ConnOK(c)
  BY DEF CacheInv, TypeOK, ConnInv
<1>2. PICK pc \in {"ticket", "finished"} :
        conn' = [conn EXCEPT ![c] = R(pc)] /\ (pc = "ticket" => conn[c].session # None)
  <2>1. PICK pc \in {"ticket", "finished"} :
          /\ conn' = [conn EXCEPT ![c].pc = pc, ![c].isResume = resumes,
                                  ![c].sessionId = IF id = None THEN @ ELSE id]
          /\ pc = "ticket" => resumes
    BY Zenon DEF ClientRecvServerHello
  <2> HIDE DEF resumes
  <2>2. conn' = [conn EXCEPT ![c] = R(pc)]
    BY <1>1, <2>1
  <2> QED
    BY <2>1, <2>2 DEF resumes
<1> DEFINE r == R(pc)
<1>3. resumes \in BOOLEAN
  OBVIOUS
<1> HIDE DEF resumes
<1>4. r \in Connections /\ r.pc = pc /\ r.session = conn[c].session /\ r.curTime = conn[c].curTime
  <2>1. pc \in Points
    BY <1>2 DEF Points
  <2> QED
    BY ZenonT(60), <1>1, <1>3, <2>1 DEF Connections
<1>5. conn' = [conn EXCEPT ![c] = r] /\ conn'[c] = r
  BY <1>1, <1>2
<1> HIDE DEF r
<1>6. Aside(c) /\ kept' = kept /\ heap' = heap /\ clock' = clock /\ writer' = writer
      /\ conn[c].pc = "offered"
  BY <1>1 DEF ClientRecvServerHello, Aside, TypeOK
<1>7. ConnOK(c)'
  BY <1>1, <1>2, <1>4, <1>5, <1>6 DEF ConnOK
<1> QED
  BY <1>2, <1>4, <1>5, <1>6, <1>7, PlainStepOfConn

(* UpdateTicket. *)
LEMMA UpdateTicketKeeps ==
  ASSUME CacheInv, NEW c \in Conns, UpdateTicket(c)
  PROVE  CacheInv'
<1> DEFINE old == conn[c].session
           r == [conn[c] EXCEPT !.pc = "finished"]
<1>1. /\ conn[c] \in Connections /\ TypeOK /\ ConnOK(c) /\ conn \in [Conns -> Connections]
      /\ conn[c].pc = "ticket" /\ mgr.timeout \in Nat /\ clock \in Nat /\ HeapOK(heap)
  BY DEF CacheInv, TypeOK, ConnInv, UpdateTicket, RefInv
<1>2. Aside(c) /\ clock' = clock /\ writer' = writer
  BY <1>1 DEF UpdateTicket, Aside, TypeOK
<1>3. old \in Cells
  BY <1>1 DEF ConnOK, Connections
<1>4. r \in Connections /\ r.pc = "finished" /\ r.session = old /\ r.curTime = conn[c].curTime
  BY <1>1 DEF Connections, Points
<1>5. CASE Move(c, "finished") /\ UNCHANGED <<heap, kept>>
  <2>1. conn' = [conn EXCEPT ![c] = r] /\ conn'[c] = r
    BY <1>1, <1>5 DEF Move
  <2> HIDE DEF r
  <2>2. ConnOK(c)'
    BY <1>1, <1>2, <1>4, <2>1, NothingRelied
  <2> QED
    BY <1>1, <1>2, <1>4, <1>5, <2>1, <2>2, PlainStepOfConn
<1>6. CASE heap' = Disable(heap, old) /\ conn' = [conn EXCEPT ![c] = Done(c, "alerted")]
           /\ UNCHANGED kept
  <2>1. /\ Done(c, "alerted") \in Connections /\ Done(c, "alerted").pc = "alerted"
        /\ Done(c, "alerted").session = old /\ Done(c, "alerted").curTime = 0
    BY UnusedFields DEF Points
  <2>2. conn'[c] = Done(c, "alerted")
    BY <1>1, <1>6
  <2>3. ConnOK(c)'
    BY <1>1, <1>2, <2>1, <2>2, NothingRelied
  <2> QED
    BY <1>1, <1>2, <1>6, <2>1, <2>3, DisablingStep
<1>7. ASSUME NEW x \in FreeCells(heap),
             NEW h, h = Release([heap EXCEPT ![x] = NewSession(heap[old].id)], old),
             \/ heap' = h /\ UNCHANGED kept
             \/ heap' = UpRef(h, x) /\ kept' = [kept EXCEPT ![x] = @ + 1],
             conn' = [conn EXCEPT ![c].pc = "finished", ![c].session = x]
      PROVE  CacheInv'
  <2> DEFINE y == NewSession(heap[old].id)
             q == [conn[c] EXCEPT !.pc = "finished", !.session = x]
  <2>1. x \in Cells
    BY DEF FreeCells
  <2>2. conn' = [conn EXCEPT ![c] = q] /\ conn'[c] = q
    BY <1>1, <1>7
  <2>3. q \in Connections /\ q.pc = "finished" /\ q.session = x /\ q.curTime = conn[c].curTime
    BY <1>1, <2>1 DEF Connections, Points
  <2> HIDE DEF q
  <2>4. y \in Sessions /\ y.live /\ y.references = 1
    BY <1>1, <1>3 DEF NewSession, Sessions, HeapOK
  <2>5. ConnOK(c)'
    BY <1>1, <1>2, <2>2, <2>3, NothingRelied
  <2> HIDE DEF y
  <2>6. h = Release(Put(heap, x, y), conn[c].session)
    BY <1>7 DEF y, Put
  <2>7. \/ heap' = h /\ kept' = kept
        \/ heap' = UpRef(h, x) /\ kept' = Put(kept, x, kept[x] + 1)
    BY <1>7 DEF Put
  <2>8. conn[c].pc \notin {"none", "gone"} /\ q.pc \notin {"none", "gone"}
    BY <1>1, <2>3
  <2> HIDE DEF old
  <2> QED
    BY <1>2, <2>2, <2>3, <2>4, <2>5, <2>6, <2>7, <2>8, SwappingStep
<1>8. ASSUME FreeCells(heap) # {}
      PROVE  (CHOOSE x \in FreeCells(heap) : TRUE) \in FreeCells(heap)
  BY <1>8
<1> QED
  BY <1>5, <1>6, <1>7, <1>8 DEF UpdateTicket

(* SESSMGR_ClearTimeout reads the time. *)
LEMMA ReadTimeKeeps ==
  ASSUME CacheInv, NEW c \in Conns, ReadTime(c)
  PROVE  CacheInv'
<1> DEFINE r == [conn[c] EXCEPT !.pc = "clearing", !.curTime = clock]
<1>1. conn[c] \in Connections /\ TypeOK /\ conn \in [Conns -> Connections] /\ clock \in 0 .. MaxTime
  BY DEF CacheInv, TypeOK
<1>2. conn' = [conn EXCEPT ![c] = r] /\ conn'[c] = r
  BY <1>1 DEF ReadTime
<1>3. r \in Connections /\ r.pc = "clearing" /\ r.session = conn[c].session /\ r.curTime = clock
  BY <1>1 DEF Connections, Points
<1> HIDE DEF r
<1>4. Aside(c) /\ kept' = kept /\ heap' = heap /\ clock' = clock /\ writer' = writer
      /\ conn[c].pc = "finished"
  BY <1>1 DEF ReadTime, Aside, TypeOK
<1>5. ConnOK(c)'
  BY <1>2, <1>3, <1>4, NothingRelied
<1> QED
  BY <1>2, <1>3, <1>4, <1>5, PlainStepOfConn

(* The smallest number of a set. *)
LEMMA MinOfNaturals ==
  ASSUME NEW S \in SUBSET Nat, S # {}
  PROVE  Min(S) \in S /\ \A y \in S : Min(S) =< y
<1> DEFINE R == {ss \in Nat \X Nat : ss[1] < ss[2]}
<1>1. IsWellFoundedOn(R, Nat)
  BY Zenon, NatLessThanWellFounded DEF OpToRel
<1>2. PICK m \in S : \A y \in S : ~ (<<y, m>> \in R)
  <2> HIDE DEF R
  <2> QED
    BY <1>1, WFMin
<1>3. ASSUME NEW y \in S
      PROVE  m =< y
  <2>1. <<y, m>> \in Nat \X Nat /\ <<y, m>>[1] = y /\ <<y, m>>[2] = m
    OBVIOUS
  <2>2. y < m => <<y, m>> \in R
    BY <2>1
  <2>3. ~ (y < m) /\ y \in Nat /\ m \in Nat
    BY <1>2, <2>2
  <2> QED
    BY <2>3
<1> QED
  BY <1>3 DEF Min

(* An iterator set to the first node from a bucket on points to a node, the *)
(* first one of its bucket, with no node in the buckets between.            *)
LEMMA FirstFromFinds ==
  ASSUME NEW t, WellHashed(t), NEW b \in Nat
  PROVE  \/ /\ FirstFrom(t, b) = IterEnd
            /\ \A i \in Buckets : i >= b => t[i] = <<>>
         \/ /\ FirstFrom(t, b) \in Keys
            /\ HasKey(t, FirstFrom(t, b))
            /\ FindNode(t, FirstFrom(t, b)) = 1
            /\ HashCode(FirstFrom(t, b)) >= b
            /\ \A i \in Buckets : i >= b /\ i < HashCode(FirstFrom(t, b)) => t[i] = <<>>
<1> DEFINE filled == {i \in Buckets : i >= b /\ t[i] # <<>>}
           m == Min(filled)
           k == Head(t[m]).key
<1>1. CASE filled = {}
  BY <1>1 DEF FirstFrom
<1>2. CASE filled # {}
  <2>1. filled \in SUBSET Nat
    BY DEF Buckets
  <2>2. m \in filled /\ \A y \in filled : m =< y
    BY <1>2, <2>1, MinOfNaturals
  <2> HIDE DEF m
  <2>3. m \in Buckets /\ m >= b /\ t[m] # <<>> /\ t[m] \in Seq(NodeType)
    BY <2>2 DEF WellHashed
  <2>4. Head(t[m]) = t[m][1] /\ 1 \in DOMAIN t[m] /\ t[m][1] \in NodeType
    BY <2>3
  <2>5. k \in Keys /\ HashCode(k) = m /\ t[m][1] \in Nodes(t)
    BY <2>3, <2>4 DEF NodeType, WellHashed, Nodes, Range
  <2>6. HasKey(t, k) /\ FindNode(t, k) = 1
    <3>1. HasKey(t, k)
      BY <2>4, <2>5, NodesFound
    <3> QED
      BY <2>3, <2>4, <2>5, <3>1, FindNodeFinds DEF WellHashed
  <2>7. \A i \in Buckets : i >= b /\ i < m => t[i] = <<>>
    BY <2>1, <2>2
  <2>8. FirstFrom(t, b) = k
    BY <1>2 DEF FirstFrom, m
  <2> QED
    BY <2>3, <2>5, <2>6, <2>7, <2>8
<1> QED
  BY <1>1, <1>2

(* The write lock is taken and the iterator set. *)
LEMMA BeginClearKeeps ==
  ASSUME CacheInv, NEW c \in Conns, BeginClear(c)
  PROVE  CacheInv'
<1> DEFINE it == FirstFrom(table, 0)
           r == [conn[c] EXCEPT !.pc = "clear", !.it = it]
<1>1. /\ conn[c] \in Connections /\ TypeOK /\ conn \in [Conns -> Connections]
      /\ WellHashed(table) /\ ConnOK(c)
  BY DEF CacheInv, TypeOK, TableInv, ConnInv
<1>2. it \in Keys \cup {IterEnd} /\ (it # IterEnd => HasKey(table, it))
  BY <1>1, FirstFromFinds
<1>3. conn' = [conn EXCEPT ![c] = r] /\ conn'[c] = r
  BY <1>1 DEF BeginClear
<1> HIDE DEF it
<1>4. /\ r \in Connections /\ r.pc = "clear" /\ r.session = conn[c].session
      /\ r.curTime = conn[c].curTime /\ r.it = it
  BY <1>1, <1>2 DEF Connections, Points
<1> HIDE DEF r
<1>5. /\ writer = None /\ writer' = c /\ table' = table /\ clock' = clock
      /\ heap' = heap /\ kept' = kept /\ conn[c].pc = "clearing"
  BY DEF BeginClear, LockFree
<1>6. Nodes(table) \subseteq NodeType
  BY <1>1, NodesFound
<1>7. Aside(c)
  <2>1. \A d \in Conns \ {c} : writer' = d <=> writer = d
    BY <1>5, SessionAssumption
  <2> QED
    BY <1>1, <1>5, <1>6, <2>1 DEF BeginClear, Aside, TypeOK
<1>8. ConnOK(c)'
  BY <1>1, <1>2, <1>3, <1>4, <1>5 DEF ConnOK
<1> QED
  BY <1>3, <1>4, <1>5, <1>7, <1>8, PlainStepOfConn

(* The write lock is given back. *)
LEMMA EndClearKeeps ==
  ASSUME CacheInv, NEW c \in Conns, EndClear(c)
  PROVE  CacheInv'
<1> DEFINE r == IF conn[c].isResume THEN Done(c, "open")
                ELSE [conn[c] EXCEPT !.pc = "replace", !.curTime = 0]
<1>1. /\ conn[c] \in Connections /\ TypeOK /\ conn \in [Conns -> Connections] /\ ConnOK(c)
      /\ 0 \in 0 .. MaxTime /\ clock \in Nat
  BY SessionAssumption DEF CacheInv, TypeOK, ConnInv
<1>2. conn' = [conn EXCEPT ![c] = r] /\ conn'[c] = r
  BY <1>1 DEF EndClear
<1>3. /\ r \in Connections /\ r.pc \in {"open", "replace"} /\ r.session = conn[c].session
      /\ r.curTime = 0
  <2>1. CASE conn[c].isResume
    BY <2>1, UnusedFields DEF Points
  <2>2. CASE ~conn[c].isResume
    BY <1>1, <2>2 DEF Connections, Points
  <2> QED
    BY <2>1, <2>2
<1> HIDE DEF r
<1>4. /\ conn[c].pc = "clear" /\ writer = c /\ writer' = None /\ clock' = clock
      /\ heap' = heap /\ kept' = kept /\ table' = table
  BY <1>1 DEF EndClear, ConnOK
<1>5. Aside(c)
  <2>1. \A d \in Conns \ {c} : writer' = d <=> writer = d
    BY <1>4, SessionAssumption
  <2> QED
    BY <1>1, <1>4, <2>1 DEF EndClear, Aside, TypeOK
<1>6. ConnOK(c)'
  BY <1>1, <1>2, <1>3, <1>4, SessionAssumption DEF ConnOK
<1> QED
  BY <1>2, <1>3, <1>4, <1>5, <1>6, PlainStepOfConn

(* The new session takes the place of the connection's. *)
LEMMA ReplaceSessionKeeps ==
  ASSUME CacheInv, NEW c \in Conns, ReplaceSession(c)
  PROVE  CacheInv'
<1> DEFINE old == conn[c].session
           dropped == Release(heap, old)
           free == FreeCells(dropped)
<1>1. /\ conn[c] \in Connections /\ TypeOK /\ HeapOK(heap) /\ conn \in [Conns -> Connections]
      /\ conn[c].pc = "replace" /\ mgr.timeout \in Nat /\ clock \in Nat /\ ConnOK(c)
  BY DEF CacheInv, TypeOK, RefInv, ReplaceSession, ConnInv
<1>2. Aside(c) /\ kept' = kept /\ clock' = clock /\ writer' = writer
  BY <1>1 DEF ReplaceSession, Aside, TypeOK
<1>3. old \in Cells \cup {None} /\ (old # None => heap[old].live)
  BY <1>1, HeldIsLive DEF Connections
<1>4. /\ HeapOK(dropped)
      /\ \A s \in Cells :
           /\ dropped[s].references + One(old = s) = heap[s].references
           /\ dropped[s].references > 0 => SameObject(heap[s], dropped[s])
  BY <1>1, <1>3, ReleaseCounts
<1>5. CASE free = {}
  <2> DEFINE r == [conn[c] EXCEPT !.pc = "failed", !.session = None]
  <2>1. conn' = [conn EXCEPT ![c] = r] /\ conn'[c] = r /\ heap' = dropped
    BY <1>1, <1>5 DEF ReplaceSession
  <2>2. r \in Connections /\ r.pc = "failed" /\ r.session = None /\ r.curTime = conn[c].curTime
    BY <1>1 DEF Connections, Points
  <2> HIDE DEF r
  <2>3. ConnOK(c)'
    BY <1>1, <1>2, <2>1, <2>2, NothingRelied
  <2> QED
    BY <1>1, <1>2, <2>1, <2>2, <2>3, ReleasingStep
<1>6. CASE free # {}
  <2> DEFINE x == CHOOSE s \in free : TRUE
             new == NewSession(conn[c].sessionId)
             r == [conn[c] EXCEPT !.session = x, !.pc = "mode"]
  <2>1. x \in Cells /\ ~dropped[x].live
    BY <1>6 DEF FreeCells
  <2>2. conn' = [conn EXCEPT ![c] = r] /\ conn'[c] = r /\ heap' = [dropped EXCEPT ![x] = new]
    BY <1>1, <1>6 DEF ReplaceSession
  <2> HIDE DEF x
  <2>3. /\ r \in Connections /\ r.pc = "mode" /\ r.session = x
        /\ r.curTime = conn[c].curTime /\ r.sessionId = conn[c].sessionId
    BY <1>1, <2>1 DEF Connections, Points
  <2> HIDE DEF r
  <2>4. /\ new \in Sessions /\ new.references = 1 /\ new.live
        /\ new.id = conn[c].sessionId
    BY <1>1 DEF NewSession, Sessions, Connections
  <2> HIDE DEF new, dropped
  <2>5. /\ HeapOK(heap') /\ heap'[x] = new /\ dropped[x].references = 0
        /\ \A s \in Cells : s # x => heap'[s] = dropped[s]
    <3>1. x \in Cells /\ ~dropped[x].live /\ heap' = Put(dropped, x, new)
      BY <2>1, <2>2 DEF FreeCells, Put
    <3> QED
      BY <1>4, <2>4, <3>1, PutCounts
  <2>6. ASSUME NEW s \in Cells
        PROVE  heap'[s].references + One(old = s) + kept[s]
                 = heap[s].references + One(r.session = s) + kept'[s]
    <3>1. /\ dropped[s].references + One(old = s) = heap[s].references
          /\ dropped[s].references \in Nat /\ heap[s].references \in Nat /\ kept[s] \in Nat
      BY <1>1, <1>4 DEF HeapOK, Sessions, TypeOK
    <3>2. One(old = s) \in Nat
      BY DEF One
    <3>3. CASE s = x
      <4>1. One(r.session = s) = 1 /\ heap'[s].references = 1
        BY <2>3, <2>4, <2>5, <3>3 DEF One
      <4> QED
        BY <1>2, <2>5, <3>1, <3>2, <3>3, <4>1
    <3>4. CASE s # x
      <4>1. One(r.session = s) = 0 /\ heap'[s].references = dropped[s].references
        BY <2>3, <2>5, <3>4 DEF One
      <4> QED
        BY <1>2, <3>1, <3>2, <4>1
    <3> QED
      BY <3>3, <3>4
  <2>7. ASSUME NEW s \in Cells, heap'[s].references > 0
        PROVE  SameObject(heap[s], heap'[s]) \/ heap[s].references <= One(conn[c].session = s)
    <3>1. CASE s = x
      <4>1. One(old = s) = heap[s].references
        <5>1. heap[s].references \in Nat /\ One(old = s) \in Nat
          BY <1>1 DEF HeapOK, Sessions, One
        <5> QED
          BY <1>4, <2>5, <3>1, <5>1
      <4> QED
        BY <1>1, <4>1 DEF HeapOK, Sessions
    <3>2. CASE s # x
      BY <1>4, <2>5, <2>7, <3>2
    <3> QED
      BY <3>1, <3>2
  <2>8. ConnOK(c)'
    <3>1. writer # c /\ conn[c].curTime <= clock /\ x # None
      BY <1>1, <2>1, SessionAssumption DEF ConnOK
    <3> QED
      BY <1>2, <2>2, <2>3, <2>4, <2>5, <3>1 DEF ConnOK
  <2>9. kept' \in [Cells -> Nat]
    BY <1>1, <1>2 DEF TypeOK
  <2> QED
    BY <1>1, <1>2, <2>2, <2>3, <2>5, <2>6, <2>7, <2>8, <2>9, StepOfConn
<1> QED
  BY <1>5, <1>6

(* SESSMGR_InsertSession reads the mode. *)
LEMMA ReadModeKeeps ==
  ASSUME CacheInv, NEW c \in Conns, ReadMode(c)
  PROVE  CacheInv'
<1> DEFINE pc == IF conn[c].sessionId # None /\ KeptInMode(c) THEN "insert" ELSE "callback"
           r == [conn[c] EXCEPT !.pc = pc]
<1>1. conn[c] \in Connections /\ TypeOK /\ conn \in [Conns -> Connections] /\ ConnOK(c)
  BY DEF CacheInv, TypeOK, ConnInv
<1>2. conn' = [conn EXCEPT ![c] = r] /\ conn'[c] = r
  BY <1>1 DEF ReadMode, Move
<1>3. pc \in {"insert", "callback"} /\ (pc = "insert" => conn[c].sessionId # None)
  OBVIOUS
<1> HIDE DEF pc
<1>4. /\ r \in Connections /\ r.pc = pc /\ r.session = conn[c].session
      /\ r.curTime = conn[c].curTime /\ r.sessionId = conn[c].sessionId
  BY <1>1, <1>3 DEF Connections, Points
<1> HIDE DEF r
<1>5. Aside(c) /\ kept' = kept /\ heap' = heap /\ clock' = clock /\ writer' = writer
      /\ conn[c].pc = "mode"
  BY <1>1 DEF ReadMode, Aside, TypeOK
<1>6. ConnOK(c)'
  BY <1>1, <1>2, <1>3, <1>4, <1>5 DEF ConnOK
<1> QED
  BY <1>2, <1>3, <1>4, <1>5, <1>6, PlainStepOfConn

(* newSessionCb. *)
LEMMA NewSessionCbKeeps ==
  ASSUME CacheInv, NEW c \in Conns, NewSessionCb(c)
  PROVE  CacheInv'
<1> DEFINE r == Done(c, "open")
           x == conn[c].session
<1>1. /\ conn[c] \in Connections /\ TypeOK /\ HeapOK(heap) /\ conn \in [Conns -> Connections]
      /\ conn[c].pc = "callback"
  BY DEF CacheInv, TypeOK, RefInv, NewSessionCb
<1>2. conn' = [conn EXCEPT ![c] = r] /\ conn'[c] = r
  BY <1>1 DEF NewSessionCb
<1>3. r \in Connections /\ r.pc = "open" /\ r.session = x /\ r.curTime = 0
  BY UnusedFields DEF Points
<1> HIDE DEF r
<1>4. Aside(c) /\ clock' = clock /\ writer' = writer
  BY <1>1 DEF NewSessionCb, Aside, TypeOK
<1>5. ConnOK(c)'
  BY <1>1, <1>2, <1>3, <1>4, NothingRelied
<1>6. CASE UNCHANGED <<heap, kept>>
  BY <1>1, <1>2, <1>3, <1>4, <1>5, <1>6, PlainStepOfConn
<1>7. CASE heap' = UpRef(heap, x) /\ kept' = [kept EXCEPT ![x] = @ + 1]
  <2>1. x \in Cells \cup {None} /\ (x # None => heap[x].live)
    BY <1>1, HeldIsLive DEF Connections
  <2>2. /\ HeapOK(heap')
        /\ \A s \in Cells :
             /\ heap'[s].references = heap[s].references + One(x = s)
             /\ SameObject(heap[s], heap'[s])
    BY <1>1, <1>7, <2>1, UpRefCounts
  <2>3. kept \in [Cells -> Nat] /\ kept' \in [Cells -> Nat]
    <3>1. kept \in [Cells -> Nat]
      BY <1>1 DEF TypeOK
    <3>2. kept' = [s \in Cells |-> IF s = x THEN kept[s] + 1 ELSE kept[s]]
      BY <1>7, <3>1
    <3> QED
      BY <3>1, <3>2
  <2>4. ASSUME NEW s \in Cells
        PROVE  heap'[s].references + One(x = s) + kept[s]
                 = heap[s].references + One(r.session = s) + kept'[s]
    <3>1. kept'[s] = kept[s] + One(x = s)
      <4>1. CASE x = s
        BY <1>7, <2>3, <4>1 DEF One
      <4>2. CASE x # s
        BY <1>7, <2>3, <4>2 DEF One
      <4> QED
        BY <4>1, <4>2
    <3>2. heap[s].references \in Nat /\ One(x = s) \in Nat /\ kept[s] \in Nat
      BY <1>1, <2>3 DEF HeapOK, Sessions, One
    <3> QED
      BY <1>3, <2>2, <3>1, <3>2
  <2> QED
    BY <1>1, <1>2, <1>3, <1>4, <1>5, <2>2, <2>3, <2>4, StepOfConn
<1> QED
  BY <1>6, <1>7 DEF NewSessionCb

(* A step of the application or of time: no connection moves. *)
LEMMA StepOfNone ==
  ASSUME CacheInv, TypeOK', UNCHANGED <<role, table, hashCount, writer, conn, owned>>,
         mgr'.references = mgr.references, clock <= clock', HeapOK(heap'),
         \A s \in Cells :
           heap'[s].references + kept[s] = heap[s].references + kept'[s],
         \A s \in Cells : heap'[s].references > 0 => SameObject(heap[s], heap'[s])
  PROVE  CacheInv'
<1>1. None \notin Conns
  BY SessionAssumption
<1>2. \A s : ~HasSession(None, s) /\ ~HasSession(None, s)' /\ ~HasConfig(None) /\ ~HasConfig(None)'
  BY <1>1 DEF HasSession, HasConfig
<1>3. \A s : /\ One(HasSession(None, s)) = 0 /\ One(HasSession(None, s)') = 0
             /\ One(HasConfig(None)) = 0 /\ One(HasConfig(None)') = 0
  BY <1>2 DEF One
<1>4. /\ mgr.references \in Nat /\ conn' \in [Conns -> Connections] /\ kept' \in [Cells -> Nat]
      /\ \A s \in Cells : /\ heap'[s].references \in Nat /\ heap[s].references \in Nat
                          /\ kept[s] \in Nat /\ kept'[s] \in Nat
  BY DEF CacheInv, RefInv, HeapOK, Sessions, TypeOK
<1>5. \A s \in Cells :
        heap'[s].references + One(HasSession(None, s)) + kept[s]
          = heap[s].references + One(HasSession(None, s)') + kept'[s]
  BY <1>3, <1>4
<1>6. mgr'.references + One(HasConfig(None)) = mgr.references + One(HasConfig(None)')
  BY <1>3
<1>7. ConnMove(None)
  BY <1>1, <1>4, <1>5, <1>6 DEF ConnMove
<1> QED
  BY <1>7, ConnMoveKeeps

(* HITLS_SESS_Free. *)
LEMMA HITLS_SESS_FreeKeeps ==
  ASSUME CacheInv, NEW x \in Cells, HITLS_SESS_Free(x)
  PROVE  CacheInv'
<1>1. TypeOK /\ HeapOK(heap) /\ kept \in [Cells -> Nat] /\ kept[x] > 0
  BY DEF CacheInv, TypeOK, RefInv, HITLS_SESS_Free
<1>2. heap' = Release(heap, x) /\ kept' = [kept EXCEPT ![x] = @ - 1]
  BY DEF HITLS_SESS_Free
<1>3. heap[x].live
  BY <1>1, HeldIsLive
<1>4. /\ HeapOK(heap')
      /\ \A s \in Cells :
           /\ heap'[s].references + One(x = s) = heap[s].references
           /\ heap'[s].references > 0 => SameObject(heap[s], heap'[s])
  BY <1>1, <1>2, <1>3, ReleaseCounts
<1>5. kept' \in [Cells -> Nat]
  BY <1>1, <1>2
<1>6. ASSUME NEW s \in Cells
      PROVE  heap'[s].references + kept[s] = heap[s].references + kept'[s]
  <2>1. kept'[s] + One(x = s) = kept[s]
    BY <1>1, <1>2 DEF One
  <2>2. /\ heap'[s].references \in Nat /\ One(x = s) \in Nat
        /\ kept[s] \in Nat /\ kept'[s] \in Nat
    BY <1>1, <1>4, <1>5 DEF HeapOK, Sessions, One
  <2> QED
    BY <1>4, <2>1, <2>2
<1>7. UNCHANGED <<role, table, hashCount, mgr, writer, clock, conn, hellos, settings, owned, doomed, corrupted>>
  BY DEF HITLS_SESS_Free
<1>8. TypeOK'
  BY <1>1, <1>4, <1>5, <1>7 DEF TypeOK, HeapOK
<1>9. clock <= clock' /\ mgr'.references = mgr.references
  BY <1>1, <1>7 DEF TypeOK
<1> QED
  BY <1>4, <1>6, <1>7, <1>8, <1>9, StepOfNone

(* SESSMGR_SetCacheMode, SESSMGR_SetCacheSize, and time. *)
LEMMA ConfigureKeeps ==
  ASSUME CacheInv, Configure \/ Tick
  PROVE  CacheInv'
<1>1. /\ TypeOK /\ HeapOK(heap)
      /\ mgr \in [mode : CacheModes, size : Nat, timeout : Nat, references : Nat]
      /\ clock \in 0 .. MaxTime /\ settings \in 0 .. MaxSettings
  BY DEF CacheInv, TypeOK, RefInv
<1>2. mgr' \in [mode : CacheModes, size : Nat, timeout : Nat, references : Nat]
      /\ mgr'.references = mgr.references
  <2>1. CASE Tick
    BY <1>1, <2>1 DEF Tick
  <2>2. CASE \E m \in Modes : mgr' = [mgr EXCEPT !.mode = m]
    BY <1>1, <2>2, SessionAssumption
  <2>3. CASE \E n \in CacheSizes : mgr' = [mgr EXCEPT !.size = n]
    BY <1>1, <2>3, SessionAssumption
  <2> QED
    BY <2>1, <2>2, <2>3 DEF Configure
<1>3. UNCHANGED <<role, heap, table, hashCount, writer, conn, kept, hellos, owned, doomed, corrupted>>
  BY DEF Configure, Tick
<1>4. clock' \in 0 .. MaxTime /\ clock <= clock' /\ settings' \in 0 .. MaxSettings
  BY <1>1, SessionAssumption DEF Configure, Tick
<1>5. TypeOK'
  BY <1>1, <1>2, <1>3, <1>4 DEF TypeOK
<1>6. /\ HeapOK(heap')
      /\ \A s \in Cells : heap'[s].references + kept[s] = heap[s].references + kept'[s]
      /\ \A s \in Cells : SameObject(heap[s], heap'[s])
  BY <1>1, <1>3 DEF SameObject
<1> QED
  BY <1>2, <1>3, <1>4, <1>5, <1>6, StepOfNone

-----------------------------------------------------------------------------
(* The steps that change the table. *)

(* SESSMGR_InsertSession: the table gets a reference of its own. *)
LEMMA InsertSessionKeeps ==
  ASSUME CacheInv, NEW c \in Conns, InsertSession(c)
  PROVE  CacheInv'
<1> DEFINE r == [conn[c] EXCEPT !.pc = "callback"]
           x == conn[c].session
           k == conn[c].sessionId
<1>1. /\ conn[c] \in Connections /\ TypeOK /\ HeapOK(heap) /\ conn \in [Conns -> Connections]
      /\ conn[c].pc = "insert" /\ ConnOK(c) /\ WellHashed(table) /\ kept \in [Cells -> Nat]
      /\ hashCount = Cardinality(Nodes(table)) /\ IsFiniteSet(Nodes(table)) /\ hashCount \in Nat
  BY DEF CacheInv, TypeOK, RefInv, TableInv, InsertSession, ConnInv
<1>2. conn' = [conn EXCEPT ![c] = r] /\ conn'[c] = r /\ \A d \in Conns \ {c} : conn'[d] = conn[d]
  BY <1>1 DEF InsertSession, Move
<1>3. r \in Connections /\ r.pc = "callback" /\ r.session = x /\ r.curTime = conn[c].curTime
  BY <1>1 DEF Connections, Points
<1> HIDE DEF r
<1>4. /\ UNCHANGED <<role, mgr, writer, clock, kept, hellos, settings, owned, doomed, corrupted>>
      /\ writer = None
  BY DEF InsertSession, LockFree
<1>5. ConnOK(c)'
  BY <1>1, <1>2, <1>3, <1>4, NothingRelied
<1>6. x \in Cells /\ heap[x].live /\ k \in Keys /\ heap[x].id = k
  BY <1>1, HeldIsLive DEF ConnOK, Connections
<1>7. CASE UNCHANGED <<table, hashCount, heap>>
  <2>1. Aside(c)
    BY <1>1, <1>4, <1>7 DEF Aside, TypeOK
  <2> QED
    BY <1>1, <1>2, <1>3, <1>4, <1>5, <1>7, <2>1, PlainStepOfConn
<1>8. CASE ~HasKey(table, k) /\ table' = Insert(table, k, x) /\ table' # table
           /\ hashCount' = hashCount + 1 /\ heap' = UpRef(heap, x)
  <2> DEFINE n == Node(k, x)
  <2>1. WellHashed(table') /\ Nodes(table') = Nodes(table) \cup {n} /\ n \notin Nodes(table)
    BY <1>1, <1>6, <1>8, InsertAdds
  <2>2. /\ HeapOK(heap')
        /\ \A s \in Cells :
             /\ heap'[s].references = heap[s].references + One(x = s)
             /\ SameObject(heap[s], heap'[s])
    BY <1>1, <1>6, <1>8, UpRefCounts
  <2>3. conn' \in [Conns -> Connections]
    BY <1>1, <1>2, <1>3
  <2>4. TypeOK'
    BY SMTT(30), <1>1, <1>4, <1>8, <2>1, <2>2, <2>3 DEF TypeOK, WellHashed, HeapOK
  <2>5. TableInv'
    <3>1. IsFiniteSet(Nodes(table')) /\ hashCount' = Cardinality(Nodes(table'))
      BY <1>1, <1>8, <2>1, FS_AddElement
    <3>2. \A m \in Nodes(table) : heap'[m.value].id = m.key
      BY <2>2, HeldIsLive DEF CacheInv, TableInv, SameObject
    <3>3. heap'[n.value].id = n.key
      BY <1>6, <2>2 DEF Node, SameObject
    <3> QED
      BY <2>1, <3>1, <3>2, <3>3 DEF TableInv
  <2>6. ASSUME NEW s \in Cells
        PROVE  heap'[s].references = Cardinality(ConnsOf(s)') + Cardinality(NodesOf(s)') + kept'[s]
    <3>1. ConnsOf(s)' = ConnsOf(s)
      BY <1>2, <1>3 DEF ConnsOf
    <3>2. /\ Cardinality(ConnsOf(s)) \in Nat /\ Cardinality(NodesOf(s)) \in Nat
          /\ IsFiniteSet(NodesOf(s)) /\ kept[s] \in Nat
          /\ heap[s].references = Cardinality(ConnsOf(s)) + Cardinality(NodesOf(s)) + kept[s]
      BY <1>1, CountTypes DEF CacheInv, RefInv
    <3>3. Cardinality(NodesOf(s)') = Cardinality(NodesOf(s)) + One(x = s)
      <4>1. CASE x = s
        <5>1. NodesOf(s)' = NodesOf(s) \cup {n} /\ n \notin NodesOf(s)
          BY <2>1, <4>1 DEF NodesOf, Node
        <5>2. Cardinality(NodesOf(s) \cup {n}) = Cardinality(NodesOf(s)) + 1
          BY <3>2, <5>1, FS_AddElement
        <5>3. One(x = s) = 1
          BY <4>1 DEF One
        <5> HIDE DEF n
        <5> QED
          BY <5>1, <5>2, <5>3
      <4>2. CASE x # s
        <5>1. NodesOf(s)' = NodesOf(s)
          BY <2>1, <4>2 DEF NodesOf, Node
        <5> QED
          BY <3>2, <4>2, <5>1 DEF One
      <4> QED
        BY <4>1, <4>2
    <3>4. One(x = s) \in Nat
      BY DEF One
    <3> QED
      BY <1>4, <2>2, <3>1, <3>2, <3>3, <3>4
  <2>7. mgr'.references = Cardinality(Configured') + One(owned') /\ MgrAlive'
    <3>1. Configured' = Configured
      BY <1>1, <1>2, <1>3 DEF Configured
    <3>2. c \in Configured /\ IsFiniteSet(Configured)
      <4>1. Configured \in SUBSET Conns
        BY DEF Configured
      <4> QED
        BY <1>1, <4>1, FS_Subset, SessionAssumption DEF Configured
    <3>3. Cardinality(Configured) # 0 /\ Cardinality(Configured) \in Nat
      BY <3>2, CountTypes, FS_EmptySet
    <3>4. mgr.references = Cardinality(Configured) + One(owned) /\ One(owned) \in Nat
      BY DEF CacheInv, RefInv, One
    <3>5. mgr.references > 0
      BY <3>3, <3>4
    <3> QED
      BY <1>4, <3>1, <3>4, <3>5 DEF MgrAlive
  <2>8. RefInv'
    BY <2>2, <2>6, <2>7 DEF RefInv
  <2>9. ASSUME NEW d \in Conns
        PROVE  ConnOK(d)'
    <3>1. CASE d = c
      BY <1>5, <3>1
    <3>2. CASE d # c
      <4>1. ConnOK(d) /\ conn'[d] = conn[d] /\ writer' = writer /\ clock' = clock /\ conn[d].pc # "clear"
        <5>1. ConnOK(d) /\ writer # d
          BY <1>4, SessionAssumption DEF CacheInv, ConnInv
        <5>2. conn[d].pc # "clear"
          BY <5>1 DEF ConnOK
        <5> QED
          BY <1>2, <1>4, <3>2, <5>1, <5>2
      <4>2. conn[d].session # None => heap'[conn[d].session].id = heap[conn[d].session].id
        BY <2>2, HeldIsLive DEF SameObject
      <4> QED
        BY <4>1, <4>2 DEF ConnOK
    <3> QED
      BY <3>1, <3>2
  <2> QED
    BY <2>4, <2>5, <2>8, <2>9 DEF CacheInv, ConnInv
<1>9. CASE AddToTable(c)
  <2>1. CASE HasKey(table, k)
    <3>1. Insert(table, k, x) = table
      BY <2>1 DEF Insert
    <3> QED
      BY <1>7, <1>9, <3>1 DEF AddToTable
  <2>2. CASE ~HasKey(table, k)
    <3>1. Insert(table, k, x) # table
      BY <1>1, <1>6, <2>2, InsertAdds
    <3> QED
      BY <1>8, <1>9, <2>2, <3>1 DEF AddToTable
  <2> QED
    BY <2>1, <2>2
<1> QED
  BY <1>7, <1>9 DEF InsertSession

-----------------------------------------------------------------------------
(* The walk over the table. *)

(* The order in which an iterator meets the keys. *)
Before(t, j, k) ==
  \/ HashCode(j) < HashCode(k)
  \/ HashCode(j) = HashCode(k) /\ FindNode(t, j) < FindNode(t, k)

(* BSL_HASH_Next goes to the key behind this one, and misses none. *)
LEMMA IterNextFinds ==
  ASSUME NEW t, WellHashed(t), NEW it \in Keys, HasKey(t, it)
  PROVE  \/ /\ IterNext(t, it) = IterEnd
            /\ \A k \in Keys : HasKey(t, k) => ~Before(t, it, k)
         \/ /\ IterNext(t, it) \in Keys
            /\ HasKey(t, IterNext(t, it))
            /\ IterNext(t, it) # it
            /\ \A k \in Keys : HasKey(t, k) /\ Before(t, it, k) =>
                 k = IterNext(t, it) \/ Before(t, IterNext(t, it), k)
<1> DEFINE h == HashCode(it)
           i == FindNode(t, it)
           next == IterNext(t, it)
<1>1. h \in Buckets /\ h \in Nat /\ h + 1 \in Nat /\ i \in DOMAIN t[h] /\ t[h][i].key = it
  BY FindNodeFinds DEF Buckets
<1>2. /\ t[h] \in Seq(NodeType) /\ Len(t[h]) \in Nat /\ DOMAIN t[h] = 1 .. Len(t[h])
      /\ i \in 1 .. Len(t[h])
  <2>1. t[h] \in Seq(NodeType)
    BY <1>1 DEF WellHashed
  <2> QED
    BY <1>1, <2>1
<1>3. \A k \in Keys : HasKey(t, k) =>
        /\ HashCode(k) \in Buckets /\ HashCode(k) \in Nat
        /\ FindNode(t, k) \in DOMAIN t[HashCode(k)] /\ FindNode(t, k) \in Nat
        /\ FindNode(t, k) >= 1 /\ t[HashCode(k)][FindNode(t, k)].key = k
  <2> SUFFICES ASSUME NEW k \in Keys, HasKey(t, k)
               PROVE  /\ HashCode(k) \in Buckets /\ HashCode(k) \in Nat
                      /\ FindNode(t, k) \in DOMAIN t[HashCode(k)] /\ FindNode(t, k) \in Nat
                      /\ FindNode(t, k) >= 1 /\ t[HashCode(k)][FindNode(t, k)].key = k
    OBVIOUS
  <2>1. /\ HashCode(k) \in Buckets /\ FindNode(t, k) \in DOMAIN t[HashCode(k)]
        /\ t[HashCode(k)][FindNode(t, k)].key = k
    BY FindNodeFinds
  <2>2. t[HashCode(k)] \in Seq(NodeType)
    BY <2>1 DEF WellHashed
  <2> QED
    BY <2>1, <2>2 DEF Buckets
<1>4. CASE i < Len(t[h])
  <2>1. next = t[h][i + 1].key /\ i + 1 \in DOMAIN t[h]
    BY <1>2, <1>4 DEF IterNext
  <2>2. next \in Keys /\ HashCode(next) = h /\ t[h][i + 1] \in Nodes(t)
    <3>1. t[h][i + 1] \in NodeType
      BY <1>2, <2>1
    <3>2. HashCode(t[h][i + 1].key) = h
      BY <1>1, <2>1 DEF WellHashed
    <3>3. t[h][i + 1] \in Nodes(t)
      BY <1>1, <2>1 DEF Nodes, Range
    <3> HIDE DEF next, h, i
    <3> QED
      BY <2>1, <3>1, <3>2, <3>3 DEF NodeType
  <2>3. HasKey(t, next)
    BY <2>1, <2>2, NodesFound
  <2>4. FindNode(t, next) = i + 1
    <3> DEFINE p == FindNode(t, next)
    <3>1. p \in DOMAIN t[h] /\ t[h][p].key = next
      BY <1>3, <2>2, <2>3
    <3>2. t[h][p].key = t[h][i + 1].key
      BY <2>1, <3>1
    <3> HIDE DEF p, h, i, next
    <3>3. p = i + 1
      BY <1>1, <2>1, <3>1, <3>2 DEF WellHashed
    <3> QED
      BY <3>3 DEF p
  <2> HIDE DEF next, h
  <2>5. next # it
    BY <1>2, <2>4
  <2>6. ASSUME NEW k \in Keys, HasKey(t, k), Before(t, it, k)
        PROVE  k = next \/ Before(t, next, k)
    <3>1. CASE h < HashCode(k)
      BY <2>2, <3>1 DEF Before
    <3>2. CASE h = HashCode(k) /\ i < FindNode(t, k)
      <4>1. CASE FindNode(t, k) = i + 1
        BY <1>3, <2>1, <2>6, <3>2, <4>1
      <4>2. CASE FindNode(t, k) > i + 1
        BY <2>2, <2>4, <3>2, <4>2 DEF Before
      <4> QED
        BY <1>2, <1>3, <2>6, <3>2, <4>1, <4>2
    <3> QED
      BY <2>6, <3>1, <3>2 DEF Before, h
  <2> QED
    BY <2>2, <2>3, <2>5, <2>6 DEF next
<1>5. CASE ~(i < Len(t[h]))
  <2>1. next = FirstFrom(t, h + 1)
    BY <1>5 DEF IterNext
  <2>2. i = Len(t[h])
    BY <1>2, <1>5
  <2>3. ASSUME NEW k \in Keys, HasKey(t, k), Before(t, it, k)
        PROVE  HashCode(k) >= h + 1 /\ t[HashCode(k)] # <<>>
    <3>1. h < HashCode(k)
      <4>1. h = HashCode(k) => FindNode(t, k) \in 1 .. Len(t[h])
        BY <1>2, <1>3, <2>3
      <4> QED
        BY <1>2, <2>2, <2>3, <4>1 DEF Before
    <3>2. DOMAIN t[HashCode(k)] # {}
      BY <1>3, <2>3
    <3> QED
      BY <1>1, <1>3, <2>3, <3>1, <3>2
  <2>4. CASE next = IterEnd /\ \A b \in Buckets : b >= h + 1 => t[b] = <<>>
    <3>1. ASSUME NEW k \in Keys, HasKey(t, k)
          PROVE  ~Before(t, it, k)
      BY <1>3, <2>3, <2>4, <3>1
    <3> QED
      BY <2>4, <3>1
  <2>5. CASE /\ next \in Keys /\ HasKey(t, next) /\ FindNode(t, next) = 1
             /\ HashCode(next) >= h + 1
             /\ \A b \in Buckets : b >= h + 1 /\ b < HashCode(next) => t[b] = <<>>
    <3>1. next # it
      BY <1>1, <1>3, <2>5
    <3> HIDE DEF next
    <3>2. ASSUME NEW k \in Keys, HasKey(t, k), Before(t, it, k)
          PROVE  k = next \/ Before(t, next, k)
      <4>1. HashCode(k) >= HashCode(next)
        BY <1>3, <2>3, <2>5, <3>2
      <4>2. CASE HashCode(k) = HashCode(next) /\ FindNode(t, k) = 1
        BY <1>3, <2>5, <3>2, <4>2
      <4>3. CASE HashCode(k) = HashCode(next) /\ FindNode(t, k) # 1
        BY <1>3, <2>5, <3>2, <4>3 DEF Before
      <4>4. CASE HashCode(k) > HashCode(next)
        BY <4>4, <1>3, <2>5, <3>2 DEF Before
      <4> QED
        BY <1>3, <2>5, <3>2, <4>1, <4>2, <4>3, <4>4
    <3> QED
      BY <2>5, <3>1, <3>2 DEF next
  <2> QED
    BY <1>1, <2>1, <2>4, <2>5, FirstFromFinds
<1> QED
  BY <1>4, <1>5

(* BSL_HASH_Erase leaves the order of the other nodes. *)
LEMMA EraseOrder ==
  ASSUME NEW t, WellHashed(t), NEW k \in Keys, HasKey(t, k),
         NEW m \in Keys \ {k}, HasKey(t, m), NEW n \in Keys \ {k}, HasKey(t, n),
         Before(t, m, n)
  PROVE  Before(Erase(t, k), m, n)
<1> DEFINE h == HashCode(k)
           x == FindNode(t, k)
           u == Erase(t, k)
           Back(j) == IF j < x THEN j ELSE j - 1
<1>1. h \in Buckets /\ x \in DOMAIN t[h] /\ t[h][x].key = k /\ t[h] \in Seq(NodeType)
  BY FindNodeFinds DEF WellHashed
<1>2. /\ Len(t[h]) \in Nat /\ DOMAIN t[h] = 1 .. Len(t[h]) /\ x \in 1 .. Len(t[h])
  BY <1>1
<1>3. WellHashed(u) /\ Nodes(u) = Nodes(t) \ {Node(k, At(t, k))}
  BY EraseRemoves
<1>4. /\ u[h] = RemoveAt(t[h], x)
      /\ \A b \in Buckets \ {h} : u[b] = t[b]
  BY <1>1 DEF Erase, WellHashed
<1>5. /\ Len(u[h]) = Len(t[h]) - 1
      /\ \A j \in 1 .. Len(t[h]) - 1 : u[h][j] = IF j < x THEN t[h][j] ELSE t[h][j + 1]
  BY SMTT(30), <1>1, <1>4, RemoveAtElements
<1>6. u[h] \in Seq(NodeType) /\ DOMAIN u[h] = 1 .. Len(t[h]) - 1
  <2>1. u[h] \in Seq(NodeType)
    BY <1>1, <1>3 DEF WellHashed
  <2> QED
    BY <1>5, <2>1
<1> HIDE DEF u
<1>7. ASSUME NEW j \in Keys \ {k}, HasKey(t, j)
      PROVE  /\ HashCode(j) # h => FindNode(u, j) = FindNode(t, j)
             /\ HashCode(j) = h =>
                  /\ FindNode(u, j) = Back(FindNode(t, j))
                  /\ FindNode(t, j) # x /\ FindNode(t, j) \in Nat
  <2>1. /\ HashCode(j) \in Buckets /\ FindNode(t, j) \in DOMAIN t[HashCode(j)]
        /\ t[HashCode(j)][FindNode(t, j)].key = j
    BY <1>7, FindNodeFinds
  <2>2. HasKey(u, j)
    <3>1. Node(j, At(t, j)) \in Nodes(t) /\ Node(j, At(t, j)).key = j
      BY <1>7, NodesFound DEF Node
    <3>2. Node(k, At(t, k)).key = k
      BY DEF Node
    <3>3. Node(j, At(t, j)) \in Nodes(u)
      BY <1>3, <1>7, <3>1, <3>2
    <3> QED
      BY <1>3, <3>1, <3>3, NodesFound
  <2>3. FindNode(u, j) \in DOMAIN u[HashCode(j)] /\ u[HashCode(j)][FindNode(u, j)].key = j
    BY <1>3, <2>2, FindNodeFinds
  <2>4. CASE HashCode(j) # h
    BY <1>4, <2>1, <2>3, <2>4 DEF WellHashed
  <2>5. CASE HashCode(j) = h
    <3> DEFINE i == FindNode(t, j)
    <3>1. i \in 1 .. Len(t[h]) /\ t[h][i].key = j /\ i # x
      BY <1>1, <1>2, <2>1, <2>5
    <3> HIDE DEF i
    <3>2. Back(i) \in 1 .. Len(t[h]) - 1
      BY <1>2, <3>1
    <3>3. u[h][Back(i)] = t[h][i]
      <4>1. CASE i < x
        BY <1>2, <1>5, <3>1, <3>2, <4>1
      <4>2. CASE i > x
        <5>1. Back(i) = i - 1 /\ ~(i - 1 < x) /\ i - 1 + 1 = i
          BY <1>2, <3>1, <4>2
        <5> QED
          BY <1>5, <3>2, <5>1
      <4> QED
        BY <1>2, <3>1, <4>1, <4>2
    <3>4. FindNode(u, j) = Back(i)
      <4>1. FindNode(u, j) \in DOMAIN u[h] /\ u[h][FindNode(u, j)].key = u[h][Back(i)].key
        BY <2>3, <2>5, <3>1, <3>3
      <4>2. Back(i) \in DOMAIN u[h]
        BY <1>6, <3>2
      <4> HIDE DEF Back
      <4> QED
        BY <1>1, <1>3, <4>1, <4>2 DEF WellHashed
    <3> QED
      BY <2>5, <3>1, <3>4 DEF i
  <2> QED
    BY <2>4, <2>5
<1>8. x \in Nat
  BY <1>2
<1>9. CASE HashCode(m) < HashCode(n)
  BY <1>9 DEF Before
<1>10. CASE HashCode(m) = HashCode(n) /\ FindNode(t, m) < FindNode(t, n)
  <2>1. CASE HashCode(m) # h
    BY <1>7, <1>10, <2>1 DEF Before, u
  <2>2. CASE HashCode(m) = h
    <3>1. /\ FindNode(u, m) = Back(FindNode(t, m)) /\ FindNode(t, m) # x /\ FindNode(t, m) \in Nat
          /\ FindNode(u, n) = Back(FindNode(t, n)) /\ FindNode(t, n) # x /\ FindNode(t, n) \in Nat
      BY <1>7, <1>10, <2>2
    <3> HIDE DEF x
    <3>2. FindNode(u, m) < FindNode(u, n)
      BY <1>8, <1>10, <3>1
    <3> QED
      BY <1>10, <3>2 DEF Before, u
  <2> QED
    BY <2>1, <2>2
<1> QED
  BY <1>9, <1>10 DEF Before

(* A round of the clearing that erases the node the iterator is at. *)
LEMMA EraseNodeKeeps ==
  ASSUME CacheInv, NEW c \in Conns, ClearNode(c),
         ~Valid(heap[At(table, conn[c].it)], conn[c].curTime)
  PROVE  CacheInv'
<1> DEFINE it == conn[c].it
           x == At(table, it)
           n == Node(it, x)
           r == [conn[c] EXCEPT !.it = IterNext(table, it)]
<1>1. /\ conn[c] \in Connections /\ TypeOK /\ HeapOK(heap) /\ conn \in [Conns -> Connections]
      /\ conn[c].pc = "clear" /\ it # IterEnd /\ ConnOK(c) /\ WellHashed(table)
      /\ kept \in [Cells -> Nat] /\ writer = c
      /\ hashCount = Cardinality(Nodes(table)) /\ IsFiniteSet(Nodes(table)) /\ hashCount \in Nat
  BY DEF CacheInv, TypeOK, RefInv, TableInv, ClearNode, ConnInv, ConnOK
<1>2. it \in Keys /\ HasKey(table, it)
  BY <1>1 DEF ConnOK, Connections
<1>3. x \in Cells /\ n \in Nodes(table) /\ n.key = it /\ n.value = x /\ heap[x].live
  <2>1. x \in Cells /\ n \in Nodes(table)
    BY <1>1, <1>2, NodesFound
  <2>2. n.key = it /\ n.value = x
    BY DEF Node
  <2> QED
    BY <2>1, <2>2, HeldIsLive
<1>4. WellHashed(table') /\ Nodes(table') = Nodes(table) \ {n}
  BY <1>1, <1>2, EraseRemoves DEF ClearNode
<1>5. /\ hashCount' = hashCount - 1 /\ heap' = Release(heap, x)
      /\ UNCHANGED <<role, mgr, writer, clock, kept, hellos, settings, owned, doomed, corrupted>>
      /\ table' = Erase(table, it)
  BY DEF ClearNode
<1>6. /\ IterNext(table, it) \in Keys \cup {IterEnd}
      /\ IterNext(table, it) # IterEnd => HasKey(table', IterNext(table, it))
  <2>1. \/ IterNext(table, it) = IterEnd
        \/ /\ IterNext(table, it) \in Keys /\ HasKey(table, IterNext(table, it))
           /\ IterNext(table, it) # it
    BY <1>1, <1>2, IterNextFinds
  <2> DEFINE k == IterNext(table, it)
  <2>2. CASE k \in Keys /\ HasKey(table, k) /\ k # it
    <3>1. Node(k, At(table, k)) \in Nodes(table) /\ Node(k, At(table, k)).key = k
      BY <1>1, <2>2, NodesFound DEF Node
    <3>2. Node(k, At(table, k)) \in Nodes(table')
      BY <1>3, <1>4, <2>2, <3>1
    <3> QED
      BY <1>4, <2>2, <3>1, <3>2, NodesFound
  <2> QED
    BY <2>1, <2>2
<1>7. conn' = [conn EXCEPT ![c] = r] /\ conn'[c] = r /\ \A d \in Conns \ {c} : conn'[d] = conn[d]
  BY <1>1 DEF ClearNode
<1>8. /\ r \in Connections /\ r.pc = "clear" /\ r.session = conn[c].session
      /\ r.curTime = conn[c].curTime /\ r.it = IterNext(table, it)
  BY <1>1, <1>6 DEF Connections
<1> HIDE DEF r, x, n
<1>9. /\ HeapOK(heap')
      /\ \A s \in Cells :
           /\ heap'[s].references + One(x = s) = heap[s].references
           /\ heap'[s].references > 0 => SameObject(heap[s], heap'[s])
  BY <1>1, <1>3, <1>5, ReleaseCounts
<1>10. hashCount' \in Nat /\ IsFiniteSet(Nodes(table')) /\ hashCount' = Cardinality(Nodes(table'))
  <2>1. /\ IsFiniteSet(Nodes(table'))
        /\ Cardinality(Nodes(table) \ {n}) = Cardinality(Nodes(table)) - 1
    BY <1>1, <1>3, <1>4, FS_RemoveElement
  <2>2. Cardinality(Nodes(table')) \in Nat
    BY <2>1, FS_CardinalityType
  <2> QED
    BY <1>1, <1>4, <1>5, <2>1, <2>2
<1>11. TypeOK'
  <2>1. conn' \in [Conns -> Connections]
    BY <1>1, <1>7, <1>8
  <2> QED
    BY <1>1, <1>4, <1>5, <1>9, <1>10, <2>1 DEF TypeOK, WellHashed, HeapOK
<1>12. ASSUME NEW s \in Cells
       PROVE  /\ heap'[s].references = Cardinality(ConnsOf(s)') + Cardinality(NodesOf(s)') + kept'[s]
              /\ Cardinality(ConnsOf(s)') \in Nat /\ Cardinality(NodesOf(s)') \in Nat
              /\ IsFiniteSet(ConnsOf(s)') /\ IsFiniteSet(NodesOf(s)')
  <2>1. ConnsOf(s)' = ConnsOf(s)
    BY <1>7, <1>8 DEF ConnsOf
  <2>2. /\ Cardinality(ConnsOf(s)) \in Nat /\ Cardinality(NodesOf(s)) \in Nat
        /\ IsFiniteSet(ConnsOf(s)) /\ IsFiniteSet(NodesOf(s)) /\ kept[s] \in Nat
        /\ heap[s].references = Cardinality(ConnsOf(s)) + Cardinality(NodesOf(s)) + kept[s]
    BY <1>1, CountTypes DEF CacheInv, RefInv
  <2>3. /\ Cardinality(NodesOf(s)') + One(x = s) = Cardinality(NodesOf(s))
        /\ Cardinality(NodesOf(s)') \in Nat /\ IsFiniteSet(NodesOf(s)')
    <3>1. CASE x = s
      <4>1. NodesOf(s)' = NodesOf(s) \ {n} /\ n \in NodesOf(s)
        BY <1>3, <1>4, <3>1 DEF NodesOf
      <4>2. /\ IsFiniteSet(NodesOf(s) \ {n})
            /\ Cardinality(NodesOf(s) \ {n}) = Cardinality(NodesOf(s)) - 1
        BY <2>2, <4>1, FS_RemoveElement
      <4>3. Cardinality(NodesOf(s) \ {n}) \in Nat
        BY <4>2, FS_CardinalityType
      <4>4. One(x = s) = 1
        BY <3>1 DEF One
      <4> QED
        BY <2>2, <4>1, <4>2, <4>3, <4>4
    <3>2. CASE x # s
      <4>1. NodesOf(s)' = NodesOf(s)
        BY <1>3, <1>4, <3>2 DEF NodesOf
      <4>2. One(x = s) = 0
        BY <3>2 DEF One
      <4> QED
        BY <2>2, <4>1, <4>2
    <3> QED
      BY <3>1, <3>2
  <2>4. One(x = s) \in Nat /\ heap'[s].references \in Nat
    BY <1>9 DEF One, HeapOK, Sessions
  <2> QED
    BY <1>5, <1>9, <2>1, <2>2, <2>3, <2>4
<1>13. \A m \in Nodes(table') : heap'[m.value].references > 0
  <2> SUFFICES ASSUME NEW m \in Nodes(table')
               PROVE  heap'[m.value].references > 0
    OBVIOUS
  <2>1. m.value \in Cells
    BY <1>4, NodesFound DEF NodeType
  <2>2. PICK s \in Cells : s = m.value
    BY <2>1
  <2>3. m \in NodesOf(s)'
    BY <2>2 DEF NodesOf
  <2>4. Cardinality(NodesOf(s)') # 0
    BY <1>12, <2>3, FS_EmptySet
  <2>5. heap'[s].references > 0
    BY <1>1, <1>5, <1>12, <2>4
  <2> QED
    BY <2>2, <2>5
<1>14. TableInv'
  <2>1. ASSUME NEW m \in Nodes(table')
        PROVE  heap'[m.value].id = m.key
    <3>1. m \in Nodes(table) /\ m.value \in Cells
      BY <1>4, HeldIsLive
    <3>2. SameObject(heap[m.value], heap'[m.value])
      BY <1>9, <1>13, <3>1
    <3> QED
      BY <3>1, <3>2 DEF CacheInv, TableInv, SameObject
  <2> QED
    BY <1>4, <1>10, <2>1 DEF TableInv
<1>15. RefInv'
  <2>1. Configured' = Configured
    BY <1>1, <1>7, <1>8 DEF Configured
  <2>2. ~MgrAlive' => Nodes(table') = {}
    BY <1>4, <1>5 DEF CacheInv, RefInv, MgrAlive
  <2>3. mgr'.references = Cardinality(Configured') + One(owned')
    BY <1>5, <2>1 DEF CacheInv, RefInv
  <2> QED
    BY <1>9, <1>12, <2>2, <2>3 DEF RefInv
<1>16. ASSUME NEW d \in Conns
       PROVE  ConnOK(d)'
  <2>1. CASE d = c
    BY <1>1, <1>5, <1>6, <1>7, <1>8, <2>1 DEF ConnOK
  <2>2. CASE d # c
    <3>1. ConnOK(d) /\ conn'[d] = conn[d] /\ conn[d].pc # "clear"
      <4>1. ConnOK(d) /\ writer # d
        BY <1>1, <2>2 DEF CacheInv, ConnInv
      <4> QED
        BY <1>7, <2>2, <4>1 DEF ConnOK
    <3>2. conn[d].session # None => heap'[conn[d].session].id = heap[conn[d].session].id
      <4> SUFFICES ASSUME conn[d].session # None
                   PROVE  heap'[conn[d].session].id = heap[conn[d].session].id
        OBVIOUS
      <4>1. PICK s \in Cells : s = conn[d].session
        BY HeldIsLive
      <4>2. d \in ConnsOf(s)'
        BY <3>1, <4>1 DEF ConnsOf
      <4>3. Cardinality(ConnsOf(s)') # 0
        BY <1>12, <4>2, FS_EmptySet
      <4>4. heap'[s].references > 0
        BY <1>1, <1>5, <1>12, <4>3
      <4> QED
        BY <1>9, <4>1, <4>4 DEF SameObject
    <3> QED
      BY <1>5, <3>1, <3>2 DEF ConnOK
  <2> QED
    BY <2>1, <2>2
<1> QED
  BY <1>11, <1>14, <1>15, <1>16 DEF CacheInv, ConnInv

(* A round of the clearing. *)
LEMMA ClearNodeKeeps ==
  ASSUME CacheInv, NEW c \in Conns, ClearNode(c)
  PROVE  CacheInv'
<1> DEFINE it == conn[c].it
           r == [conn[c] EXCEPT !.it = IterNext(table, it)]
<1>1. CASE Valid(heap[At(table, it)], conn[c].curTime)
  <2>1. /\ conn[c] \in Connections /\ TypeOK /\ conn \in [Conns -> Connections]
        /\ conn[c].pc = "clear" /\ it # IterEnd /\ ConnOK(c) /\ WellHashed(table)
    BY DEF CacheInv, TypeOK, TableInv, ClearNode, ConnInv
  <2>2. it \in Keys /\ HasKey(table, it)
    BY <2>1 DEF ConnOK, Connections
  <2>3. /\ IterNext(table, it) \in Keys \cup {IterEnd}
        /\ IterNext(table, it) # IterEnd => HasKey(table, IterNext(table, it))
    BY <2>1, <2>2, IterNextFinds
  <2>4. conn' = [conn EXCEPT ![c] = r] /\ conn'[c] = r
    BY <2>1 DEF ClearNode
  <2>5. /\ r \in Connections /\ r.pc = "clear" /\ r.session = conn[c].session
        /\ r.curTime = conn[c].curTime /\ r.it = IterNext(table, it)
    BY <2>1, <2>3 DEF Connections
  <2> HIDE DEF r
  <2>6. /\ UNCHANGED <<role, heap, table, hashCount, mgr, writer, clock, kept, hellos,
                       settings, owned, doomed, corrupted>>
    BY <1>1 DEF ClearNode
  <2>7. Aside(c)
    BY <2>1, <2>6 DEF Aside, TypeOK
  <2>8. ConnOK(c)'
    BY <2>1, <2>3, <2>4, <2>5, <2>6 DEF ConnOK
  <2> QED
    BY <2>1, <2>4, <2>5, <2>6, <2>7, <2>8, PlainStepOfConn
<1> QED
  BY <1>1, EraseNodeKeeps

-----------------------------------------------------------------------------
(* The manager is freed. *)

(* Several calls of HITLS_SESS_Free, fewer than or as many as references. *)
LEMMA ReleaseTimesCounts ==
  ASSUME NEW x \in Sessions, x.live <=> x.references > 0, NEW k \in Nat, k <= x.references
  PROVE  /\ ReleaseTimes(x, k) \in Sessions
         /\ ReleaseTimes(x, k).references = x.references - k
         /\ ReleaseTimes(x, k).live <=> ReleaseTimes(x, k).references > 0
         /\ ReleaseTimes(x, k).references > 0 => ReleaseTimes(x, k).id = x.id
<1>1. x.references \in Nat
  BY DEF Sessions
<1>2. CASE k = 0
  BY <1>1, <1>2 DEF ReleaseTimes
<1>3. CASE k # 0 /\ x.references > k
  BY <1>1, <1>3 DEF ReleaseTimes, Sessions
<1>4. CASE k # 0 /\ ~(x.references > k)
  <2>1. ReleaseTimes(x, k) = Freed
    BY <1>4 DEF ReleaseTimes
  <2>2. Freed \in Sessions /\ Freed.references = 0 /\ ~Freed.live
    BY SessionAssumption DEF Freed, Sessions
  <2>3. x.references = k
    BY <1>1, <1>4
  <2> QED
    BY <1>1, <2>1, <2>2, <2>3
<1> QED
  BY <1>2, <1>3, <1>4

(* BSL_HASH_Create. *)
LEMMA EmptyTableEmpty ==
  WellHashed(EmptyTable) /\ Nodes(EmptyTable) = {}
<1>1. \A b \in Buckets : EmptyTable[b] = << >>
  BY DEF EmptyTable
<1>2. EmptyTable \in [Buckets -> Seq(NodeType)]
  BY DEF EmptyTable
<1>3. DOMAIN << >> = {}
  OBVIOUS
<1>4. \A b \in Buckets : DOMAIN EmptyTable[b] = {}
  BY <1>1, <1>3
<1>5. Nodes(EmptyTable) = {}
  BY <1>4 DEF Nodes, Range
<1> QED
  BY <1>2, <1>4, <1>5 DEF WellHashed

(* The references to the manager fall with their number of holders: a       *)
(* connection, or the application, lets go of its configuration.            *)
LEMMA FreeManagerKeeps ==
  ASSUME CacheInv, LockFree, FreeManager,
         conn' \in [Conns -> Connections],
         \A d \in Conns : conn'[d].session = conn[d].session /\ conn'[d].curTime = conn[d].curTime,
         \A d \in Conns : conn'[d] = conn[d] \/ conn'[d].pc = "gone",
         mgr.references - 1 = Cardinality(Configured') + One(owned'),
         owned' \in BOOLEAN, Cardinality(Configured') \in Nat,
         \A d \in Conns : conn'[d].pc \in {"mode", "insert", "clear"} => d \in Configured',
         IsFiniteSet(Configured'),
         settings' \in 0 .. MaxSettings,
         UNCHANGED <<role, writer, clock, kept, hellos, doomed, corrupted>>
  PROVE  CacheInv'
<1>1. /\ TypeOK /\ HeapOK(heap) /\ WellHashed(table) /\ kept \in [Cells -> Nat]
      /\ mgr.references \in Nat /\ writer = None
  BY DEF CacheInv, TypeOK, RefInv, TableInv, LockFree
<1>2. One(owned') \in Nat
  BY DEF One
<1>3. mgr' = [mgr EXCEPT !.references = @ - 1] /\ mgr'.references = mgr.references - 1
      /\ mgr' \in [mode : CacheModes, size : Nat, timeout : Nat, references : Nat]
  <2>1. mgr.references - 1 \in Nat
    BY <1>1, <1>2
  <2> QED
    BY <1>1, <2>1 DEF FreeManager, TypeOK
<1>4. \A s : ConnsOf(s)' = ConnsOf(s)
  BY DEF ConnsOf
<1>5. CASE mgr.references > 1
  <2>1. UNCHANGED <<heap, table, hashCount>>
    BY <1>5 DEF FreeManager
  <2>2. TypeOK'
    BY <1>1, <1>3, <2>1 DEF TypeOK
  <2>3. \A s : NodesOf(s)' = NodesOf(s)
    BY <2>1 DEF NodesOf
  <2>4. MgrAlive' /\ TableInv'
    BY <1>1, <1>3, <1>5, <2>1 DEF CacheInv, TableInv, MgrAlive
  <2>5. ASSUME NEW s \in Cells
        PROVE  heap'[s].references = Cardinality(ConnsOf(s)') + Cardinality(NodesOf(s)') + kept'[s]
    BY <1>4, <2>1, <2>3 DEF CacheInv, RefInv
  <2>6. RefInv'
    BY <1>1, <1>3, <2>1, <2>4, <2>5 DEF RefInv
  <2>7. ASSUME NEW d \in Conns
        PROVE  ConnOK(d)'
    BY <1>1, <2>1, SessionAssumption DEF CacheInv, ConnInv, ConnOK
  <2> QED
    BY <2>2, <2>4, <2>6, <2>7 DEF CacheInv, ConnInv
<1>6. CASE ~(mgr.references > 1)
  <2>1. /\ table' = EmptyTable /\ hashCount' = 0
        /\ heap' = [s \in Cells |-> ReleaseTimes(heap[s], Cardinality(NodesOf(s)))]
    BY <1>6 DEF FreeManager
  <2>2. WellHashed(table') /\ Nodes(table') = {}
    BY <2>1, EmptyTableEmpty
  <2>3. \A s : NodesOf(s)' = {}
    BY <2>2 DEF NodesOf
  <2>4. ASSUME NEW s \in Cells
        PROVE  /\ heap'[s] \in Sessions
               /\ heap'[s].references = heap[s].references - Cardinality(NodesOf(s))
               /\ heap'[s].live <=> heap'[s].references > 0
               /\ heap'[s].references > 0 => heap'[s].id = heap[s].id
               /\ heap'[s].references = Cardinality(ConnsOf(s)') + Cardinality(NodesOf(s)') + kept'[s]
    <3>1. heap[s] \in Sessions /\ (heap[s].live <=> heap[s].references > 0) /\ kept[s] \in Nat
      BY <1>1 DEF HeapOK
    <3>2. Cardinality(NodesOf(s)) \in Nat /\ Cardinality(ConnsOf(s)) \in Nat
      BY CountTypes
    <3>3. heap[s].references = Cardinality(ConnsOf(s)) + Cardinality(NodesOf(s)) + kept[s]
      BY DEF CacheInv, RefInv
    <3>4. heap'[s] = ReleaseTimes(heap[s], Cardinality(NodesOf(s)))
      BY <2>1
    <3>5. Cardinality(NodesOf(s)') = 0
      BY <2>3, FS_EmptySet
    <3>6. Cardinality(NodesOf(s)) <= heap[s].references
      BY <3>1, <3>2, <3>3
    <3>7. /\ heap'[s] \in Sessions
          /\ heap'[s].references = heap[s].references - Cardinality(NodesOf(s))
          /\ heap'[s].live <=> heap'[s].references > 0
          /\ heap'[s].references > 0 => heap'[s].id = heap[s].id
      BY <3>1, <3>2, <3>4, <3>6, ReleaseTimesCounts
    <3> QED
      BY <1>4, <3>1, <3>2, <3>3, <3>5, <3>7
  <2>5. HeapOK(heap')
    BY <2>1, <2>4 DEF HeapOK
  <2>6. TypeOK'
    BY <1>1, <1>3, <2>1, <2>2, <2>5 DEF TypeOK, WellHashed, HeapOK
  <2>7. TableInv'
    BY <2>1, <2>2, FS_EmptySet DEF TableInv
  <2>8. RefInv'
    BY <1>3, <2>2, <2>4, <2>5 DEF RefInv
  <2>9. ASSUME NEW d \in Conns
        PROVE  ConnOK(d)'
    <3>1. conn'[d].pc \notin {"mode", "insert", "clear"}
      <4>1. Configured' = {}
        BY <1>1, <1>2, <1>6, FS_EmptySet
      <4> QED
        BY <4>1
    <3> QED
      BY <1>1, <3>1, SessionAssumption DEF CacheInv, ConnInv, ConnOK
  <2> QED
    BY <2>6, <2>7, <2>8, <2>9 DEF CacheInv, ConnInv
<1> QED
  BY <1>5, <1>6

(* HITLS_Free, second part: the connection's configuration goes. *)
LEMMA SESSMGR_FreeKeeps ==
  ASSUME CacheInv, NEW c \in Conns, SESSMGR_Free(c)
  PROVE  CacheInv'
<1>1. /\ TypeOK /\ conn \in [Conns -> Connections] /\ conn[c] \in Connections
      /\ mgr.references = Cardinality(Configured) + One(owned)
      /\ conn[c].pc = "freeing" /\ LockFree /\ FreeManager
      /\ UNCHANGED <<role, writer, clock, kept, hellos, settings, owned, doomed, corrupted>>
  BY DEF CacheInv, TypeOK, RefInv, SESSMGR_Free
<1> DEFINE r == [conn[c] EXCEPT !.pc = "gone"]
<1>2. conn' = [conn EXCEPT ![c] = r]
  BY <1>1 DEF SESSMGR_Free, Move
<1>3. /\ r \in Connections /\ r.pc = "gone" /\ r.session = conn[c].session
      /\ r.curTime = conn[c].curTime
  BY <1>1 DEF Connections, Points
<1> HIDE DEF r
<1>4. conn' \in [Conns -> Connections] /\ conn'[c] = r /\ \A d \in Conns \ {c} : conn'[d] = conn[d]
  BY <1>1, <1>2, <1>3
<1>5. Configured' = Configured \ {c} /\ c \in Configured
  BY <1>1, <1>3, <1>4 DEF Configured
<1>6. IsFiniteSet(Configured)
  <2>1. Configured \in SUBSET Conns
    BY DEF Configured
  <2> QED
    BY <2>1, FS_Subset, SessionAssumption
<1>7. IsFiniteSet(Configured') /\ Cardinality(Configured') = Cardinality(Configured) - 1
  BY <1>5, <1>6, FS_RemoveElement
<1>8. Cardinality(Configured') \in Nat /\ Cardinality(Configured) \in Nat
  BY <1>6, <1>7, FS_CardinalityType
<1>9. mgr.references - 1 = Cardinality(Configured') + One(owned')
  <2>1. One(owned) \in Nat /\ owned' = owned
    BY <1>1 DEF One
  <2>2. mgr.references - 1 = Cardinality(Configured') + One(owned)
    BY <1>1, <1>7, <1>8, <2>1
  <2> QED
    BY <2>1, <2>2
<1>10. \A d \in Conns : conn'[d].session = conn[d].session /\ conn'[d].curTime = conn[d].curTime
  BY <1>3, <1>4
<1>11. /\ \A d \in Conns : conn'[d] = conn[d] \/ conn'[d].pc = "gone"
       /\ \A d \in Conns : conn'[d].pc \in {"mode", "insert", "clear"} => d \in Configured'
  BY <1>3, <1>4 DEF Configured
<1>12. owned' \in BOOLEAN /\ settings' \in 0 .. MaxSettings
  BY <1>1 DEF TypeOK
<1> QED
  BY <1>1, <1>4, <1>7, <1>8, <1>9, <1>10, <1>11, <1>12, FreeManagerKeeps

(* HITLS_CFG_FreeConfig: the application's configuration goes. *)
LEMMA FreeConfigKeeps ==
  ASSUME CacheInv, FreeConfig
  PROVE  CacheInv'
<1>1. /\ TypeOK /\ conn \in [Conns -> Connections]
      /\ mgr.references = Cardinality(Configured) + One(owned)
      /\ owned /\ LockFree /\ FreeManager /\ owned' = FALSE
      /\ settings' = settings + 1 /\ settings < MaxSettings
      /\ UNCHANGED <<role, writer, clock, conn, kept, hellos, doomed, corrupted>>
  BY DEF CacheInv, TypeOK, RefInv, FreeConfig
<1>2. Configured' = Configured
  BY <1>1 DEF Configured
<1>3. IsFiniteSet(Configured) /\ Cardinality(Configured) \in Nat
  <2>1. Configured \in SUBSET Conns
    BY DEF Configured
  <2> QED
    BY <2>1, FS_Subset, CountTypes, SessionAssumption
<1>4. One(owned) = 1 /\ One(owned') = 0
  BY <1>1 DEF One
<1>5. mgr.references - 1 = Cardinality(Configured') + One(owned')
  <2>1. Cardinality(Configured') = Cardinality(Configured)
    BY <1>2
  <2>2. mgr.references = Cardinality(Configured) + 1
    BY <1>1, <1>4
  <2>3. mgr.references - 1 = Cardinality(Configured') + 0
    BY <1>3, <2>1, <2>2
  <2> QED
    BY <1>4, <2>3
<1>6. settings' \in 0 .. MaxSettings
  <2>1. settings \in 0 .. MaxSettings /\ MaxSettings \in Nat
    BY <1>1, SessionAssumption DEF TypeOK
  <2> QED
    BY <1>1, <2>1
<1>7. \A d \in Conns : conn'[d].pc \in {"mode", "insert", "clear"} => d \in Configured'
  BY <1>1, <1>2 DEF Configured
<1>8. owned' \in BOOLEAN /\ IsFiniteSet(Configured') /\ Cardinality(Configured') \in Nat
  BY <1>1, <1>2, <1>3
<1> QED
  BY <1>1, <1>5, <1>6, <1>7, <1>8, FreeManagerKeeps

-----------------------------------------------------------------------------
(* The invariant. *)

(* It holds at the start. *)
LEMMA InitCache ==
  ASSUME Init
  PROVE  CacheInv
<1>1. Freed \in Sessions /\ Freed.references = 0 /\ ~Freed.live
  BY SessionAssumption DEF Freed, Sessions
<1>2. /\ Unused \in Connections /\ Unused.pc = "none" /\ Unused.session = None
      /\ Unused.curTime = 0 /\ ~Unused.isResume
  BY SessionAssumption DEF Unused, Connections, Points
<1>3. WellHashed(table) /\ Nodes(table) = {}
  BY EmptyTableEmpty DEF Init
<1>4. heap \in [Cells -> Sessions] /\ \A s \in Cells : heap[s] = Freed
  BY <1>1 DEF Init
<1>5. conn \in [Conns -> Connections] /\ \A c \in Conns : conn[c] = Unused
  BY <1>2 DEF Init
<1>6. /\ mgr \in [mode : CacheModes, size : Nat, timeout : Nat, references : Nat]
      /\ mgr.references = 1
  <2>1. PICK m \in Settings :
          mgr = [mode |-> m.mode, size |-> m.size, timeout |-> m.timeout, references |-> 1]
    BY DEF Init
  <2>2. m.mode \in CacheModes /\ m.size \in Nat /\ m.timeout \in Nat
    BY SessionAssumption
  <2> QED
    BY <2>1, <2>2
<1>7. TypeOK
  <2>1. 0 \in 0 .. MaxTime /\ hellos \in [Conns -> Nat] /\ 0 \in 0 .. MaxSettings
    BY SessionAssumption DEF Init
  <2>2. table \in [Buckets -> Seq(NodeType)]
    BY <1>3 DEF WellHashed
  <2>3. kept \in [Cells -> Nat]
    BY DEF Init
  <2> QED
    BY <1>4, <1>5, <1>6, <2>1, <2>2, <2>3 DEF Init, TypeOK
<1>8. TableInv
  BY <1>3, FS_EmptySet DEF Init, TableInv
<1>9. RefInv
  <2>1. HeapOK(heap)
    BY <1>1, <1>4 DEF HeapOK
  <2>2. ASSUME NEW s \in Cells
        PROVE  heap[s].references = Cardinality(ConnsOf(s)) + Cardinality(NodesOf(s)) + kept[s]
    <3>1. ConnsOf(s) = {} /\ NodesOf(s) = {}
      BY <1>2, <1>3, <1>5, SessionAssumption DEF ConnsOf, NodesOf
    <3>2. Cardinality(ConnsOf(s)) = 0 /\ Cardinality(NodesOf(s)) = 0
      BY <3>1, FS_EmptySet
    <3>3. heap[s].references = 0 /\ kept[s] = 0
      BY <1>1, <1>4 DEF Init
    <3> QED
      BY <3>2, <3>3
  <2>3. mgr.references = Cardinality(Configured) + One(owned)
    <3>1. Configured = {}
      BY <1>2, <1>5 DEF Configured
    <3>2. Cardinality(Configured) = 0
      BY <3>1, FS_EmptySet
    <3>3. One(owned) = 1
      BY DEF Init, One
    <3> QED
      BY <1>6, <3>2, <3>3
  <2>4. MgrAlive
    BY <1>6 DEF MgrAlive
  <2> QED
    BY <2>1, <2>2, <2>3, <2>4 DEF RefInv
<1>10. ConnInv
  BY <1>2, <1>5, SessionAssumption DEF Init, ConnInv, ConnOK
<1> QED
  BY <1>7, <1>8, <1>9, <1>10 DEF CacheInv

(* Every step keeps it. *)
LEMMA NextKeeps ==
  ASSUME CacheInv, [SessionNext]_vars
  PROVE  CacheInv'
<1>1. CASE UNCHANGED vars
  BY SMTT(30), <1>1 DEF vars, CacheInv, TypeOK, RefInv, TableInv, ConnInv, ConnOK, ConnsOf, NodesOf,
     Configured, MgrAlive
<1>2. ASSUME NEW c \in Conns, HsSetSessionInfo(c)
      PROVE  CacheInv'
  BY <1>2, ReadTimeKeeps, BeginClearKeeps, ClearNodeKeeps, EndClearKeeps, ReplaceSessionKeeps,
     ReadModeKeeps, InsertSessionKeeps, NewSessionCbKeeps DEF HsSetSessionInfo
<1>3. ASSUME NEW c \in Conns, ServerStep(c)
      PROVE  CacheInv'
  BY <1>3, SESSMGR_FindKeeps, ResumeFoundKeeps, ServerCheckResumeTicketKeeps,
     ServerPrepareSessionIdKeeps DEF ServerStep
<1>4. ASSUME NEW c \in Conns, ClientStep(c)
      PROVE  CacheInv'
  BY <1>4, ClientPrepareSessionKeeps, ClientRecvServerHelloKeeps, UpdateTicketKeeps
     DEF ClientStep
<1>5. ASSUME NEW c \in Conns, LifeStep(c)
      PROVE  CacheInv'
  BY <1>5, HITLS_NewKeeps, HITLS_SetSessionKeeps, HITLS_GetDupSessionKeeps, FatalAlertKeeps,
     HITLS_FreeKeeps, SESSMGR_FreeKeeps DEF LifeStep
<1>6. ASSUME NEW s \in Cells, HITLS_SESS_Free(s)
      PROVE  CacheInv'
  BY <1>6, HITLS_SESS_FreeKeeps
<1>7. CASE Configure \/ FreeConfig \/ Tick
  BY <1>7, ConfigureKeeps, FreeConfigKeeps
<1> QED
  BY <1>1, <1>2, <1>3, <1>4, <1>5, <1>6, <1>7 DEF SessionNext, NextStep

(* At every state the cache can be in. *)
LEMMA CacheInvariant == Spec => []CacheInv
<1>1. Init => CacheInv
  BY InitCache
<1>2. CacheInv /\ [SessionNext]_vars => CacheInv'
  BY NextKeeps
<1> QED
  BY <1>1, <1>2, PTL DEF Spec

-----------------------------------------------------------------------------
(* What follows. *)

(* The variables have their types, whatever the number of connections,      *)
(* sessions, keys and buckets.                                              *)
THEOREM SessionTypeCorrect == Spec => []TypeOK
<1>1. CacheInv => TypeOK
  BY DEF CacheInv
<1> QED
  BY <1>1, CacheInvariant, PTL

(* Every session, and the manager, has as many references as holders.       *)
THEOREM ReferencesAreExact == Spec => []ReferencesExact
<1>1. CacheInv => ReferencesExact
  <2> SUFFICES ASSUME CacheInv
               PROVE  ReferencesExact
    OBVIOUS
  <2>1. ASSUME NEW s \in Cells
        PROVE  heap[s].references = Holders(s) /\ (heap[s].live <=> Holders(s) > 0)
    <3>1. Holders(s) = Cardinality(ConnsOf(s)) + Cardinality(NodesOf(s)) + kept[s]
      BY DEF Holders, ConnsOf
    <3>2. heap[s].references = Holders(s)
      BY <3>1 DEF CacheInv, RefInv
    <3> QED
      BY <3>2 DEF CacheInv, RefInv, HeapOK
  <2>2. mgr.references = Cardinality({c \in Conns : conn[c].pc \notin {"none", "gone"}})
                         + (IF owned THEN 1 ELSE 0)
    BY DEF CacheInv, RefInv, Configured, One
  <2>3. ~MgrAlive => Nodes(table) = {}
    BY DEF CacheInv, RefInv
  <2> QED
    BY <2>1, <2>2, <2>3 DEF ReferencesExact
<1> QED
  BY <1>1, CacheInvariant, PTL

(* The count of the table is right, its nodes are where FindNode looks for  *)
(* them, and a session is found under its own id.                           *)
THEOREM TableIsCoherent == Spec => []TableCoherent
<1>1. CacheInv => TableCoherent
  BY DEF CacheInv, TableInv, TableCoherent, WellHashed
<1> QED
  BY <1>1, CacheInvariant, PTL

(* What a step does to the table: a session is added, an invalid one is     *)
(* erased, or the manager goes.                                             *)
LEMMA TableSteps ==
  ASSUME NextStep
  PROVE  \/ UNCHANGED <<table, hashCount>>
         \/ \E c \in Conns : ClearNode(c) /\ ~Valid(heap[At(table, conn[c].it)], conn[c].curTime)
         \/ \E c \in Conns : InsertSession(c) /\ AddToTable(c) /\ hashCount < mgr.size
         \/ FreeManager /\ ~(mgr.references > 1)
<1>1. ASSUME NEW c \in Conns, HsSetSessionInfo(c)
      PROVE  \/ UNCHANGED <<table, hashCount>>
             \/ ClearNode(c) /\ ~Valid(heap[At(table, conn[c].it)], conn[c].curTime)
             \/ InsertSession(c) /\ AddToTable(c) /\ hashCount < mgr.size
  BY <1>1 DEF HsSetSessionInfo, ReadTime, BeginClear, ClearNode, EndClear, ReplaceSession,
     ReadMode, InsertSession, NewSessionCb
<1>2. ASSUME NEW c \in Conns, ServerStep(c) \/ ClientStep(c)
      PROVE  UNCHANGED <<table, hashCount>>
  BY <1>2 DEF ServerStep, SESSMGR_Find, ResumeFound, ServerCheckResumeTicket,
     ServerPrepareSessionId, ClientStep, ClientPrepareSession, ClientRecvServerHello, UpdateTicket
<1>3. ASSUME NEW c \in Conns, LifeStep(c)
      PROVE  \/ UNCHANGED <<table, hashCount>>
             \/ FreeManager /\ ~(mgr.references > 1)
  <2>1. CASE SESSMGR_Free(c)
    <3>1. FreeManager
      BY <2>1 DEF SESSMGR_Free
    <3>2. mgr.references > 1 => UNCHANGED <<heap, table, hashCount>>
      BY <3>1, Zenon DEF FreeManager
    <3> QED
      BY <3>1, <3>2
  <2>2. CASE ~SESSMGR_Free(c)
    BY <1>3, <2>2 DEF LifeStep, HITLS_New, HITLS_SetSession, HITLS_GetDupSession, FatalAlert,
       HITLS_Free
  <2> QED
    BY <2>1, <2>2
<1>4. ASSUME NEW s \in Cells, HITLS_SESS_Free(s)
      PROVE  UNCHANGED <<table, hashCount>>
  BY <1>4 DEF HITLS_SESS_Free
<1>5. CASE Configure \/ Tick
  BY <1>5 DEF Configure, Tick
<1>6. CASE FreeConfig
  BY <1>6 DEF FreeConfig, FreeManager
<1> QED
  BY <1>1, <1>2, <1>3, <1>4, <1>5, <1>6 DEF NextStep

(* The node that a round of the clearing erases. *)
LEMMA ErasedNode ==
  ASSUME CacheInv, NEW c \in Conns, ClearNode(c),
         ~Valid(heap[At(table, conn[c].it)], conn[c].curTime)
  PROVE  /\ conn[c].it \in Keys /\ HasKey(table, conn[c].it)
         /\ Node(conn[c].it, At(table, conn[c].it)) \in Nodes(table)
         /\ Nodes(table') = Nodes(table) \ {Node(conn[c].it, At(table, conn[c].it))}
         /\ hashCount' = hashCount - 1
<1>1. conn[c] \in Connections /\ WellHashed(table) /\ ConnOK(c)
  BY DEF CacheInv, TypeOK, TableInv, ConnInv
<1>2. conn[c].it \in Keys /\ HasKey(table, conn[c].it)
  BY <1>1 DEF ClearNode, ConnOK, Connections
<1> QED
  BY <1>1, <1>2, EraseRemoves DEF ClearNode

(* A session that is taken out of the cache is not valid, except when the   *)
(* manager is freed.                                                        *)
THEOREM OnlyInvalidLeave == Spec => LeavesOnlyInvalid
<1>1. ASSUME CacheInv, [SessionNext]_vars
      PROVE  [\A n \in Nodes(table) \ Nodes(table') :
                ~Valid(heap[n.value], clock) \/ mgr'.references = 0]_vars
  <2> SUFFICES ASSUME NextStep, NEW n \in Nodes(table) \ Nodes(table')
               PROVE  ~Valid(heap[n.value], clock) \/ mgr'.references = 0
    BY <1>1 DEF SessionNext
  <2>1. CASE UNCHANGED <<table, hashCount>>
    BY <2>1
  <2>2. ASSUME NEW c \in Conns, ClearNode(c),
               ~Valid(heap[At(table, conn[c].it)], conn[c].curTime)
        PROVE  ~Valid(heap[n.value], clock)
    <3> DEFINE x == At(table, conn[c].it)
    <3>1. n = Node(conn[c].it, x)
      BY <1>1, <2>2, ErasedNode
    <3>2. n.value = x
      BY <3>1 DEF Node
    <3>3. conn[c].curTime <= clock /\ conn[c].curTime \in Nat /\ clock \in Nat
      BY <1>1 DEF CacheInv, ConnInv, ConnOK, TypeOK, Connections
    <3>4. heap[n.value] \in Sessions
      BY <1>1, HeldIsLive DEF CacheInv, TypeOK
    <3> QED
      BY <2>2, <3>2, <3>3, <3>4 DEF Valid, Sessions
  <2>3. ASSUME NEW c \in Conns, InsertSession(c), AddToTable(c)
        PROVE  FALSE
    <3>1. conn[c] \in Connections /\ WellHashed(table) /\ ConnOK(c) /\ conn[c].pc = "insert"
      BY <1>1, <2>3 DEF CacheInv, TypeOK, TableInv, ConnInv, InsertSession
    <3>2. conn[c].session \in Cells /\ conn[c].sessionId \in Keys
      BY <3>1 DEF ConnOK, Connections
    <3> DEFINE k == conn[c].sessionId
               x == conn[c].session
    <3>3. Nodes(Insert(table, k, x)) = Nodes(table) \/ Nodes(Insert(table, k, x)) = Nodes(table) \cup {Node(k, x)}
      <4>1. CASE HasKey(table, k)
        BY <4>1 DEF Insert
      <4> QED
        BY <3>1, <3>2, <4>1, InsertAdds
    <3> QED
      BY <2>3, <3>3 DEF AddToTable
  <2>4. CASE FreeManager /\ ~(mgr.references > 1)
    <3>1. mgr.references \in Nat /\ mgr'.references = mgr.references - 1
      BY <1>1, <2>4 DEF CacheInv, TypeOK, FreeManager
    <3>2. mgr.references # 0
      BY <1>1 DEF CacheInv, RefInv, MgrAlive
    <3> QED
      BY <2>4, <3>1, <3>2
  <2> QED
    BY <2>1, <2>2, <2>3, <2>4, TableSteps
<1> QED
  BY <1>1, CacheInvariant, PTL DEF Spec, LeavesOnlyInvalid

(* The cache does not grow past the size in force. *)
THEOREM CacheGrowthBounded == Spec => GrowthBounded
<1>1. ASSUME CacheInv, [SessionNext]_vars
      PROVE  [hashCount' > hashCount => hashCount' <= mgr.size]_vars
  <2> SUFFICES ASSUME NextStep, hashCount' > hashCount
               PROVE  hashCount' <= mgr.size
    BY <1>1 DEF SessionNext
  <2>1. hashCount \in Nat /\ mgr.size \in Nat
    BY <1>1 DEF CacheInv, TypeOK
  <2>2. CASE UNCHANGED <<table, hashCount>>
    BY <2>1, <2>2
  <2>3. ASSUME NEW c \in Conns, ClearNode(c),
               ~Valid(heap[At(table, conn[c].it)], conn[c].curTime)
        PROVE  FALSE
    BY <1>1, <2>1, <2>3, ErasedNode
  <2>4. ASSUME NEW c \in Conns, AddToTable(c), hashCount < mgr.size
        PROVE  hashCount' <= mgr.size
    BY <2>1, <2>4 DEF AddToTable
  <2>5. CASE FreeManager /\ ~(mgr.references > 1)
    BY <2>1, <2>5 DEF FreeManager
  <2> QED
    BY <2>2, <2>3, <2>4, <2>5, TableSteps
<1> QED
  BY <1>1, CacheInvariant, PTL DEF Spec, GrowthBounded

-----------------------------------------------------------------------------
(* The clearing misses nothing. *)

(* A session in the table has one reference more than a connection's. *)
LEMMA CachedSurvives ==
  ASSUME CacheInv, NEW n \in Nodes(table)
  PROVE  /\ \A c \in Conns : One(conn[c].session = n.value) < heap[n.value].references
         /\ kept[n.value] < heap[n.value].references
<1>1. n.value \in Cells
  BY HeldIsLive
<1>2. PICK s \in Cells : s = n.value
  BY <1>1
<1>3. /\ Cardinality(ConnsOf(s)) \in Nat /\ Cardinality(NodesOf(s)) \in Nat
      /\ IsFiniteSet(ConnsOf(s)) /\ IsFiniteSet(NodesOf(s)) /\ kept[s] \in Nat
      /\ heap[s].references = Cardinality(ConnsOf(s)) + Cardinality(NodesOf(s)) + kept[s]
  BY CountTypes DEF CacheInv, RefInv, TypeOK
<1>4. Cardinality(NodesOf(s)) # 0
  <2>1. n \in NodesOf(s)
    BY <1>2 DEF NodesOf
  <2> QED
    BY <1>3, <2>1, FS_EmptySet
<1>5. kept[s] < heap[s].references
  BY <1>3, <1>4
<1>6. ASSUME NEW c \in Conns
      PROVE  One(conn[c].session = s) < heap[s].references
  <2>1. CASE conn[c].session = s
    <3>1. c \in ConnsOf(s)
      BY <2>1 DEF ConnsOf
    <3>2. Cardinality(ConnsOf(s)) # 0
      BY <1>3, <3>1, FS_EmptySet
    <3>3. heap[s].references > 1
      BY <1>3, <1>4, <3>2
    <3> QED
      BY <2>1, <3>3 DEF One
  <2>2. CASE conn[c].session # s
    <3>1. heap[s].references > 0
      BY <1>3, <1>4
    <3> QED
      BY <2>2, <3>1 DEF One
  <2> QED
    BY <2>1, <2>2
<1> QED
  BY <1>2, <1>5, <1>6

(* What the operations do to a session that is not released. *)
LEMMA SameAfter ==
  ASSUME NEW h \in [Cells -> Sessions], NEW x \in Cells \cup {None}, NEW s \in Cells
  PROVE  /\ SameObject(h[s], UpRef(h, x)[s]) /\ UpRef(h, x) \in [Cells -> Sessions]
         /\ SameObject(h[s], Disable(h, x)[s])
         /\ One(x = s) < h[s].references => SameObject(h[s], Release(h, x)[s])
<1>1. x # s => SameObject(h[s], Release(h, x)[s])
  BY DEF SameObject, Release
<1>2. ASSUME x = s, One(x = s) < h[s].references
      PROVE  SameObject(h[s], Release(h, x)[s])
  <2>1. h[s].references > 1 /\ x # None
    BY <1>2, SessionAssumption DEF One, Sessions
  <2> QED
    BY <1>2, <2>1 DEF SameObject, Release, Sessions
<1>3. SameObject(h[s], UpRef(h, x)[s]) /\ UpRef(h, x) \in [Cells -> Sessions]
  BY DEF SameObject, UpRef, Sessions
<1>4. SameObject(h[s], Disable(h, x)[s])
  BY DEF SameObject, Disable, Sessions
<1> QED
  BY <1>1, <1>2, <1>3, <1>4

(* What the two steps that handle a ticket do to the sessions. *)
LEMMA TicketSteps ==
  ASSUME CacheInv, NEW c \in Conns, ServerCheckResumeTicket(c) \/ UpdateTicket(c)
  PROVE  \/ heap' = heap
         \/ heap' = Disable(heap, conn[c].session)
         \/ \E x \in FreeCells(heap), y \in Sessions :
              /\ y.live /\ y.references = 1
              /\ \/ heap' = Release(Put(heap, x, y), conn[c].session)
                 \/ heap' = UpRef(Release(Put(heap, x, y), conn[c].session), x)
<1>1. /\ clock \in Nat /\ mgr.timeout \in Nat /\ heap \in [Cells -> Sessions]
      /\ conn[c] \in Connections /\ ConnOK(c)
  BY DEF CacheInv, TypeOK, ConnInv
<1>2. ASSUME NEW id \in Keys \cup {None}, NEW start \in Nat
      PROVE  LET y == [NewSession(id) EXCEPT !.start = start] IN
             y \in Sessions /\ y.live /\ y.references = 1
  BY <1>1 DEF NewSession, Sessions
<1>3. ASSUME NEW id \in Keys \cup {None}
      PROVE  NewSession(id) \in Sessions /\ NewSession(id).live /\ NewSession(id).references = 1
  BY <1>1 DEF NewSession, Sessions
<1>4. ASSUME FreeCells(heap) # {}
      PROVE  (CHOOSE x \in FreeCells(heap) : TRUE) \in FreeCells(heap)
  BY <1>4
<1>5. CASE ServerCheckResumeTicket(c)
  <2>1. CASE heap' = heap \/ heap' = Disable(heap, conn[c].session)
    BY <2>1
  <2>2. ASSUME NEW id \in TicketIds, NEW start \in 0 .. clock, NEW x \in FreeCells(heap),
               heap' = Release([heap EXCEPT ![x] = [NewSession(id) EXCEPT !.start = start]],
                               conn[c].session)
        PROVE  \E s \in FreeCells(heap), y \in Sessions :
                 /\ y.live /\ y.references = 1
                 /\ heap' = Release(Put(heap, s, y), conn[c].session)
    <3> DEFINE y == [NewSession(id) EXCEPT !.start = start]
    <3>1. id \in Keys \cup {None} /\ start \in Nat
      BY <1>1, SessionAssumption
    <3>2. y \in Sessions /\ y.live /\ y.references = 1
      BY <1>2, <3>1
    <3>3. heap' = Release(Put(heap, x, y), conn[c].session)
      BY <2>2 DEF Put
    <3> HIDE DEF y
    <3> QED
      BY <3>2, <3>3
  <2> QED
    BY Zenon, <1>4, <1>5, <2>1, <2>2 DEF ServerCheckResumeTicket
<1>6. CASE UpdateTicket(c)
  <2>1. heap[conn[c].session].id \in Keys \cup {None}
    BY <1>1, <1>6 DEF UpdateTicket, ConnOK, Connections, Sessions
  <2> DEFINE y == NewSession(heap[conn[c].session].id)
  <2>2. y \in Sessions /\ y.live /\ y.references = 1
    BY <1>3, <2>1
  <2>3. CASE heap' = heap \/ heap' = Disable(heap, conn[c].session)
    BY <2>3
  <2>4. ASSUME NEW x \in FreeCells(heap), NEW h, h = Release([heap EXCEPT ![x] = y], conn[c].session),
               heap' = h \/ heap' = UpRef(h, x)
        PROVE  \E s \in FreeCells(heap), z \in Sessions :
                 /\ z.live /\ z.references = 1
                 /\ \/ heap' = Release(Put(heap, s, z), conn[c].session)
                    \/ heap' = UpRef(Release(Put(heap, s, z), conn[c].session), s)
    <3>1. h = Release(Put(heap, x, y), conn[c].session)
      BY <2>4 DEF Put
    <3> HIDE DEF y
    <3> QED
      BY <2>2, <2>4, <3>1
  <2> QED
    BY Zenon, <1>4, <1>6, <2>3, <2>4 DEF UpdateTicket
<1> QED
  BY <1>5, <1>6

(* A session in the table is not touched when another is allocated. *)
LEMMA AllocationKeepsCached ==
  ASSUME CacheInv, NEW c \in Conns, NEW n \in Nodes(table),
         NEW x \in FreeCells(heap), NEW y \in Sessions, y.live, y.references = 1,
         NEW h, h = Release(Put(heap, x, y), conn[c].session)
  PROVE  SameObject(heap[n.value], h[n.value]) /\ SameObject(heap[n.value], UpRef(h, x)[n.value])
<1>1. PICK s \in Cells : s = n.value
  BY HeldIsLive
<1>2. /\ HeapOK(h) /\ x \in Cells
      /\ h[s].references + One(conn[c].session = s) = heap[s].references + One(x = s)
      /\ h[s].references > 0 => SameObject(heap[s], h[s]) \/ heap[s].references = 0
  BY SwapCounts
<1>3. One(conn[c].session = s) < heap[s].references
  BY <1>1, CachedSurvives
<1>4. /\ heap[s].references \in Nat /\ h[s].references \in Nat
      /\ One(conn[c].session = s) \in Nat /\ One(x = s) \in Nat
  BY <1>2 DEF CacheInv, RefInv, HeapOK, Sessions, One
<1>5. SameObject(heap[s], h[s])
  BY <1>2, <1>3, <1>4
<1>6. SameObject(h[s], UpRef(h, x)[s])
  BY <1>2, SameAfter DEF HeapOK
<1> QED
  BY <1>1, <1>5, <1>6 DEF SameObject

(* While the lock is held, the sessions in the table remain what they are;  *)
(* they may be disabled.                                                    *)
LEMMA CachedAreKept ==
  ASSUME CacheInv, NextStep, ~LockFree,
         NEW n \in Nodes(table), n \in Nodes(table')
  PROVE  SameObject(heap[n.value], heap'[n.value])
<1>0. PICK s \in Cells : s = n.value
  BY HeldIsLive
<1>1. /\ heap \in [Cells -> Sessions] /\ heap[s] \in Sessions
      /\ \A c \in Conns : conn[c].session \in Cells \cup {None} /\ conn[c].sess \in Cells \cup {None}
      /\ kept \in [Cells -> Nat]
  BY HeldIsLive DEF CacheInv, TypeOK, Connections
<1>2. \A c \in Conns : One(conn[c].session = s) < heap[s].references
  BY <1>0, CachedSurvives
<1>3. heap' = heap => SameObject(heap[s], heap'[s])
  BY DEF SameObject
<1>4. \A x \in Cells \cup {None} :
        /\ SameObject(heap[s], UpRef(heap, x)[s]) /\ UpRef(heap, x) \in [Cells -> Sessions]
        /\ SameObject(heap[s], Disable(heap, x)[s])
        /\ One(x = s) < heap[s].references => SameObject(heap[s], Release(heap, x)[s])
  BY <1>1, SameAfter
<1>5. \A c \in Conns : SameObject(heap[s], Release(heap, conn[c].session)[s])
  BY <1>1, <1>2, <1>4
<1>6. ASSUME NEW c \in Conns, HsSetSessionInfo(c)
      PROVE  SameObject(heap[s], heap'[s])
  <2>1. CASE ReadTime(c) \/ BeginClear(c) \/ EndClear(c)
    BY <1>3, <2>1 DEF ReadTime, BeginClear, EndClear
  <2>2. CASE ClearNode(c)
    <3> DEFINE it == conn[c].it
               x == At(table, it)
    <3>1. CASE Valid(heap[x], conn[c].curTime)
      BY <1>3, <2>2, <3>1 DEF ClearNode
    <3>2. CASE ~Valid(heap[x], conn[c].curTime)
      <4>1. /\ Node(it, x) \in Nodes(table) /\ n # Node(it, x)
        BY <2>2, <3>2, ErasedNode
      <4>2. Node(it, x).key = it /\ Node(it, x).value = x
        BY DEF Node
      <4>3. n.key # it
        BY <4>1, <4>2, NodesFound DEF CacheInv, TableInv
      <4>4. x # s /\ x \in Cells
        BY <1>0, <4>1, <4>2, <4>3, HeldIsLive DEF CacheInv, TableInv
      <4>5. heap' = Release(heap, x)
        BY <2>2, <3>2 DEF ClearNode
      <4> QED
        BY <1>1, <4>4, <4>5 DEF Release, SameObject
    <3> QED
      BY <3>1, <3>2
  <2>3. CASE NewSessionCb(c)
    BY <1>1, <1>3, <1>4, <2>3 DEF NewSessionCb
  <2>4. CASE ReplaceSession(c)
    <3> DEFINE dropped == Release(heap, conn[c].session)
               x == CHOOSE y \in FreeCells(dropped) : TRUE
               y == NewSession(conn[c].sessionId)
    <3>1. CASE heap' = dropped
      BY <1>5, <3>1
    <3>2. CASE FreeCells(dropped) # {} /\ heap' = [dropped EXCEPT ![x] = y]
      <4>1. /\ HeapOK(dropped)
            /\ dropped[s].references + One(conn[c].session = s) = heap[s].references
        BY <1>1, ReleaseCounts, HeldIsLive DEF CacheInv, RefInv
      <4>2. dropped[s].live
        <5>1. dropped[s].references \in Nat /\ One(conn[c].session = s) \in Nat
          BY <4>1 DEF HeapOK, Sessions, One
        <5> QED
          BY <1>2, <4>1, <5>1 DEF HeapOK
      <4>3. x \in FreeCells(dropped)
        BY <3>2
      <4> HIDE DEF x, y
      <4>4. x # s
        BY <4>2, <4>3 DEF FreeCells
      <4>5. heap'[s] = dropped[s]
        BY <3>2, <4>1, <4>4 DEF HeapOK
      <4> QED
        BY <1>5, <4>5
    <3> QED
      BY <2>4, <3>1, <3>2 DEF ReplaceSession
  <2> QED
    BY <1>6, <2>1, <2>2, <2>3, <2>4 DEF HsSetSessionInfo, ReadMode, InsertSession
<1>7. ASSUME NEW c \in Conns, ServerStep(c)
      PROVE  SameObject(heap[s], heap'[s])
  <2>1. CASE heap' = Release(UpRef(heap, conn[c].sess), conn[c].session)
    <3> DEFINE u == UpRef(heap, conn[c].sess)
    <3>1. u \in [Cells -> Sessions] /\ SameObject(heap[s], u[s])
      BY <1>1, <1>4
    <3>2. heap[s].references <= u[s].references
      BY <1>1 DEF UpRef, Sessions
    <3>3. One(conn[c].session = s) < u[s].references
      <4>1. One(conn[c].session = s) \in Nat /\ u[s].references \in Nat /\ heap[s].references \in Nat
        BY <1>1, <3>1 DEF One, Sessions
      <4> QED
        BY <1>2, <3>2, <4>1
    <3>4. SameObject(u[s], heap'[s])
      BY <1>1, <2>1, <3>1, <3>3, SameAfter
    <3> QED
      BY <3>1, <3>4 DEF SameObject
  <2>2. CASE heap' = heap \/ heap' = Disable(heap, conn[c].session)
    BY <1>1, <1>3, <1>4, <2>2
  <2>3. CASE ServerCheckResumeTicket(c)
    BY <1>0, <2>2, <2>3, TicketSteps, AllocationKeepsCached
  <2> QED
    BY <1>7, <2>1, <2>2, <2>3 DEF ServerStep, SESSMGR_Find, ResumeFound, AgreeResume, DeclineResume,
       AbortResume, ServerPrepareSessionId
<1>8. ASSUME NEW c \in Conns, ClientStep(c)
      PROVE  SameObject(heap[s], heap'[s])
  <2>1. CASE UpdateTicket(c)
    BY <1>0, <1>1, <1>3, <1>4, <2>1, TicketSteps, AllocationKeepsCached
  <2> QED
    BY <1>3, <1>5, <1>8, <2>1 DEF ClientStep, ClientPrepareSession, ClientRecvServerHello
<1>9. ASSUME NEW c \in Conns, LifeStep(c)
      PROVE  SameObject(heap[s], heap'[s])
  <2>1. ASSUME NEW y \in Cells, HITLS_SetSession(c, y)
        PROVE  SameObject(heap[s], heap'[s])
    <3> DEFINE u == Release(heap, conn[c].session)
    <3>1. u \in [Cells -> Sessions]
      BY <1>1, ReleaseCounts, HeldIsLive DEF CacheInv, RefInv, HeapOK
    <3>2. heap' = UpRef(u, y)
      BY <2>1 DEF HITLS_SetSession
    <3>3. SameObject(u[s], heap'[s])
      BY <1>1, <3>1, <3>2, SameAfter
    <3> QED
      BY <1>5, <3>3 DEF SameObject
  <2>2. CASE heap' = heap \/ heap' = UpRef(heap, conn[c].session)
             \/ heap' = Disable(heap, conn[c].session) \/ heap' = Release(heap, conn[c].session)
    BY <1>1, <1>3, <1>4, <1>5, <2>2
  <2> QED
    BY <1>9, <2>1, <2>2 DEF LifeStep, HITLS_New, HITLS_GetDupSession, FatalAlert, HITLS_Free,
       SESSMGR_Free
<1>10. ASSUME NEW y \in Cells, HITLS_SESS_Free(y)
       PROVE  SameObject(heap[s], heap'[s])
  <2>1. heap' = Release(heap, y) /\ kept[y] > 0
    BY <1>10 DEF HITLS_SESS_Free
  <2>2. One(y = s) < heap[s].references
    <3>1. kept[s] < heap[s].references /\ kept[s] \in Nat /\ heap[s].references \in Nat
      BY <1>0, <1>1, CachedSurvives DEF Sessions
    <3>2. CASE y = s
      <4>1. heap[s].references > 1
        BY <2>1, <3>1, <3>2
      <4> QED
        BY <3>2, <4>1 DEF One
    <3>3. CASE y # s
      <4>1. heap[s].references > 0
        BY <3>1
      <4> QED
        BY <3>3, <4>1 DEF One
    <3> QED
      BY <3>2, <3>3
  <2> QED
    BY <1>4, <2>1, <2>2
<1>11. (Configure \/ Tick) => SameObject(heap[s], heap'[s])
  BY <1>3 DEF Configure, Tick
<1>12. ~FreeConfig
  BY DEF FreeConfig
<1>13. SameObject(heap[s], heap'[s])
  BY <1>6, <1>7, <1>8, <1>9, <1>10, <1>11, <1>12 DEF NextStep
<1> QED
  BY <1>0, <1>13

(* A session that was invalid when the clearing began and is still in the   *)
(* table is still invalid, and the iterator has not passed it.              *)
Ahead(c, n) ==
  /\ ~Valid(heap[n.value], conn[c].curTime)
  /\ conn[c].it # IterEnd
  /\ n.key = conn[c].it \/ Before(table, conn[c].it, n.key)

ClearInv == \A c \in Conns : conn[c].pc = "clear" => \A n \in doomed \cap Nodes(table) : Ahead(c, n)

(* A session that is not valid stays so. *)
LEMMA InvalidStays ==
  ASSUME NEW x \in Sessions, NEW y, SameObject(x, y), NEW time \in Nat, ~Valid(x, time)
  PROVE  ~Valid(y, time)
BY DEF SameObject, Valid, Sessions

(* The iterator starts at the first node. *)
LEMMA BeginClearAhead ==
  ASSUME CacheInv, NEW c \in Conns, BeginClear(c), NEW n \in doomed' \cap Nodes(table')
  PROVE  Ahead(c, n)'
<1>1. /\ conn \in [Conns -> Connections] /\ WellHashed(table)
      /\ n \in Nodes(table) /\ ~Valid(heap[n.value], conn[c].curTime)
      /\ heap' = heap /\ table' = table
  BY DEF CacheInv, TypeOK, TableInv, BeginClear
<1> DEFINE first == FirstFrom(table, 0)
<1>2. conn'[c].it = first /\ conn'[c].curTime = conn[c].curTime
  BY <1>1 DEF BeginClear
<1>3. /\ n.key \in Keys /\ HasKey(table, n.key)
      /\ HashCode(n.key) \in Buckets /\ FindNode(table, n.key) \in DOMAIN table[HashCode(n.key)]
      /\ table[HashCode(n.key)][FindNode(table, n.key)].key = n.key
  <2>1. n.key \in Keys /\ HasKey(table, n.key)
    BY <1>1, NodesFound DEF NodeType
  <2> QED
    BY <1>1, <2>1, FindNodeFinds
<1>4. /\ HashCode(n.key) \in Nat /\ HashCode(n.key) >= 0
      /\ table[HashCode(n.key)] \in Seq(NodeType) /\ table[HashCode(n.key)] # << >>
      /\ FindNode(table, n.key) \in Nat /\ FindNode(table, n.key) >= 1
  <2>1. table[HashCode(n.key)] \in Seq(NodeType)
    BY <1>1, <1>3 DEF WellHashed
  <2> QED
    BY <1>3, <2>1 DEF Buckets
<1>5. /\ first # IterEnd /\ first \in Keys /\ HasKey(table, first)
      /\ FindNode(table, first) = 1
      /\ \A i \in Buckets : i >= 0 /\ i < HashCode(first) => table[i] = << >>
  BY <1>1, <1>3, <1>4, FirstFromFinds, HashAssumption
<1>6. HashCode(first) \in Buckets /\ table[HashCode(first)][1].key = first
  BY <1>1, <1>5, FindNodeFinds
<1> HIDE DEF first
<1>7. HashCode(n.key) >= HashCode(first) /\ HashCode(first) \in Nat
  BY <1>3, <1>4, <1>5, <1>6 DEF Buckets
<1>8. n.key = first \/ Before(table, first, n.key)
  <2>1. CASE HashCode(n.key) = HashCode(first) /\ FindNode(table, n.key) = 1
    BY <1>3, <1>6, <2>1
  <2>2. CASE HashCode(n.key) = HashCode(first) /\ FindNode(table, n.key) # 1
    BY <1>4, <1>5, <2>2 DEF Before
  <2>3. CASE HashCode(n.key) # HashCode(first)
    BY <1>4, <1>7, <2>3 DEF Before
  <2> QED
    BY <2>1, <2>2, <2>3
<1> QED
  BY <1>1, <1>2, <1>5, <1>8 DEF Ahead

(* A round of the loop: the node it was at is gone, or is valid; the others *)
(* are still ahead.                                                         *)
LEMMA ClearNodeAhead ==
  ASSUME CacheInv, ClearInv, NEW c \in Conns, ClearNode(c), NextStep,
         NEW n \in doomed' \cap Nodes(table')
  PROVE  Ahead(c, n)'
<1> DEFINE it == conn[c].it
           next == IterNext(table, it)
<1>1. /\ conn \in [Conns -> Connections] /\ conn[c] \in Connections /\ WellHashed(table)
      /\ conn[c].pc = "clear" /\ writer = c /\ ConnOK(c) /\ doomed' = doomed
      /\ heap \in [Cells -> Sessions] /\ it # IterEnd
  BY DEF CacheInv, TypeOK, TableInv, ClearNode, ConnInv, ConnOK
<1>2. it \in Keys /\ HasKey(table, it)
  BY <1>1 DEF ConnOK, Connections
<1>3. conn'[c].it = next /\ conn'[c].curTime = conn[c].curTime
  BY <1>1 DEF ClearNode
<1>4. n \in Nodes(table) /\ n.key \in Keys /\ HasKey(table, n.key) /\ n.value = At(table, n.key)
  <2>1. n \in Nodes(table)
    <3>1. CASE Valid(heap[At(table, it)], conn[c].curTime)
      BY <3>1 DEF ClearNode
    <3>2. CASE ~Valid(heap[At(table, it)], conn[c].curTime)
      BY <3>2, ErasedNode
    <3> QED
      BY <3>1, <3>2
  <2> QED
    BY <1>1, <2>1, NodesFound DEF NodeType
<1>5. /\ ~Valid(heap[n.value], conn[c].curTime)
      /\ n.key = it \/ Before(table, it, n.key)
  BY <1>1, <1>4 DEF ClearInv, Ahead
<1>6. n.key # it
  <2>1. CASE Valid(heap[At(table, it)], conn[c].curTime)
    BY <1>4, <1>5, <2>1
  <2>2. CASE ~Valid(heap[At(table, it)], conn[c].curTime)
    <3>1. n # Node(it, At(table, it)) /\ Node(it, At(table, it)) \in Nodes(table)
      BY <2>2, ErasedNode
    <3>2. Node(it, At(table, it)).key = it
      BY DEF Node
    <3> QED
      BY <1>1, <1>4, <3>1, <3>2, NodesFound
  <2> QED
    BY <2>1, <2>2
<1>7. Before(table, it, n.key)
  BY <1>5, <1>6
<1>8. /\ next # IterEnd /\ next \in Keys /\ HasKey(table, next) /\ next # it
      /\ n.key = next \/ Before(table, next, n.key)
  BY <1>1, <1>2, <1>4, <1>7, IterNextFinds, HashAssumption
<1>9. n.key = next \/ Before(table', next, n.key)
  <2>1. CASE Valid(heap[At(table, it)], conn[c].curTime)
    BY <1>8, <2>1 DEF ClearNode
  <2>2. CASE ~Valid(heap[At(table, it)], conn[c].curTime)
    <3>1. table' = Erase(table, it)
      BY <2>2 DEF ClearNode
    <3> HIDE DEF next, it
    <3> QED
      BY <1>1, <1>2, <1>4, <1>6, <1>8, <3>1, EraseOrder
  <2> QED
    BY <2>1, <2>2
<1>10. ~Valid(heap'[n.value], conn[c].curTime)
  <2>1. SameObject(heap[n.value], heap'[n.value])
    BY <1>1, <1>4, CachedAreKept, SessionAssumption DEF LockFree
  <2>2. heap[n.value] \in Sessions /\ conn[c].curTime \in Nat
    BY <1>1, <1>4, HeldIsLive DEF Connections
  <2> QED
    BY <1>5, <2>1, <2>2, InvalidStays
<1> QED
  BY <1>3, <1>8, <1>9, <1>10 DEF Ahead

(* While a connection clears, no other step moves its iterator or the table. *)
LEMMA ClearingAlone ==
  ASSUME CacheInv, NextStep, NEW c \in Conns, conn[c].pc = "clear", conn'[c].pc = "clear",
         ~ClearNode(c)
  PROVE  UNCHANGED table /\ doomed' = doomed /\ conn'[c] = conn[c] /\ ~LockFree
<1>1. writer = c /\ ~LockFree /\ conn \in [Conns -> Connections]
  BY SessionAssumption DEF CacheInv, ConnInv, ConnOK, LockFree, TypeOK
<1>2. \A d \in Conns \ {c} : conn[d].pc # "clear"
  BY <1>1 DEF CacheInv, ConnInv, ConnOK
<1>3. ASSUME NEW d \in Conns, HsSetSessionInfo(d)
      PROVE  UNCHANGED table /\ doomed' = doomed /\ conn'[c] = conn[c]
  <2>1. CASE d # c
    BY <1>1, <1>2, <1>3, <2>1 DEF HsSetSessionInfo, ReadTime, BeginClear, ClearNode, EndClear,
       ReplaceSession, ReadMode, InsertSession, NewSessionCb
  <2>2. CASE d = c
    <3>1. EndClear(c)
      BY <1>1, <1>3, <2>2 DEF HsSetSessionInfo, ReadTime, BeginClear, ReplaceSession,
         ReadMode, InsertSession, NewSessionCb
    <3>2. conn'[c].pc # "clear"
      BY <1>1, <3>1 DEF EndClear, Done, Unused, Connections
    <3> QED
      BY <3>2
  <2> QED
    BY <2>1, <2>2
<1>4. ASSUME NEW d \in Conns, ServerStep(d)
      PROVE  UNCHANGED table /\ doomed' = doomed /\ conn'[c] = conn[c]
  BY <1>1, <1>4 DEF ServerStep, SESSMGR_Find, ResumeFound, AgreeResume, DeclineResume, AbortResume,
     ServerCheckResumeTicket, ServerPrepareSessionId
<1>5. ASSUME NEW d \in Conns, ClientStep(d)
      PROVE  UNCHANGED table /\ doomed' = doomed /\ conn'[c] = conn[c]
  <2>1. CASE ClientPrepareSession(d)
    BY <1>1, <2>1 DEF ClientPrepareSession
  <2>2. ASSUME NEW id \in Keys \cup {None}, ClientRecvServerHello(d, id)
        PROVE  UNCHANGED table /\ doomed' = doomed /\ conn'[c] = conn[c]
    <3>1. conn[d].pc = "offered" /\ \A e \in Conns \ {d} : conn'[e] = conn[e]
      BY <1>1, <2>2 DEF ClientRecvServerHello
    <3> QED
      BY <2>2, <3>1 DEF ClientRecvServerHello
  <2>3. CASE UpdateTicket(d)
    BY <1>1, <2>3 DEF UpdateTicket, Move
  <2> QED
    BY <1>5, <2>1, <2>2, <2>3 DEF ClientStep
<1>6. ASSUME NEW d \in Conns, LifeStep(d)
      PROVE  UNCHANGED table /\ doomed' = doomed /\ conn'[c] = conn[c]
  BY <1>1, <1>6 DEF LifeStep, HITLS_New, HITLS_SetSession, HITLS_GetDupSession, FatalAlert,
     HITLS_Free, SESSMGR_Free, BetweenSteps
<1>7. ASSUME NEW s \in Cells, HITLS_SESS_Free(s)
      PROVE  UNCHANGED table /\ doomed' = doomed /\ conn'[c] = conn[c]
  BY <1>7 DEF HITLS_SESS_Free
<1>8. (Configure \/ Tick) => UNCHANGED table /\ doomed' = doomed /\ conn'[c] = conn[c]
  BY DEF Configure, Tick
<1>9. ~FreeConfig
  BY <1>1 DEF FreeConfig
<1> QED
  BY <1>1, <1>3, <1>4, <1>5, <1>6, <1>7, <1>8, <1>9 DEF NextStep

(* A clearing begins only with the lock. *)
LEMMA ClearingBegins ==
  ASSUME CacheInv, NextStep, NEW c \in Conns, conn[c].pc # "clear", conn'[c].pc = "clear"
  PROVE  BeginClear(c)
<1>1. conn \in [Conns -> Connections]
  BY DEF CacheInv, TypeOK
<1>2. ASSUME NEW d \in Conns, HsSetSessionInfo(d), ~BeginClear(c)
      PROVE  FALSE
  BY ZenonT(60), <1>1, <1>2 DEF HsSetSessionInfo, ReadTime, BeginClear, ClearNode, EndClear, ReplaceSession,
     ReadMode, InsertSession, NewSessionCb, Move, Done, Unused, Connections
<1>3. ASSUME NEW d \in Conns, ServerStep(d)
      PROVE  FALSE
  <2>1. CASE ServerCheckResumeTicket(d)
    <3>1. \E r : conn' = [conn EXCEPT ![d] = r] /\ r.pc \in {"hello", "alerted"}
      <4>1. /\ Done(d, "hello").pc = "hello" /\ Done(d, "alerted").pc = "alerted"
            /\ \A s : [Done(d, "hello") EXCEPT !.session = s, !.isResume = TRUE].pc = "hello"
        BY DEF Done, Unused
      <4>2. \/ conn' = [conn EXCEPT ![d] = Done(d, "hello")]
            \/ conn' = [conn EXCEPT ![d] = Done(d, "alerted")]
            \/ \E s : conn' = [conn EXCEPT ![d] =
                              [Done(d, "hello") EXCEPT !.session = s, !.isResume = TRUE]]
        BY <2>1 DEF ServerCheckResumeTicket
      <4> QED
        BY <4>1, <4>2
    <3> QED
      BY <1>1, <3>1
  <2> QED
    BY <1>1, <1>3, <2>1 DEF ServerStep, SESSMGR_Find, ResumeFound, AgreeResume, DeclineResume,
       AbortResume, ServerPrepareSessionId, Move, Connections
<1>4. ASSUME NEW d \in Conns, ClientStep(d)
      PROVE  FALSE
  <2>1. CASE ClientPrepareSession(d)
    BY <1>1, <2>1 DEF ClientPrepareSession, Connections
  <2>2. ASSUME NEW id \in Keys \cup {None}, ClientRecvServerHello(d, id)
        PROVE  FALSE
    <3>1. conn'[d].pc \in {"ticket", "finished"} /\ \A e \in Conns \ {d} : conn'[e] = conn[e]
      BY <1>1, <2>2 DEF ClientRecvServerHello, Connections
    <3> QED
      BY <3>1
  <2>3. CASE UpdateTicket(d)
    <3>1. conn'[d].pc \in {"finished", "alerted"} /\ \A e \in Conns \ {d} : conn'[e] = conn[e]
      BY <1>1, <2>3 DEF UpdateTicket, Move, Done, Unused, Connections
    <3> QED
      BY <3>1
  <2> QED
    BY <1>4, <2>1, <2>2, <2>3 DEF ClientStep
<1>5. ASSUME NEW d \in Conns, LifeStep(d)
      PROVE  FALSE
  BY ZenonT(60), <1>1, <1>5 DEF LifeStep, HITLS_New, HITLS_SetSession, HITLS_GetDupSession, FatalAlert,
     HITLS_Free, SESSMGR_Free, Move, Done, Unused, Connections
<1>6. ASSUME NEW s \in Cells, HITLS_SESS_Free(s)
      PROVE  FALSE
  BY <1>6 DEF HITLS_SESS_Free
<1>7. (Configure \/ Tick) => FALSE
  BY DEF Configure, Tick
<1>8. ~FreeConfig
  BY DEF FreeConfig
<1> QED
  BY <1>2, <1>3, <1>4, <1>5, <1>6, <1>7, <1>8 DEF NextStep

(* The loop of SESSMGR_ClearTimeout, which erases nodes while it walks over *)
(* them, misses no session that was expired or disabled when it began.      *)
THEOREM ClearingMissesNothing == Spec => []ClearedAll
<1>1. Init => ClearInv
  BY DEF Init, ClearInv, Unused
<1>2. ASSUME CacheInv, ClearInv, [SessionNext]_vars
      PROVE  ClearInv'
  <2>1. CASE UNCHANGED vars
    BY <1>2, <2>1 DEF vars, ClearInv, Ahead, Before
  <2>2. CASE NextStep
    <3> SUFFICES ASSUME NEW c \in Conns, conn'[c].pc = "clear",
                        NEW n \in doomed' \cap Nodes(table')
                 PROVE  Ahead(c, n)'
      BY DEF ClearInv
    <3>1. CASE conn[c].pc # "clear"
      BY <1>2, <2>2, <3>1, ClearingBegins, BeginClearAhead
    <3>2. CASE conn[c].pc = "clear" /\ ClearNode(c)
      BY <1>2, <2>2, <3>2, ClearNodeAhead
    <3>3. CASE conn[c].pc = "clear" /\ ~ClearNode(c)
      <4>1. table' = table /\ doomed' = doomed /\ conn'[c] = conn[c] /\ ~LockFree
        BY <1>2, <2>2, <3>3, ClearingAlone
      <4>2. n \in Nodes(table) /\ Ahead(c, n)
        BY <1>2, <3>3, <4>1 DEF ClearInv
      <4>3. SameObject(heap[n.value], heap'[n.value])
        BY <1>2, <2>2, <4>1, <4>2, CachedAreKept
      <4>4. heap[n.value] \in Sessions /\ conn[c].curTime \in Nat
        BY <1>2, <4>2, HeldIsLive DEF CacheInv, TypeOK, Connections
      <4>5. ~Valid(heap'[n.value], conn[c].curTime)
        BY <4>2, <4>3, <4>4, InvalidStays DEF Ahead
      <4> QED
        BY <4>1, <4>2, <4>5 DEF Ahead, Before
    <3> QED
      BY <3>1, <3>2, <3>3
  <2> QED
    BY <1>2, <2>1, <2>2 DEF SessionNext
<1>3. ClearInv => ClearedAll
  BY DEF ClearInv, Ahead, ClearedAll
<1> QED
  BY <1>1, <1>2, <1>3, CacheInvariant, PTL DEF Spec
=============================================================================
