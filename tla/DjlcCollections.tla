-------------------------- MODULE DjlcCollections ---------------------------
(***************************************************************************)
(* The collections of djlc that are not sequences: heap.h, hashmap_int.h,  *)
(* hashmap_str.h, trie.h, bit_trie.h, union_find.h and bit.h.  A behaviour *)
(* is the life of one initialised collection of the kind that Init         *)
(* chooses.  malloc may fail inside a call of the kinds in Failing.        *)
(***************************************************************************)
EXTENDS Integers, Sequences, FiniteSets, Functions, FiniteSetsExt

CONSTANTS Nothing, Yes, No,
          Junk,     \* the contents of memory that was never written
          Values,   \* the numbers kept in a heap, and the values of a map
          Capacity, \* the capacity asked for
          MaxSize,  \* bound: how many elements are put in
          Keys,     \* of maps
          Hash,     \* Hash[k]: of a key, before it is taken modulo the capacity
          Letters,  \* of words: numbers, "word[i] - 'a'"
          MaxLen,   \* bound: how long words are
          Bits,     \* max_bits
          Elements, \* of partitions: 0..n - 1
          Cells,    \* n: of arrays with sums
          Rows, Cols,
          CellValues,
          Factors,  \* logarithms of the ratios that are told
          Failing

VARIABLES kind, obj, op, arg, answer
vars == <<kind, obj, op, arg, answer>>

Did(name, a, result, new) ==
  op' = name /\ arg' = a /\ answer' = result /\ obj' = new /\ UNCHANGED kind
Asked(name, a, result) == Did(name, a, result, obj)
Truth(b) == IF b THEN Yes ELSE No

-----------------------------------------------------------------------------
(* heap.h: a binary heap in an array, the smallest or the largest on top.  *)
Heap(isMax) == [data |-> [i \in 0..Capacity - 1 |-> Junk], size |-> 0,
                capacity |-> Capacity, max |-> isMax]
Above(h, a, b) == IF h.max THEN a > b ELSE a < b
Put(h, i, v) == [h EXCEPT !.data[i] = v]

RECURSIVE BubbleUp(_, _, _)
BubbleUp(h, i, v) == LET p == (i - 1) \div 2
                     IN  IF i > 0 /\ Above(h, v, h.data[p])
                           THEN BubbleUp(Put(h, i, h.data[p]), p, v) ELSE Put(h, i, v)
HeapGrown(h) ==
  IF h.size < h.capacity THEN h
  ELSE [h EXCEPT !.data = [i \in 0..2 * h.capacity - 1 |->
                             IF i < h.capacity THEN h.data[i] ELSE Junk],
                 !.capacity = 2 * @]
HeapPush(h, v) == BubbleUp([HeapGrown(h) EXCEPT !.size = @ + 1], h.size, v)

(* Mutant: the left child is always taken. *)
LeftChild(h, i) == 2 * i + 1
BetterChild(h, i) ==
  LET c == 2 * i + 1
  IN  IF c + 1 < h.size /\ Above(h, h.data[c + 1], h.data[c]) THEN c + 1 ELSE c
RECURSIVE BubbleDown(_, _, _)
BubbleDown(h, i, v) ==
  LET c == BetterChild(h, i)
  IN  IF 2 * i + 1 < h.size /\ Above(h, h.data[c], v)
        THEN BubbleDown(Put(h, i, h.data[c]), c, v) ELSE Put(h, i, v)
HeapPop(h) == LET less == [h EXCEPT !.size = @ - 1]
              IN  IF less.size = 0 THEN less ELSE BubbleDown(less, 0, h.data[less.size])
RECURSIVE HeapifyFrom(_, _)
HeapifyFrom(h, i) == IF i < 0 THEN h
                     ELSE HeapifyFrom(BubbleDown(h, i, h.data[i]), i - 1)
Heapify(h) == HeapifyFrom(h, h.size \div 2 - 1)

HeapItems(h) == [max |-> h.max, bag |-> [v \in Values |->
                   Cardinality({i \in 0..h.size - 1 : h.data[i] = v})]]
HeapOps ==
  /\ kind = "heap"
  /\ \/ \E v \in Values :
          /\ obj.size < MaxSize
          /\ \/ Did("heap_push", v, Yes, HeapPush(obj, v))
             \/ obj.size >= obj.capacity /\ Asked("heap_push", v, No)
     \/ IF obj.size = 0 THEN Asked("heap_pop", Nothing, No) \/ Asked("heap_peek", Nothing, No)
        ELSE \/ Did("heap_pop", Nothing, obj.data[0], HeapPop(obj))
             \/ Asked("heap_peek", Nothing, obj.data[0])
     (* The caller has written the array and its size. *)
     \/ op = "none" /\ \E n \in 1..obj.capacity : \E s \in [1..n -> Values] :
          Did("heapify", s, Nothing,
              Heapify([obj EXCEPT !.size = n, !.data = [i \in DOMAIN obj.data |->
                         IF i < n THEN s[i + 1] ELSE obj.data[i]]]))

-----------------------------------------------------------------------------
(* hashmap_int.h: open addressing with linear probing.  Nothing is ever    *)
(* removed, so that an entry is free or OCCUPIED.                          *)
NoEntry == [key |-> Nothing, value |-> Nothing]
IntMap == [entries |-> [i \in 0..Capacity - 1 |-> NoEntry], capacity |-> Capacity, size |-> 0]
Free(hm, i) == hm.entries[i] = NoEntry
(* The loop over idx: where it stops, or -1 when it is back at start. *)
RECURSIVE Probe(_, _, _, _)
Probe(hm, k, idx, left) ==
  IF left = 0 THEN -1
  ELSE IF Free(hm, idx) \/ hm.entries[idx].key = k THEN idx
  ELSE Probe(hm, k, (idx + 1) % hm.capacity, left - 1)
HmIndex(hm, k) == Probe(hm, k, Hash[k] % hm.capacity, hm.capacity)
HmFull(hm) == hm.size >= (hm.capacity * 3) \div 4
HmPut(hm, k, v) ==
  LET i == HmIndex(hm, k)
  IN  [hm EXCEPT !.entries[i] = [key |-> k, value |-> v],
                 !.size = IF Free(hm, i) THEN @ + 1 ELSE @]
HmGet(hm, k) == LET i == HmIndex(hm, k)
                IN  IF i = -1 \/ Free(hm, i) THEN No ELSE hm.entries[i].value
IntMapItems(hm) ==
  [k \in Keys |-> IF \E i \in DOMAIN hm.entries : hm.entries[i].key = k
                    THEN (CHOOSE e \in Range(hm.entries) : e.key = k).value ELSE Nothing]
IntMapOps ==
  /\ kind = "hashmap_int"
  /\ \E k \in Keys :
       \/ Asked("hm_get", k, HmGet(obj, k))
       \/ \E v \in Values : IF HmFull(obj) \/ HmIndex(obj, k) = -1
                              THEN Asked("hm_put", <<k, v>>, No)
                              ELSE Did("hm_put", <<k, v>>, Yes, HmPut(obj, k, v))

(* hashmap_str.h: buckets of chained entries, the newest first.            *)
StrMap == [buckets |-> [i \in 0..Capacity - 1 |-> <<>>], capacity |-> Capacity, size |-> 0]
Bucket(k) == Hash[k] % Capacity
(* Mutant: a key is looked for in its chain's first entry only. *)
EntryFirst(hm, k) == LET e == hm.buckets[Bucket(k)]
                     IN  IF e # <<>> /\ e[1].key = k THEN 1 ELSE 0
(* The walk along e->next: the position of the key in its chain, or 0. *)
Entry(hm, k) == LET e == hm.buckets[Bucket(k)]
                    At == {i \in DOMAIN e : e[i].key = k}
                IN  IF At = {} THEN 0 ELSE CHOOSE i \in At : \A j \in At : i <= j
NewEntry(hm, k, v) == [hm EXCEPT !.buckets[Bucket(k)] = <<[key |-> k, value |-> v]>> \o @,
                                 !.size = @ + 1]
HmsAdd(hm, k, d) == LET i == Entry(hm, k)
                    IN  IF i = 0 THEN NewEntry(hm, k, d)
                        ELSE [hm EXCEPT !.buckets[Bucket(k)][i].value = @ + d]
HmsPut(hm, k, v) == LET i == Entry(hm, k)
                    IN  IF i = 0 THEN HmsAdd(hm, k, v)
                        ELSE [hm EXCEPT !.buckets[Bucket(k)][i].value = v]
HmsGet(hm, k) == LET i == Entry(hm, k) IN IF i = 0 THEN 0 ELSE hm.buckets[Bucket(k)][i].value
HmsReset(hm) == [hm EXCEPT !.buckets = [b \in DOMAIN hm.buckets |->
                   [i \in DOMAIN hm.buckets[b] |-> [hm.buckets[b][i] EXCEPT !.value = 0]]]]
StrMapItems(hm) ==
  [k \in Keys |-> LET found == {<<b, i>> \in (DOMAIN hm.buckets) \X (1..hm.size) :
                                  i \in DOMAIN hm.buckets[b] /\ hm.buckets[b][i].key = k}
                  IN  IF found = {} THEN Nothing
                      ELSE LET at == CHOOSE at \in found : TRUE
                           IN  hm.buckets[at[1]][at[2]].value]
StrMapOps ==
  /\ kind = "hashmap_str"
  /\ \/ Did("hms_reset", Nothing, Nothing, HmsReset(obj))
     \/ \E k \in Keys :
          \/ Asked("hms_get", k, HmsGet(obj, k))
          \/ Asked("hms_contains", k, Truth(Entry(obj, k) # 0))
          \/ \E v \in Values :
               \/ Did("hms_put", <<k, v>>, Yes, HmsPut(obj, k, v))
               \/ HmsGet(obj, k) + v \in Values /\ Did("hms_add", <<k, v>>, Yes, HmsAdd(obj, k, v))
               \/ Entry(obj, k) = 0 /\ (\/ Asked("hms_put", <<k, v>>, No)
                                        \/ Asked("hms_add", <<k, v>>, No))

-----------------------------------------------------------------------------
(* trie.h: a node is the path that leads to it.  A letter outside a..z is  *)
(* found only when the walk comes to it.                                   *)
BadLetter == -1
Words == UNION {[1..n -> Letters] : n \in 1..MaxLen}
Queries == Words \cup {<<>>} \cup UNION {[1..n -> Letters \cup {BadLetter}] : n \in 1..MaxLen}
NewNode == [count |-> 0, prefix |-> 0, id |-> 0]
Trie == [nodes |-> [p \in {<<>>} |-> NewNode], words |-> 0]

(* insert walks from node p along the word; it may be left, with NULL, at  *)
(* a bad letter or when there is no memory for the node "stop" letters on. *)
RECURSIVE TrieWalk(_, _, _, _)
TrieWalk(t, w, i, stop) ==
  LET p == SubSeq(w, 1, i)
      nodes == IF p \in DOMAIN t.nodes THEN t.nodes
               ELSE [q \in DOMAIN t.nodes \cup {p} |-> IF q = p THEN NewNode ELSE t.nodes[q]]
  IN  IF i > Len(w) \/ i = stop \/ w[i] = BadLetter THEN t
      ELSE TrieWalk([t EXCEPT !.nodes = [nodes EXCEPT ![p].prefix = @ + 1]], w, i + 1, stop)
TrieInsert(t, w) ==
  LET new == TrieWalk(t, w, 1, 0)
      first == new.nodes[w].count = 0
      words == IF first THEN t.words + 1 ELSE t.words
  IN  [new EXCEPT !.words = words, !.nodes[w].count = @ + 1,
                  !.nodes[w].id = IF first THEN words ELSE @]
TrieFind(t, w) == w \in DOMAIN t.nodes
TrieCount(t, w) == IF TrieFind(t, w) THEN t.nodes[w].count ELSE 0
TrieItems(t) == [w \in Words |-> TrieCount(t, w)]
(* Whether the letters of s behind the first pos, len of them, are a word. *)
MatchAt(t, s, pos, len) == TrieCount(t, SubSeq(s, pos + 1, pos + len)) > 0
Inserted == MapThenSumSet(LAMBDA w : TrieCount(obj, w), Words)
TrieOps ==
  /\ kind = "trie"
  /\ \/ /\ Inserted < MaxSize \div 2
        /\ \E w \in Words : Did("insert", w, Yes, TrieInsert(obj, w))
     (* NULL: memory ran out at a node that is not there yet, or a letter. *)
     \/ /\ "trie" \in Failing
        /\ \E w \in Queries \ {<<>>} : \E i \in DOMAIN w :
             /\ \/ w[i] = BadLetter \/ SubSeq(w, 1, i) \notin DOMAIN obj.nodes
             /\ Did("insert", w, No, TrieWalk(obj, w, 1, i))
     \/ \E w \in Queries : Asked("count", w, TrieCount(obj, w))
     \/ \E w \in Queries \ {<<>>} :
          Asked("starts_with", w, IF TrieFind(obj, w) THEN obj.nodes[w].prefix ELSE No)
     \/ \E s \in Queries : \E pos \in 0..Len(s) : \E len \in 0..Len(s) - pos :
          Asked("match_at", <<s, pos, len>>, Truth(MatchAt(obj, s, pos, len)))
     \/ Asked("word_count", Nothing, obj.words)

-----------------------------------------------------------------------------
(* bit_trie.h: a node is the number its path spells from the top bit down, *)
(* with the bit at which it ends; count[i, n] is its count.                *)
Range2(i) == 0..2^(Bits - i) - 1
Numbers == Range2(0)
BitTrie == [i \in 0..Bits - 1 |-> [n \in Range2(i) |-> Nothing]]
(* The node that num passes at bit i. *)
At(num, i) == num \div 2^i
Counted(t, num, d) ==
  [i \in 0..Bits - 1 |-> [t[i] EXCEPT ![At(num, i)] = IF @ = Nothing THEN d ELSE @ + d]]
NodeCount(t, n, i) == IF t[i][n] = Nothing THEN 0 ELSE t[i][n]
BitTrieContains(t, num) == \A i \in 0..Bits - 1 : NodeCount(t, At(num, i), i) > 0
(* max_xor wants the opposite bit at each level, min_xor the same; each    *)
(* takes the other child, whatever its count, when it must, and stops      *)
(* where there is none.                                                    *)
RECURSIVE BestXor(_, _, _, _, _)
BestXor(t, num, n, i, opposite) ==
  LET bit == At(num, i) % 2
      want == 2 * n + (IF opposite THEN 1 - bit ELSE bit)
      other == 2 * n + (IF opposite THEN bit ELSE 1 - bit)
      gain == 2^i
  IN  IF i < 0 THEN 0
      ELSE IF NodeCount(t, want, i) > 0
        THEN (IF opposite THEN gain ELSE 0) + BestXor(t, num, want, i - 1, opposite)
      ELSE IF t[i][other] # Nothing
        THEN (IF opposite THEN 0 ELSE gain) + BestXor(t, num, other, i - 1, opposite)
      ELSE 0
BitTrieItems(t) == [n \in Numbers |-> NodeCount(t, n, 0)]
BitTrieOps ==
  /\ kind = "bit_trie"
  /\ \E num \in Numbers :
       \/ /\ MapThenSumSet(LAMBDA n : NodeCount(obj, n, 0), Numbers) < MaxSize \div 2
          /\ Cardinality({n \in Numbers : n = num \/ obj[0][n] # Nothing}) <= MaxSize \div 2
          /\ Did("num_insert", num, Nothing, Counted(obj, num, 1))
       \/ (* not for a number that is absent: its path's counts would fall *)
          /\ BitTrieContains(obj, num)
          /\ Did("num_remove", num, Nothing, Counted(obj, num, -1))
       \/ Asked("num_contains", num, Truth(BitTrieContains(obj, num)))
       \/ /\ \E n \in Numbers : BitTrieContains(obj, n)
          /\ \/ Asked("max_xor", num, BestXor(obj, num, 0, Bits - 1, TRUE))
             \/ Asked("min_xor", num, BestXor(obj, num, 0, Bits - 1, FALSE))

-----------------------------------------------------------------------------
(* union_find.h: find compresses the path it walks.                        *)
Members == 0..Elements - 1
UnionFind == [parent |-> [x \in Members |-> x], rank |-> [x \in Members |-> 0],
              components |-> Elements]
RECURSIVE Compressed(_, _)
Compressed(parent, x) ==
  IF parent[x] = x THEN parent
  ELSE LET above == Compressed(parent, parent[x])
       IN  [above EXCEPT ![x] = above[parent[x]]]
(* The two finds with which union and connected begin. *)
Found(uf, x, y) == [uf EXCEPT !.parent = Compressed(Compressed(uf.parent, x), y)]
(* Mutant: x is hung below y's root, not x's root. *)
LinkHere(uf, x, y) ==
  LET f == Found(uf, x, y)
  IN  IF f.parent[x] = f.parent[y] THEN f
      ELSE [f EXCEPT !.parent[x] = f.parent[y], !.components = @ - 1]
UfUnion(uf, x, y) ==
  LET f == Found(uf, x, y)
      px == f.parent[x]
      py == f.parent[y]
      low == IF f.rank[px] < f.rank[py] THEN px ELSE py
      high == IF low = px THEN py ELSE px
  IN  IF px = py THEN f
      ELSE [f EXCEPT !.parent[low] = high, !.components = @ - 1,
                     !.rank[high] = IF f.rank[px] = f.rank[py] THEN @ + 1 ELSE @]
RECURSIVE RootOf(_, _)
RootOf(parent, x) == IF parent[x] = x THEN x ELSE RootOf(parent, parent[x])
PartitionOf(uf) == {{y \in Members : RootOf(uf.parent, y) = RootOf(uf.parent, x)} : x \in Members}
UnionFindOps ==
  /\ kind = "union_find"
  /\ \/ Asked("blocks", Nothing, obj.components)
     \/ \E x, y \in Members :
          LET f == Found(obj, x, y)
              same == f.parent[x] = f.parent[y]
          IN  \/ Did("union", <<x, y>>, Truth(~same), UfUnion(obj, x, y))
              \/ Did("connected", <<x, y>>, Truth(same), f)

(* The weighted form; weights are kept as logarithms: a product is a sum.  *)
Weighted == [parent |-> [x \in Members |-> x], weight |-> [x \in Members |-> 0]]
(* Mutant: the weight is taken after the new parent is set. *)
WeightedLate(uf, x) ==
  IF uf.parent[x] = x THEN uf
  ELSE LET root == RootOf(uf.parent, x)
       IN  [uf EXCEPT !.parent[x] = root, !.weight[x] = @ + uf.weight[root]]
RECURSIVE WeightedFound(_, _)
WeightedFound(uf, x) ==
  IF uf.parent[x] = x THEN uf
  ELSE LET above == WeightedFound(uf, uf.parent[x])
       IN  [above EXCEPT !.weight[x] = @ + above.weight[above.parent[x]],
                         !.parent[x] = above.parent[uf.parent[x]]]
WeightedUnion(uf, x, y, v) ==
  LET f == WeightedFound(WeightedFound(uf, x), y)
      px == f.parent[x]
  IN  IF px = f.parent[y] THEN f
      ELSE [f EXCEPT !.parent[px] = f.parent[y], !.weight[px] = v + f.weight[y] - f.weight[x]]
RECURSIVE ToRoot(_, _)
ToRoot(uf, x) == IF uf.parent[x] = x THEN 0 ELSE uf.weight[x] + ToRoot(uf, uf.parent[x])
RatiosOf(uf) == [x \in Members |-> [y \in Members |->
                   IF RootOf(uf.parent, x) = RootOf(uf.parent, y)
                     THEN ToRoot(uf, x) - ToRoot(uf, y) ELSE Nothing]]
WeightedOps ==
  /\ kind = "weighted"
  /\ \E x, y \in Members :
       \/ \E v \in Factors : Did("relate", <<x, y, v>>, Nothing, WeightedUnion(obj, x, y, v))
       \/ LET f == WeightedFound(WeightedFound(obj, x), y)
          IN  Did("ratio", <<x, y>>,
                  IF f.parent[x] = f.parent[y] THEN f.weight[x] - f.weight[y] ELSE Nothing, f)

-----------------------------------------------------------------------------
(* bit.h: binary indexed trees; tree[0] is not used.                       *)
RECURSIVE Lowbit(_)
Lowbit(x) == IF x % 2 = 1 THEN 1 ELSE 2 * Lowbit(x \div 2)
RECURSIVE Raised(_, _, _)
Raised(tree, idx, d) == IF idx > Cells THEN tree
                        ELSE Raised([tree EXCEPT ![idx] = @ + d], idx + Lowbit(idx), d)
RECURSIVE PrefixSum(_, _)
PrefixSum(tree, idx) == IF idx = 0 THEN 0 ELSE tree[idx] + PrefixSum(tree, idx - Lowbit(idx))
NoSums == [i \in 0..Cells |-> 0]
FenwickUpdate(tree, i, d) == Raised(tree, i + 1, d)
RECURSIVE BuildFrom(_, _, _)
BuildFrom(tree, a, i) == IF i = Cells THEN tree
                         ELSE BuildFrom(FenwickUpdate(tree, i, a[i]), a, i + 1)
FenwickBuild(a) == BuildFrom(NoSums, a, 0)
RangeSum(tree, l, r) == IF l = 0 THEN PrefixSum(tree, r + 1)
                        ELSE PrefixSum(tree, r + 1) - PrefixSum(tree, l)
FenwickSet(tree, i, v) == FenwickUpdate(tree, i, v - RangeSum(tree, i, i))
FenwickItems(tree) == [i \in 0..Cells - 1 |-> RangeSum(tree, i, i)]
FenwickOps ==
  /\ kind = "fenwick"
  /\ \/ op = "none" /\ \E a \in [0..Cells - 1 -> CellValues] : Did("build", a, Nothing, FenwickBuild(a))
     \/ \E i \in 0..Cells - 1 :
          \/ \E v \in CellValues : Did("assign", <<i, v>>, Nothing, FenwickSet(obj, i, v))
          \/ \E d \in {-1, 1} : /\ FenwickItems(obj)[i] + d \in CellValues
                                /\ Did("update", <<i, d>>, Nothing, FenwickUpdate(obj, i, d))
          \/ \E r \in i..Cells - 1 : Asked("sum", <<i, r>>, RangeSum(obj, i, r))

NoSums2d == [c \in (0..Rows) \X (0..Cols) |-> 0]
RECURSIVE Upward(_, _)
Upward(i, last) == IF i > last THEN {} ELSE {i} \cup Upward(i + Lowbit(i), last)
RECURSIVE Downward(_)
Downward(i) == IF i <= 0 THEN {} ELSE {i} \cup Downward(i - Lowbit(i))
Fenwick2dUpdate(tree, r, c, d) ==
  [p \in DOMAIN tree |-> IF p \in Upward(r + 1, Rows) \X Upward(c + 1, Cols)
                           THEN tree[p] + d ELSE tree[p]]
Fenwick2dQuery(tree, r, c) ==
  MapThenSumSet(LAMBDA p : tree[p], Downward(r + 1) \X Downward(c + 1))
Fenwick2dRange(tree, r1, c1, r2, c2) ==
  Fenwick2dQuery(tree, r2, c2)
    - (IF r1 > 0 THEN Fenwick2dQuery(tree, r1 - 1, c2) ELSE 0)
    - (IF c1 > 0 THEN Fenwick2dQuery(tree, r2, c1 - 1) ELSE 0)
    + (IF r1 > 0 /\ c1 > 0 THEN Fenwick2dQuery(tree, r1 - 1, c1 - 1) ELSE 0)
Fenwick2dItems(tree) == [p \in (0..Rows - 1) \X (0..Cols - 1) |->
                           Fenwick2dRange(tree, p[1], p[2], p[1], p[2])]
Fenwick2dOps ==
  /\ kind = "fenwick_2d"
  /\ \E p \in (0..Rows - 1) \X (0..Cols - 1) :
       \/ \E d \in {-1, 1} : /\ Fenwick2dItems(obj)[p] + d \in CellValues
                             /\ Did("update", <<p, d>>, Nothing, Fenwick2dUpdate(obj, p[1], p[2], d))
       \/ \E q \in (p[1]..Rows - 1) \X (p[2]..Cols - 1) :
            Asked("rect_sum", <<p, q>>, Fenwick2dRange(obj, p[1], p[2], q[1], q[2]))

-----------------------------------------------------------------------------
Kinds == {"heap", "hashmap_int", "hashmap_str", "trie", "bit_trie", "union_find",
          "weighted", "fenwick", "fenwick_2d"}
Init == /\ kind \in Kinds
        /\ op = "none" /\ arg = Nothing /\ answer = Nothing
        /\ \/ kind = "heap" /\ obj \in {Heap(b) : b \in BOOLEAN}
           \/ kind = "hashmap_int" /\ obj = IntMap
           \/ kind = "hashmap_str" /\ obj = StrMap
           \/ kind = "trie" /\ obj = Trie
           \/ kind = "bit_trie" /\ obj = BitTrie
           \/ kind = "union_find" /\ obj = UnionFind
           \/ kind = "weighted" /\ obj = Weighted
           \/ kind = "fenwick" /\ obj = NoSums
           \/ kind = "fenwick_2d" /\ obj = NoSums2d

(* Bound: after a call that only asks, the behaviour is not followed on;   *)
(* the collection is as it was before the call.                            *)
Questions == {"heap_peek", "hm_get", "hms_get", "hms_contains", "count", "starts_with",
              "word_count", "num_contains", "max_xor", "min_xor", "blocks", "sum", "rect_sum"}
Next == /\ op \notin Questions
        /\ \/ HeapOps \/ IntMapOps \/ StrMapOps \/ TrieOps \/ BitTrieOps
           \/ UnionFindOps \/ WeightedOps \/ FenwickOps \/ Fenwick2dOps
Spec == Init /\ [][Next]_vars

Contents == CASE kind = "heap" -> HeapItems(obj)
              [] kind = "hashmap_int" -> IntMapItems(obj)
              [] kind = "hashmap_str" -> StrMapItems(obj)
              [] kind = "trie" -> TrieItems(obj)
              [] kind = "bit_trie" -> BitTrieItems(obj)
              [] kind = "union_find" -> PartitionOf(obj)
              [] kind = "weighted" -> RatiosOf(obj)
              [] kind = "fenwick" -> FenwickItems(obj)
              [] OTHER -> Fenwick2dItems(obj)

(* Bitwise exclusive or of numbers below 2^Bits. *)
XorOf(x, y) == MapThenSumSet(LAMBDA i : IF At(x, i) % 2 = At(y, i) % 2 THEN 0 ELSE 2^i, 0..Bits - 1)
=============================================================================
