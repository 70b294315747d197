---------------------------- MODULE CollectionAdt ---------------------------
(* What the collections of djlc promise that are not sequences: priority   *)
(* queues, maps, sets of words and of numbers, partitions and arrays with  *)
(* sums.  "contents" is the mathematical object, in the form its kind has. *)
EXTENDS Integers, Sequences, FiniteSets, FiniteSetsExt

CONSTANTS Nothing,
          Yes, No,    \* true and false, as returned
          Xor(_, _)   \* of numbers

VARIABLES contents, op, arg, answer

Did(name, a, result) == op' = name /\ arg' = a /\ answer' = result
Asked(name, a, result) == Did(name, a, result) /\ UNCHANGED contents
Truth(b) == IF b THEN Yes ELSE No

(* A call that memory, or the room in the table, did not suffice for.      *)
Refused == /\ op' \in {"heap_push", "hm_put", "hms_put", "hms_add"}
           /\ answer' = No /\ UNCHANGED contents

(* Priority queue: contents.bag counts the numbers, contents.max tells     *)
(* whether the largest or the smallest comes first.                        *)
In(bag) == {v \in DOMAIN bag : bag[v] > 0}
Best == IF contents.max THEN Max(In(contents.bag)) ELSE Min(In(contents.bag))
Push(v) == Did("heap_push", v, Yes) /\ contents' = [contents EXCEPT !.bag[v] = @ + 1]
Pop == IF In(contents.bag) = {} THEN Asked("heap_pop", Nothing, No)
       ELSE Did("heap_pop", Nothing, Best) /\ contents' = [contents EXCEPT !.bag[Best] = @ - 1]
Peek == Asked("heap_peek", Nothing, IF In(contents.bag) = {} THEN No ELSE Best)
Heapify(s) == /\ Did("heapify", s, Nothing)
              /\ contents' = [contents EXCEPT
                   !.bag = [v \in DOMAIN contents.bag |-> Cardinality({i \in DOMAIN s : s[i] = v})]]

(* Maps: contents[k] is the value of key k, or Nothing. *)
Present(k) == contents[k] # Nothing
HmPut(k, v) == Did("hm_put", <<k, v>>, Yes) /\ contents' = [contents EXCEPT ![k] = v]
HmGet(k) == Asked("hm_get", k, IF Present(k) THEN contents[k] ELSE No)
HmsPut(k, v) == Did("hms_put", <<k, v>>, Yes) /\ contents' = [contents EXCEPT ![k] = v]
HmsAdd(k, v) == /\ Did("hms_add", <<k, v>>, Yes)
                /\ contents' = [contents EXCEPT ![k] = IF Present(k) THEN @ + v ELSE v]
HmsGet(k) == Asked("hms_get", k, IF Present(k) THEN contents[k] ELSE 0)
HmsContains(k) == Asked("hms_contains", k, Truth(Present(k)))
HmsReset == /\ Did("hms_reset", Nothing, Nothing)
            /\ contents' = [k \in DOMAIN contents |-> IF Present(k) THEN 0 ELSE Nothing]

(* Words: contents[w] counts the insertions of w. *)
Extensions(p) == {w \in DOMAIN contents : Len(w) >= Len(p) /\ SubSeq(w, 1, Len(p)) = p}
Insert(w) == Did("insert", w, Yes) /\ contents' = [contents EXCEPT ![w] = @ + 1]
InsertRefused(w) == Asked("insert", w, No)
Count(w) == Asked("count", w, IF w \in DOMAIN contents THEN contents[w] ELSE 0)
StartsWith(p) == LET n == MapThenSumSet(LAMBDA w : contents[w], Extensions(p))
                 IN  Asked("starts_with", p, IF n > 0 THEN n ELSE No)
MatchAt(s, pos, len) ==
  Asked("match_at", <<s, pos, len>>,
        Truth(\E w \in DOMAIN contents : /\ contents[w] > 0 /\ Len(w) = len
                                        /\ \A i \in 1..len : s[pos + i] = w[i]))
WordCount == Asked("word_count", Nothing, Cardinality({w \in DOMAIN contents : contents[w] > 0}))

(* Numbers: contents[x] counts the insertions less the removals of x. *)
Numbers == {x \in DOMAIN contents : contents[x] > 0}
NumInsert(x) == Did("num_insert", x, Nothing) /\ contents' = [contents EXCEPT ![x] = @ + 1]
NumRemove(x) == Did("num_remove", x, Nothing) /\ contents' = [contents EXCEPT ![x] = @ - 1]
NumContains(x) == Asked("num_contains", x, Truth(x \in Numbers))
MaxXor(x) == Numbers # {} /\ Asked("max_xor", x, Max({Xor(x, y) : y \in Numbers}))
MinXor(x) == Numbers # {} /\ Asked("min_xor", x, Min({Xor(x, y) : y \in Numbers}))

(* Partitions: contents is the set of blocks. *)
Block(x) == CHOOSE b \in contents : x \in b
Union(x, y) == /\ Did("union", <<x, y>>, Truth(Block(x) # Block(y)))
               /\ contents' = (contents \ {Block(x), Block(y)}) \cup {Block(x) \cup Block(y)}
Connected(x, y) == Asked("connected", <<x, y>>, Truth(Block(x) = Block(y)))
Blocks == Asked("blocks", Nothing, Cardinality(contents))

(* Ratios: contents[x][y] is the logarithm of x / y, or Nothing. *)
Relate(x, y, v) ==
  LET c == contents
      From(a) == c[a][x] # Nothing
      To(b) == c[y][b] # Nothing
  IN  /\ Did("relate", <<x, y, v>>, Nothing)
      /\ contents' = IF c[x][y] # Nothing THEN c
                     ELSE [a \in DOMAIN c |-> [b \in DOMAIN c |->
                             IF From(a) /\ To(b) THEN c[a][x] + v + c[y][b]
                             ELSE IF From(b) /\ To(a) THEN -(c[b][x] + v + c[y][a])
                             ELSE c[a][b]]]
Ratio(x, y) == Asked("ratio", <<x, y>>, contents[x][y])

(* Arrays with sums. *)
Sum(cells) == MapThenSumSet(LAMBDA i : contents[i], cells)
Update(i, d) == Did("update", <<i, d>>, Nothing) /\ contents' = [contents EXCEPT ![i] = @ + d]
Assign(i, v) == Did("assign", <<i, v>>, Nothing) /\ contents' = [contents EXCEPT ![i] = v]
Build(a) == Did("build", a, Nothing) /\ contents' = [i \in DOMAIN contents |-> a[i]]
RangeSum(l, r) == Asked("sum", <<l, r>>, Sum({i \in DOMAIN contents : l <= i /\ i <= r}))
RectSum(p, q) == Asked("rect_sum", <<p, q>>,
                       Sum({c \in DOMAIN contents : /\ p[1] <= c[1] /\ c[1] <= q[1]
                                                    /\ p[2] <= c[2] /\ c[2] <= q[2]}))

(* The call is known from op' and arg': there is nothing to choose. *)
Next ==
  \/ Refused
  \/ op' = "heap_push" /\ Push(arg')
  \/ op' = "heap_pop" /\ Pop
  \/ op' = "heap_peek" /\ Peek
  \/ op' = "heapify" /\ Heapify(arg')
  \/ op' = "hm_put" /\ HmPut(arg'[1], arg'[2])
  \/ op' = "hm_get" /\ HmGet(arg')
  \/ op' = "hms_put" /\ HmsPut(arg'[1], arg'[2])
  \/ op' = "hms_add" /\ HmsAdd(arg'[1], arg'[2])
  \/ op' = "hms_get" /\ HmsGet(arg')
  \/ op' = "hms_contains" /\ HmsContains(arg')
  \/ op' = "hms_reset" /\ HmsReset
  \/ op' = "insert" /\ (IF arg' \in DOMAIN contents
                          THEN Insert(arg') \/ InsertRefused(arg') ELSE InsertRefused(arg'))
  \/ op' = "count" /\ Count(arg')
  \/ op' = "starts_with" /\ StartsWith(arg')
  \/ op' = "match_at" /\ MatchAt(arg'[1], arg'[2], arg'[3])
  \/ op' = "word_count" /\ WordCount
  \/ op' = "num_insert" /\ NumInsert(arg')
  \/ op' = "num_remove" /\ NumRemove(arg')
  \/ op' = "num_contains" /\ NumContains(arg')
  \/ op' = "max_xor" /\ MaxXor(arg')
  \/ op' = "min_xor" /\ MinXor(arg')
  \/ op' = "union" /\ Union(arg'[1], arg'[2])
  \/ op' = "connected" /\ Connected(arg'[1], arg'[2])
  \/ op' = "blocks" /\ Blocks
  \/ op' = "relate" /\ Relate(arg'[1], arg'[2], arg'[3])
  \/ op' = "ratio" /\ Ratio(arg'[1], arg'[2])
  \/ op' = "update" /\ Update(arg'[1], arg'[2])
  \/ op' = "assign" /\ Assign(arg'[1], arg'[2])
  \/ op' = "build" /\ Build(arg')
  \/ op' = "sum" /\ RangeSum(arg'[1], arg'[2])
  \/ op' = "rect_sum" /\ RectSum(arg'[1], arg'[2])

Keeps == [][Next]_<<contents, op, arg, answer>>
=============================================================================
