----------------------------- MODULE DjlcLinked -----------------------------
(***************************************************************************)
(* The nodes and edges of djlc: linked_list.h, tree.h, nary_tree.h and     *)
(* graph.h.  Nodes are numbers, Null is no node.  A behaviour of the first *)
(* three is one call on one input; a graph lives on and gets edges.        *)
(***************************************************************************)
EXTENDS Integers, Sequences, FiniteSets, FiniteSetsExt, SequencesExt

CONSTANTS Nothing,
          Vals,      \* the numbers in nodes
          ListLen,   \* bound: how long a list is
          TreeLen,   \* bound: how long the array of a tree is
          NaryNodes, \* bound: how many nodes an n-ary tree has
          GraphNodes,
          GraphEdges \* bound: how many edges a graph gets

VARIABLES kind, obj, op, arg, answer
vars == <<kind, obj, op, arg, answer>>

Asked(name, a, result) ==
  op' = name /\ arg' = a /\ answer' = result /\ UNCHANGED <<kind, obj>>
Null == 0
Dummy == -1  \* the node on the stack that merge_two hangs its result on

-----------------------------------------------------------------------------
(* linked_list.h.  A heap has the fields next and val of every node.       *)
SeqsOver(S, n) == UNION {[1..k -> S] : k \in 0..n}
NewNode(h, v) == LET id == Cardinality(DOMAIN h.val) + 1
                 IN  [next |-> [x \in DOMAIN h.next \cup {id} |-> IF x = id THEN Null ELSE h.next[x]],
                      val |-> [x \in DOMAIN h.val \cup {id} |-> IF x = id THEN v ELSE h.val[x]]]
EmptyHeap == [next |-> [x \in {Dummy} |-> Null], val |-> <<>>]
RECURSIVE Created(_, _, _)
Created(h, tail, s) ==
  IF s = <<>> THEN h
  ELSE LET id == Cardinality(DOMAIN h.val) + 1
       IN  Created([NewNode(h, s[1]) EXCEPT !.next[tail] = id], id, Tail(s))
(* list_create hands out the head: the first node that was made, if any.   *)
ListCreate(h, s) ==
  LET head == Cardinality(DOMAIN h.val) + 1
  IN  IF s = <<>> THEN [heap |-> h, head |-> Null]
      ELSE [heap |-> Created(NewNode(h, s[1]), head, Tail(s)), head |-> head]

RECURSIVE NodesFrom(_, _)
NodesFrom(h, n) == IF n = Null THEN <<>> ELSE <<n>> \o NodesFrom(h, h.next[n])
ListLength(h, n) == Len(NodesFrom(h, n))
RECURSIVE ListGet(_, _, _)
ListGet(h, n, i) == IF n # Null /\ i > 0 THEN ListGet(h, h.next[n], i - 1) ELSE n
RECURSIVE ListTail(_, _)
ListTail(h, n) == IF n = Null \/ h.next[n] = Null THEN n ELSE ListTail(h, h.next[n])
RECURSIVE ListEqual(_, _, _)
ListEqual(h, a, b) == IF a # Null /\ b # Null
                      THEN h.val[a] = h.val[b] /\ ListEqual(h, h.next[a], h.next[b])
                      ELSE a = Null /\ b = Null

(* list_free, and list_create when the node after the first k is refused:  *)
(* what it made is given back.  The result is the set of nodes not freed.  *)
RECURSIVE FreeFrom(_, _)
FreeFrom(h, n) == IF n = Null THEN {} ELSE {n} \cup FreeFrom(h, h.next[n])
CreateRefused(s, k) == LET l == ListCreate(EmptyHeap, SubSeq(s, 1, k))
                       IN  DOMAIN l.heap.val \ FreeFrom(l.heap, l.head)

(* Mutant: equal elements are taken from the second list. *)
MergeUnstable(h, a, b) == IF h.val[a] < h.val[b] THEN a ELSE b
FirstOf(h, a, b) == IF h.val[a] <= h.val[b] THEN a ELSE b
RECURSIVE MergeFrom(_, _, _, _)
MergeFrom(h, tail, a, b) ==
  IF a = Null \/ b = Null THEN [h EXCEPT !.next[tail] = IF a # Null THEN a ELSE b]
  ELSE LET x == FirstOf(h, a, b)
       IN  MergeFrom([h EXCEPT !.next[tail] = x], x,
                     IF x = a THEN h.next[a] ELSE a, IF x = b THEN h.next[b] ELSE b)
MergeTwo(h, a, b) == LET m == MergeFrom(h, Dummy, a, b)
                     IN  [heap |-> m, head |-> m.next[Dummy]]
RECURSIVE MergeRange(_, _, _, _)
MergeRange(h, lists, left, right) ==
  IF left > right THEN [heap |-> h, head |-> Null]
  ELSE IF left = right THEN [heap |-> h, head |-> lists[left]]
  ELSE LET mid == left + (right - left) \div 2
           l == MergeRange(h, lists, left, mid)
           r == MergeRange(l.heap, lists, mid + 1, right)
       IN  MergeTwo(r.heap, l.head, r.head)

RECURSIVE ReverseFrom(_, _, _, _)
ReverseFrom(h, prev, curr, n) ==
  IF n = 0 \/ curr = Null THEN [heap |-> h, prev |-> prev, curr |-> curr]
  ELSE ReverseFrom([h EXCEPT !.next[curr] = prev], curr, h.next[curr], n - 1)
ListReverse(h, head) == LET r == ReverseFrom(h, Null, head, -1)
                        IN  [heap |-> r.heap, head |-> r.prev]
(* For n > 0: with n = 0 the head would be made its own successor.         *)
ListReverseN(h, head, n) ==
  LET r == ReverseFrom(h, Null, head, n)
  IN  [heap |-> IF head = Null THEN r.heap ELSE [r.heap EXCEPT !.next[head] = r.curr],
       head |-> r.prev, tail |-> head]

Laid(lists) == FoldLeft(LAMBDA acc, s :
                          LET c == ListCreate(acc.heap, s)
                          IN  [heap |-> c.heap, heads |-> Append(acc.heads, c.head)],
                        [heap |-> EmptyHeap, heads |-> <<>>], lists)
Ordered(s) == \A i \in 1..Len(s) - 1 : s[i] <= s[i + 1]
Lists ==
  /\ kind = "linked_list" /\ op = "none"
  /\ \/ \E s \in SeqsOver(Vals, ListLen), i \in 0..ListLen + 1 :
          LET l == Laid(<<s>>)
          IN  \/ Asked("list_length", s, ListLength(l.heap, l.heads[1]))
              \/ Asked("list_get", <<s, i>>, ListGet(l.heap, l.heads[1], i))
              \/ Asked("list_tail", s, ListTail(l.heap, l.heads[1]))
              \/ LET r == ListReverse(l.heap, l.heads[1])
                 IN  Asked("list_reverse", s, NodesFrom(r.heap, r.head))
              \/ /\ i > 0
                 /\ LET r == ListReverseN(l.heap, l.heads[1], i)
                    IN  Asked("list_reverse_n", <<s, i>>, <<NodesFrom(r.heap, r.head), r.tail>>)
     \/ \E s \in SeqsOver(Vals, ListLen) : \E k \in 0..Len(s) - 1 :
          Asked("list_create", <<s, k>>, CreateRefused(s, k))
     \/ \E s \in SeqsOver(Vals, 2), t \in SeqsOver(Vals, 2) :
          LET l == Laid(<<s, t>>)
          IN  Asked("list_equal", <<s, t>>, ListEqual(l.heap, l.heads[1], l.heads[2]))
     \/ \E lists \in SeqsOver({s \in SeqsOver(Vals, 2) : Ordered(s)}, 3) :
          LET l == Laid(lists)
              m == MergeRange(l.heap, l.heads, 1, Len(lists))
          IN  Asked("list_merge_k", lists, NodesFrom(m.heap, m.head))

(* What they should answer, of the numbers of the nodes: 1, 2, ...         *)
Numbered(n) == [i \in 1..n |-> i]
Flipped(s) == [i \in 1..Len(s) |-> s[Len(s) + 1 - i]]
Least(a, b) == IF a < b THEN a ELSE b
ListsMeet ==
  CASE op = "list_length" -> answer = Len(arg)
    [] op = "list_get" -> answer = IF arg[2] < Len(arg[1]) THEN arg[2] + 1 ELSE Null
    [] op = "list_tail" -> answer = Len(arg)
    [] op = "list_reverse" -> answer = Flipped(Numbered(Len(arg)))
    [] op = "list_reverse_n" ->
         LET n == Len(arg[1])
             k == Least(arg[2], n)
         IN  answer = <<[i \in 1..n |-> IF i <= k THEN k + 1 - i ELSE i], Least(1, n)>>
    [] op = "list_create" -> answer = {}
    [] op = "list_equal" -> answer = (arg[1] = arg[2])
    [] op = "list_merge_k" ->
         LET v == FlattenSeq(arg)
             Before(x, y) == v[x] < v[y] \/ (v[x] = v[y] /\ x < y)
         IN  answer = SetToSortSeq(1..Len(v), Before)

-----------------------------------------------------------------------------
(* tree.h.  Node i + 1 of a tree is made of the element i of the array.    *)
None == Min(Vals) - 1  \* DJLC_TREE_NULL_VAL: no value is INT_MIN
Element(a, i) == IF i < Len(a) THEN a[i + 1] ELSE None
NodeAt(a, i) == IF Element(a, i) = None THEN Null ELSE i + 1
TreeBuild(a) == [root |-> NodeAt(a, 0), val |-> a,
                 left |-> [n \in 1..Len(a) |-> NodeAt(a, 2 * (n - 1) + 1)],
                 right |-> [n \in 1..Len(a) |-> NodeAt(a, 2 * (n - 1) + 2)]]
RECURSIVE TreeCount(_, _)
TreeCount(t, n) == IF n = Null THEN 0
                   ELSE 1 + TreeCount(t, t.left[n]) + TreeCount(t, t.right[n])
Higher(a, b) == IF a > b THEN a ELSE b
RECURSIVE TreeHeight(_, _)
TreeHeight(t, n) == IF n = Null THEN 0
                    ELSE 1 + Higher(TreeHeight(t, t.left[n]), TreeHeight(t, t.right[n]))
RECURSIVE CheckBalanced(_, _)
CheckBalanced(t, n) ==
  IF n = Null THEN 0
  ELSE LET lh == CheckBalanced(t, t.left[n])
           rh == CheckBalanced(t, t.right[n])
       IN  IF lh = -1 \/ rh = -1 \/ lh - rh > 1 \/ rh - lh > 1 THEN -1
           ELSE 1 + Higher(lh, rh)
TreeIsBalanced(t) == CheckBalanced(t, t.root) # -1
(* The limits of a long are outside of every int. *)
LongMin == Min(Vals) - 1
LongMax == Max(Vals) + 1
RECURSIVE BstValidate(_, _, _, _)
BstValidate(t, n, min, max) ==
  n # Null =>
     /\ ~(t.val[n] <= min \/ t.val[n] >= max)
     /\ BstValidate(t, t.left[n], min, t.val[n])
     /\ BstValidate(t, t.right[n], t.val[n], max)
BstIsValid(t) == BstValidate(t, t.root, LongMin, LongMax)
RECURSIVE BstSearch(_, _, _)
BstSearch(t, n, v) == IF n # Null /\ t.val[n] # v
                      THEN BstSearch(t, IF v < t.val[n] THEN t.left[n] ELSE t.right[n], v)
                      ELSE n
Trees ==
  /\ kind = "tree" /\ op = "none"
  /\ \E a \in SeqsOver(Vals \cup {None}, TreeLen) :
       LET t == TreeBuild(a)
       IN  \/ Asked("tree_count", a, TreeCount(t, t.root))
           \/ Asked("tree_height", a, TreeHeight(t, t.root))
           \/ Asked("tree_is_balanced", a, TreeIsBalanced(t))
           \/ Asked("bst_is_valid", a, BstIsValid(t))
           \/ \E v \in Vals : BstIsValid(t) /\ Asked("bst_search", <<a, v>>, BstSearch(t, t.root, v))

(* The nodes above a position of the array, itself included, and what      *)
(* hangs on the root: values below a null element do not.                  *)
Up == [i \in 0..TreeLen |-> {(i + 1) \div (2^k) - 1 : k \in {k \in 0..TreeLen : 2^k <= i + 1}}]
Hung(a) == {i \in 0..Len(a) - 1 : \A j \in Up[i] : Element(a, j) # None}
Under(a, i) == {j \in Hung(a) : i \in Up[j]}
Tallness(a, i) == IF i \notin Hung(a) THEN 0
                  ELSE Max({Cardinality(Up[j]) - Cardinality(Up[i]) + 1 : j \in Under(a, i)})
IsBst(a) == \A i \in Hung(a) :
               /\ \A j \in Under(a, 2 * i + 1) : Element(a, j) < Element(a, i)
               /\ \A j \in Under(a, 2 * i + 2) : Element(a, j) > Element(a, i)
TreesMeet ==
  CASE op = "tree_count" -> answer = Cardinality(Hung(arg))
    [] op = "tree_height" -> answer = Tallness(arg, 0)
    [] op = "tree_is_balanced" ->
         answer = \A i \in Hung(arg) :
                     Tallness(arg, 2 * i + 1) - Tallness(arg, 2 * i + 2) \in -1..1
    [] op = "bst_is_valid" -> answer = IsBst(arg)
    [] op = "bst_search" ->
         LET found == {i \in Hung(arg[1]) : Element(arg[1], i) = arg[2]}
         IN  IF found = {} THEN answer = Null ELSE found = {answer - 1}

-----------------------------------------------------------------------------
(* nary_tree.h.  A tree gives every node the sequence of its children.  Its *)
(* nodes are added one after the other: parent[i] is the parent of i + 1.  *)
NoChildren == [n \in 1..NaryNodes |-> <<>>]
AddChild(t, parent, child) == [t EXCEPT ![parent] = Append(@, child)]
NaryTree(parent) == FoldLeft(LAMBDA t, i : AddChild(t, parent[i], i + 1),
                             NoChildren, Numbered(Len(parent)))
Visit(n, level) == <<n, level>>
(* The queue of level_order has room for 10000 nodes: more do not fit.     *)
RECURSIVE LevelOrder(_, _, _)
LevelOrder(t, queue, front) ==
  IF front > Len(queue) THEN queue
  ELSE LET node == queue[front][1]
           level == queue[front][2]
       IN  LevelOrder(t, queue \o [i \in 1..Len(t[node]) |-> Visit(t[node][i], level + 1)],
                      front + 1)
RECURSIVE Preorder(_, _, _)
Preorder(t, n, depth) ==
  <<Visit(n, depth)>> \o FlattenSeq([i \in 1..Len(t[n]) |-> Preorder(t, t[n][i], depth + 1)])
RECURSIVE Postorder(_, _, _)
Postorder(t, n, depth) ==
  FlattenSeq([i \in 1..Len(t[n]) |-> Postorder(t, t[n][i], depth + 1)]) \o <<Visit(n, depth)>>
RECURSIVE MaxDepth(_, _)
MaxDepth(t, n) == 1 + FoldLeft(LAMBDA m, c : Higher(m, MaxDepth(t, c)), 0, t[n])
RECURSIVE CountNodes(_, _)
CountNodes(t, n) == FoldLeft(LAMBDA m, c : m + CountNodes(t, c), 1, t[n])
Narys ==
  /\ kind = "nary_tree" /\ op = "none"
  /\ \E k \in 0..NaryNodes - 1 : \E parent \in [1..k -> 1..NaryNodes] :
       /\ \A i \in 1..k : parent[i] <= i
       /\ LET t == NaryTree(parent)
          IN  \/ Asked("nary_level_order", parent, LevelOrder(t, <<Visit(1, 0)>>, 1))
              \/ Asked("nary_preorder", parent, Preorder(t, 1, 0))
              \/ Asked("nary_postorder", parent, Postorder(t, 1, 0))
              \/ Asked("nary_max_depth", parent, MaxDepth(t, 1))
              \/ Asked("nary_count_nodes", parent, CountNodes(t, 1))

(* The way from the root to a node, and the three orders of those ways.    *)
RECURSIVE Way(_, _)
Way(parent, n) == IF n = 1 THEN <<>> ELSE Append(Way(parent, parent[n - 1]), n)
NarysMeet ==
  LET All == 1..Len(arg) + 1
      way == [n \in All |-> Way(arg, n)]
      Depth(n) == Len(way[n])
      Above(x, y) == Depth(x) < Depth(y) /\ SubSeq(way[y], 1, Depth(x)) = way[x]
      Left(x, y) == \E i \in 1..Least(Depth(x), Depth(y)) :
                       way[x][i] < way[y][i] /\ SubSeq(way[x], 1, i - 1) = SubSeq(way[y], 1, i - 1)
      Listed(s) == [i \in 1..Len(s) |-> Visit(s[i], Depth(s[i]))]
      ByLevel(x, y) == Depth(x) < Depth(y) \/ (Depth(x) = Depth(y) /\ Left(x, y))
      Pre(x, y) == Above(x, y) \/ Left(x, y)
      Post(x, y) == Above(y, x) \/ Left(x, y)
  IN  CASE op = "nary_level_order" -> answer = Listed(SetToSortSeq(All, ByLevel))
        [] op = "nary_preorder" -> answer = Listed(SetToSortSeq(All, Pre))
        [] op = "nary_postorder" -> answer = Listed(SetToSortSeq(All, Post))
        [] op = "nary_max_depth" -> answer = 1 + Max({Depth(n) : n \in All})
        [] op = "nary_count_nodes" -> answer = Cardinality(All)

-----------------------------------------------------------------------------
(* graph.h.  A list of neighbours grows when it is full; that the memory   *)
(* for it is refused, which leaves the graph without the list, is left out. *)
NewGraph == [adj |-> [u \in GraphNodes |-> <<>>], indegree |-> [u \in GraphNodes |-> 0]]
AddEdge(g, u, v) == [g EXCEPT !.adj[u] = Append(@, v), !.indegree[v] = @ + 1]
InOrder(S) == SetToSortSeq(S, <)
ResetIndegree(g) ==
  [g EXCEPT !.indegree = FoldLeft(LAMBDA d, v : [d EXCEPT ![v] = @ + 1], [u \in GraphNodes |-> 0],
                                  FlattenSeq([i \in 1..Cardinality(GraphNodes) |->
                                                g.adj[InOrder(GraphNodes)[i]]]))]
(* The edges that leave u, in the order in which they were added.          *)
Lowered(s, v) ==
  LET d == [s.indeg EXCEPT ![v] = @ - 1]
  IN  [s EXCEPT !.indeg = d, !.queue = IF d[v] = 0 THEN Append(@, v) ELSE @]
RECURSIVE KahnFrom(_, _, _)
KahnFrom(g, s, front) ==
  IF front > Len(s.queue) THEN s.queue
  ELSE KahnFrom(g, FoldLeft(Lowered, s, g.adj[s.queue[front]]), front + 1)
TopoSort(g) == KahnFrom(g, [indeg |-> g.indegree,
                            queue |-> InOrder({u \in GraphNodes : g.indegree[u] = 0})], 1)
HasCycle(g) == Len(TopoSort(g)) < Cardinality(GraphNodes)
CanFinish(g) == Len(TopoSort(g)) = Cardinality(GraphNodes)
RECURSIVE BfsFrom(_, _, _)
BfsFrom(g, s, front) ==
  IF front > Len(s.queue) THEN s
  ELSE LET u == s.queue[front]
           Found(x, v) == IF x.dist[v] # -1 THEN x
                          ELSE [dist |-> [x.dist EXCEPT ![v] = x.dist[u] + 1],
                                max |-> Higher(x.max, x.dist[u] + 1), queue |-> Append(x.queue, v)]
       IN  BfsFrom(g, FoldLeft(Found, s, g.adj[u]), front + 1)
Bfs(g, start) ==
  LET s == BfsFrom(g, [dist |-> [u \in GraphNodes |-> IF u = start THEN 0 ELSE -1],
                       max |-> 0, queue |-> <<start>>], 1)
  IN  <<s.dist, s.max>>
EdgeCount(g) == FoldLeft(LAMBDA n, u : n + Len(g.adj[u]), 0, SetToSeq(GraphNodes))
Graph ==
  /\ kind = "graph"
  /\ \/ \E u, v \in GraphNodes :
          /\ EdgeCount(obj) < GraphEdges /\ op \in {"none", "add_edge", "reset_indegree"}
          /\ op' = "add_edge" /\ arg' = <<u, v>> /\ answer' = TRUE
          /\ obj' = AddEdge(obj, u, v) /\ UNCHANGED kind
     \/ /\ op = "add_edge"
        /\ \/ /\ op' = "reset_indegree" /\ arg' = Nothing /\ answer' = Nothing
              /\ obj' = ResetIndegree(obj) /\ UNCHANGED kind
           \/ Asked("topo_sort", Nothing, TopoSort(obj))
           \/ Asked("has_cycle", Nothing, HasCycle(obj))
           \/ Asked("can_finish", Nothing, CanFinish(obj))
           \/ \E start \in GraphNodes : Asked("bfs", start, Bfs(obj, start))

(* Reachability by paths of at most as many edges as there are nodes; the  *)
(* topological order of all nodes, or the longest order there is.          *)
Edge(u, v) == \E i \in 1..Len(obj.adj[u]) : obj.adj[u][i] = v
RECURSIVE Within(_, _)
Within(start, n) == IF n = 0 THEN {start}
                    ELSE LET near == Within(start, n - 1)
                         IN  near \cup {v \in GraphNodes : \E u \in near : Edge(u, v)}
Everything(start) == Within(start, Cardinality(GraphNodes))
Distance(start, v) == IF v \notin Everything(start) THEN -1
                      ELSE Min({n \in 0..Cardinality(GraphNodes) : v \in Within(start, n)})
Cyclic(u) == \E v \in GraphNodes : Edge(u, v) /\ u \in Everything(v)
(* Nodes that a cycle leads to are never free of their predecessors.       *)
Stuck == UNION {Everything(u) : u \in {u \in GraphNodes : Cyclic(u)}}
GraphsMeet ==
  /\ obj.indegree = [v \in GraphNodes |->
                       FoldLeft(LAMBDA n, u : n + Len(SelectSeq(obj.adj[u], LAMBDA w : w = v)),
                                0, SetToSeq(GraphNodes))]
  /\ CASE op = "topo_sort" ->
            /\ ToSet(answer) = GraphNodes \ Stuck /\ IsInjective(answer)
            /\ \A i, j \in 1..Len(answer) : Edge(answer[i], answer[j]) => i < j
       [] op = "has_cycle" -> answer = \E u \in GraphNodes : Cyclic(u)
       [] op = "can_finish" -> answer = \A u \in GraphNodes : ~Cyclic(u)
       [] op = "bfs" ->
            /\ answer[1] = [v \in GraphNodes |-> Distance(arg, v)]
            /\ answer[2] = Max({Distance(arg, v) : v \in GraphNodes})
       [] OTHER -> TRUE

-----------------------------------------------------------------------------
Kinds == {"linked_list", "tree", "nary_tree", "graph"}
Init == /\ kind \in Kinds
        /\ obj = IF kind = "graph" THEN NewGraph ELSE Nothing
        /\ op = "none" /\ arg = Nothing /\ answer = Nothing
Next == Lists \/ Trees \/ Narys \/ Graph
Spec == Init /\ [][Next]_vars

(* Every call answers what its comment in the header promises, by a        *)
(* definition that has no pointers, queues or counters in it.              *)
MeetsReference ==
  \/ op = "none"
  \/ kind = "linked_list" /\ ListsMeet
  \/ kind = "tree" /\ TreesMeet
  \/ kind = "nary_tree" /\ NarysMeet
  \/ kind = "graph" /\ GraphsMeet
=============================================================================
