--------------------------- MODULE DjlcSequences ----------------------------
(***************************************************************************)
(* The containers of djlc that keep elements in order: the ring arrays of  *)
(* circular_buffer.h, deque.h and queue.h, the arrays of stack.h and       *)
(* vector.h, and the doubly linked list of doubly_list.h.  A behaviour is  *)
(* the life of one container, of the kind that Init chooses; malloc may    *)
(* fail whenever it is called.                                             *)
(***************************************************************************)
EXTENDS Integers, Sequences, FiniteSets

CONSTANTS Values,     \* the elements
          Nodes,      \* the nodes of a doubly linked list
          Capacities, \* the capacities asked for
          MaxSize,    \* bound: how many elements are put in
          Junk,       \* the contents of memory that was never written
          Nothing,    \* NULL, or no answer
          Yes, No     \* true and false, as returned

VARIABLES kind, obj, op, arg, answer
vars == <<kind, obj, op, arg, answer>>

Did(name, a, result, new) ==
  op' = name /\ arg' = a /\ answer' = result /\ obj' = new /\ UNCHANGED kind

Memory(n, fill) == [i \in 0..n - 1 |-> fill]
Live == obj.capacity > 0
Room == obj.size < MaxSize

-----------------------------------------------------------------------------
(* Ring arrays.  obj.rear is the index after the last element.             *)
NewRing(cap, fill) == [data |-> Memory(cap, fill), front |-> 0, rear |-> 0,
                       size |-> 0, capacity |-> cap, sum |-> 0]
NoRing == NewRing(0, Junk)
Slot(r, i) == (r.front + i) % r.capacity
RingItems(r) == [i \in 1..r.size |-> r.data[Slot(r, i - 1)]]

(* Mutant: the wrapped elements are copied as they lie in memory. *)
GrowFlat(r, gap) ==
  [r EXCEPT !.data = [j \in 0..2 * r.capacity - 1 |->
                        IF j - gap \in 0..r.size - 1 THEN r.data[j - gap] ELSE Junk],
            !.front = gap, !.rear = r.size + gap, !.capacity = 2 * @]
(* Twice the room, the elements copied in order from index gap on. *)
GrowRing(r, gap) ==
  [r EXCEPT !.data = [j \in 0..2 * r.capacity - 1 |->
                        IF j - gap \in 0..r.size - 1 THEN r.data[Slot(r, j - gap)] ELSE Junk],
            !.front = gap, !.rear = r.size + gap, !.capacity = 2 * @]
Grown(r, gap) == IF r.size >= r.capacity THEN GrowRing(r, gap) ELSE r

PutBack(r, v) == [r EXCEPT !.data[r.rear] = v, !.rear = (@ + 1) % r.capacity, !.size = @ + 1]
TakeFront(r) == [r EXCEPT !.front = (@ + 1) % r.capacity, !.size = @ - 1]
LastSlot(r) == (r.rear - 1 + r.capacity) % r.capacity
DequePushFront(r, v) ==
  LET g == Grown(r, 1)
      front == (g.front - 1 + g.capacity) % g.capacity
  IN  [g EXCEPT !.front = front, !.data[front] = v, !.size = @ + 1]
DequePopBack(r) == [r EXCEPT !.rear = LastSlot(r), !.size = @ - 1]

(* pop_back_while_ge and _le: the loop ends where back is dominated no more. *)
RECURSIVE PopWhile(_, _, _)
PopWhile(r, v, ge) ==
  LET back == r.data[LastSlot(r)]
  IN  IF r.size > 0 /\ (IF ge THEN back >= v ELSE back <= v)
        THEN PopWhile(DequePopBack(r), v, ge) ELSE r

(* What all three ring arrays have: init, free, the size, pop and front.   *)
RingLife(fill) ==
  \/ /\ ~Live
     /\ \E cap \in Capacities : \/ Did("init", cap, Yes, NewRing(cap, fill))
                                \/ Did("init", cap, No, obj)
  \/ Live /\ Did("free", Nothing, Nothing, NoRing)
  \/ Live /\ Did("size", Nothing, obj.size, obj)
FrontOps ==
  /\ Live
  /\ IF obj.size = 0 THEN \E name \in {"pop_front", "front"} : Did(name, Nothing, No, obj)
     ELSE \/ Did("pop_front", Nothing, obj.data[obj.front], TakeFront(obj))
          \/ Did("front", Nothing, obj.data[obj.front], obj)

(* A push that must grow the array first, which may fail. *)
PushOrFail(name, v, new) ==
  /\ Live /\ Room
  /\ \/ Did(name, v, Yes, new)
     \/ obj.size >= obj.capacity /\ Did(name, v, No, obj)

QueuePush(r, v) == PutBack(Grown(r, 0), v)
QueueInt == /\ kind = "queue_int"
            /\ \/ RingLife(Junk) \/ FrontOps
               \/ \E v \in Values : PushOrFail("push_back", v, QueuePush(obj, v))
(* The same text once more for void pointers. *)
QueuePtr == /\ kind = "queue_ptr"
            /\ \/ RingLife(Junk) \/ FrontOps
               \/ \E v \in Values : PushOrFail("push_back", v, QueuePush(obj, v))

DequeClear(r) == [r EXCEPT !.front = 0, !.rear = 0, !.size = 0]
DequePushBack(r, v) == PutBack(Grown(r, 0), v)
Deque ==
  /\ kind = "deque"
  /\ \/ RingLife(Junk) \/ FrontOps
     \/ Live /\ Did("clear", Nothing, Nothing, DequeClear(obj))
     \/ \E v \in Values :
          \/ PushOrFail("push_back", v, DequePushBack(obj, v))
          \/ PushOrFail("push_front", v, DequePushFront(obj, v))
          \/ Live /\ Did("drop_ge", v, Nothing, PopWhile(obj, v, TRUE))
          \/ Live /\ Did("drop_le", v, Nothing, PopWhile(obj, v, FALSE))
     \/ /\ Live
        /\ IF obj.size = 0 THEN \E name \in {"pop_back", "back"} : Did(name, Nothing, No, obj)
           ELSE LET back == obj.data[LastSlot(obj)]
                IN  \/ Did("pop_back", Nothing, back, DequePopBack(obj))
                    \/ Did("back", Nothing, back, obj)

(* djlc_cbuf_int_push drops the oldest when full, and returns it, or 0.    *)
CbufOld(r) == IF r.size = r.capacity THEN r.data[r.front] ELSE 0
CbufPush(r, v) ==
  PutBack(IF r.size = r.capacity THEN TakeFront(r) ELSE r, v)
Cbuf ==
  /\ kind = "cbuf"
  /\ \/ RingLife(0) \/ FrontOps
     \/ Live /\ Did("clear", Nothing, Nothing, DequeClear(obj))
     \/ \E v \in Values : Live /\ Did("push_back", v, CbufOld(obj), CbufPush(obj, v))
     \/ \E i \in 0..obj.size - 1 : Did("get", i, obj.data[Slot(obj, i)], obj)

(* djlc_moving_avg: the buffer and the running sum; the quotient is left   *)
(* to the reader of sum and count.                                         *)
MovingAvgNext(r, v) == [CbufPush(r, v) EXCEPT !.sum = r.sum + (v - CbufOld(r))]
MovingAvg ==
  /\ kind = "moving_avg"
  /\ \/ RingLife(0)
     \/ Live /\ Did("clear", Nothing, Nothing, [DequeClear(obj) EXCEPT !.sum = 0])
     \/ \E v \in Values : LET new == MovingAvgNext(obj, v)
                          IN  Live /\ Did("average", v, <<new.sum, new.size>>, new)
     \/ Live /\ Did("average", Nothing, <<obj.sum, obj.size>>, obj)

-----------------------------------------------------------------------------
(* Plain arrays: stacks count with top, the index of the top element, here *)
(* size - 1; vectors with size.                                            *)
NewArray(cap) == [data |-> Memory(cap, Junk), size |-> 0, capacity |-> cap]
ArrayItems(a) == [i \in 1..a.size |-> a.data[i - 1]]
Resized(a, cap) ==
  [a EXCEPT !.data = [i \in 0..cap - 1 |-> IF i < a.capacity THEN a.data[i] ELSE Junk],
            !.capacity = cap]
ArrayPush(a, v) ==
  LET g == IF a.size >= a.capacity THEN Resized(a, 2 * a.capacity) ELSE a
  IN  [g EXCEPT !.data[a.size] = v, !.size = @ + 1]
Shorter(a) == [a EXCEPT !.size = @ - 1]

ArrayLife ==
  \/ /\ ~Live
     /\ \E cap \in Capacities : \/ Did("init", cap, Yes, NewArray(cap))
                                \/ Did("init", cap, No, obj)
  \/ Live /\ Did("free", Nothing, Nothing, NewArray(0))
  \/ Live /\ Did("size", Nothing, obj.size, obj)
  \/ \E v \in Values : PushOrFail("push_back", v, ArrayPush(obj, v))
Top == obj.data[obj.size - 1]
StackOps == /\ Live
            /\ IF obj.size = 0
                 THEN \E name \in {"pop_back", "back"} : Did(name, Nothing, No, obj)
                 ELSE \/ Did("pop_back", Nothing, Top, Shorter(obj))
                      \/ Did("back", Nothing, Top, obj)
StackInt == kind = "stack_int" /\ (ArrayLife \/ StackOps)
StackChar == kind = "stack_char" /\ (ArrayLife \/ StackOps)

(* DJLC_STACK_CHAR_*: a declared array, which the caller neither overfills *)
(* nor pops when empty.                                                    *)
StackStatic ==
  /\ kind = "stack_static"
  /\ \/ ~Live /\ \E cap \in Capacities : Did("init", cap, Yes, NewArray(cap))
     \/ Live /\ Did("size", Nothing, obj.size, obj)
     \/ /\ obj.size < obj.capacity
        /\ \E v \in Values :
             Did("push_back", v, Yes, [obj EXCEPT !.data[obj.size] = v, !.size = @ + 1])
     \/ obj.size > 0 /\ Did("pop_back", Nothing, Top, Shorter(obj))
     \/ obj.size > 0 /\ Did("back", Nothing, Top, obj)

(* djlc_vec_reserve doubles until n more elements fit.                     *)
RECURSIVE Doubled(_, _)
Doubled(cap, need) == IF cap < need THEN Doubled(2 * cap, need) ELSE cap
Reserved(a, n) == IF a.size + n <= a.capacity THEN a
                  ELSE Resized(a, Doubled(a.capacity, a.size + n))
VectorClear(a) == [a EXCEPT !.size = 0]
Vector ==
  /\ kind = "vector"
  /\ \/ ArrayLife
     \/ \E n \in 1..MaxSize - obj.size :
          /\ Live
          /\ \/ Did("reserve", n, Yes, Reserved(obj, n))
             \/ obj.size + n > obj.capacity /\ Did("reserve", n, No, obj)
     \/ Live /\ Did("clear", Nothing, Nothing, VectorClear(obj))
     \/ Live /\ Did("pop_back", Nothing, IF obj.size = 0 THEN No ELSE Top,
                    IF obj.size = 0 THEN obj ELSE Shorter(obj))
     \/ \E i \in -1..obj.size :
          /\ Live
          /\ LET inside == i >= 0 /\ i < obj.size
             IN  \/ Did("get", i, IF inside THEN obj.data[i] ELSE Nothing, obj)
                 \/ \E v \in Values :
                      Did("set", <<i, v>>, IF inside THEN Yes ELSE No,
                          IF inside THEN [obj EXCEPT !.data[i] = v] ELSE obj)
(* djlc_vec_int: pop is not for an empty vector. *)
VecInt == /\ kind = "vec_int"
          /\ \/ ArrayLife
             \/ obj.size > 0 /\ Did("pop_back", Nothing, Top, Shorter(obj))
             \/ Live /\ Did("clear", Nothing, Nothing, VectorClear(obj))

-----------------------------------------------------------------------------
(* The doubly linked list between its sentinels.                           *)
HeadNode == -1
TailNode == -2
DNodes == Nodes \cup {HeadNode, TailNode}
NewDlist == [next |-> [n \in DNodes |-> IF n = HeadNode THEN TailNode ELSE Nothing],
             prev |-> [n \in DNodes |-> IF n = TailNode THEN HeadNode ELSE Nothing],
             size |-> 0, capacity |-> 1]
NoDlist == [NewDlist EXCEPT !.capacity = 0]
RECURSIVE WalkFrom(_, _, _)
WalkFrom(l, n, left) == IF n = TailNode \/ left = 0 THEN <<>>
                        ELSE <<n>> \o WalkFrom(l, l.next[n], left - 1)
(* At most as many nodes as there are: a corrupted list must not loop.     *)
DlistItems(l) == WalkFrom(l, l.next[HeadNode], Cardinality(Nodes) + 1)

DlistRemove(l, n) == [l EXCEPT !.next[l.prev[n]] = l.next[n],
                               !.prev[l.next[n]] = l.prev[n], !.size = @ - 1]
(* Mutant: the follower keeps its old predecessor. *)
InsertHalf(l, target, n) ==
  [l EXCEPT !.next[n] = l.next[target], !.prev[n] = target,
            !.next[target] = n, !.size = @ + 1]
DlistInsertAfter(l, target, n) ==
  [l EXCEPT !.next[n] = l.next[target], !.prev[n] = target,
            !.prev[l.next[target]] = n, !.next[target] = n, !.size = @ + 1]
Linked(n) == n \in {DlistItems(obj)[i] : i \in 1..Len(DlistItems(obj))}
DlistPop(name, n) == IF obj.size = 0 THEN Did(name, Nothing, No, obj)
                     ELSE Did(name, Nothing, n, DlistRemove(obj, n))
Dlist ==
  /\ kind = "dlist"
  /\ \/ ~Live /\ (Did("init", 1, Yes, NewDlist) \/ Did("init", 1, No, obj))
     \/ Live /\ Did("free", Nothing, Nothing, NoDlist)
     \/ Live /\ Did("size", Nothing, obj.size, obj)
     \/ /\ Live
        /\ \/ DlistPop("pop_front", obj.next[HeadNode])
           \/ DlistPop("pop_back", obj.prev[TailNode])
           \/ Did("front", Nothing, IF obj.size > 0 THEN obj.next[HeadNode] ELSE No, obj)
           \/ Did("back", Nothing, IF obj.size > 0 THEN obj.prev[TailNode] ELSE No, obj)
     \/ \E n \in Nodes :
          /\ Live /\ ~Linked(n)
          /\ \/ Did("push_front", n, Yes, DlistInsertAfter(obj, HeadNode, n))
             \/ Did("push_back", n, Yes, DlistInsertAfter(obj, obj.prev[TailNode], n))
             \/ \E i \in 1..Len(DlistItems(obj)) :
                  Did("insert_after", <<i, n>>, Nothing,
                      DlistInsertAfter(obj, DlistItems(obj)[i], n))
     \/ \E n \in Nodes :
          /\ Live /\ Linked(n)
          /\ \/ Did("remove", n, Nothing, DlistRemove(obj, n))
             \/ Did("move_to_front", n, Nothing,
                    DlistInsertAfter(DlistRemove(obj, n), HeadNode, n))

-----------------------------------------------------------------------------
RingKinds == {"queue_int", "queue_ptr", "deque", "cbuf", "moving_avg"}
ArrayKinds == {"stack_int", "stack_char", "stack_static", "vector", "vec_int"}
Kinds == RingKinds \cup ArrayKinds \cup {"dlist"}

Init == /\ kind \in Kinds
        /\ obj = CASE kind \in RingKinds -> NoRing
                   [] kind \in ArrayKinds -> NewArray(0)
                   [] OTHER -> NoDlist
        /\ op = "none" /\ arg = Nothing /\ answer = Nothing

Next == \/ QueueInt \/ QueuePtr \/ Deque \/ Cbuf \/ MovingAvg
        \/ StackInt \/ StackChar \/ StackStatic \/ Vector \/ VecInt \/ Dlist
Spec == Init /\ [][Next]_vars

Items == CASE kind \in RingKinds -> RingItems(obj)
           [] kind \in ArrayKinds -> ArrayItems(obj)
           [] OTHER -> DlistItems(obj)

(* The array never holds more than it has room for, and its indexes stay   *)
(* inside, so that no call reads or writes beside the array, whatever the  *)
(* calls before it made of the indexes.                                    *)
InBounds ==
  /\ obj.size \in 0..MaxSize
  /\ kind # "dlist" => obj.size <= obj.capacity
  /\ kind \in RingKinds /\ Live => {obj.front, obj.rear} \subseteq 0..obj.capacity - 1
  /\ kind = "dlist" => Len(DlistItems(obj)) = obj.size
=============================================================================
