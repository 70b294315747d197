----------------------------- MODULE SequenceAdt ----------------------------
(* What the containers of djlc promise that keep their elements in order:  *)
(* each call changes the sequence of elements, and answers, as its comment *)
(* in the header says, whatever the container does in memory.              *)
EXTENDS Integers, Sequences, FiniteSets

CONSTANTS Values, Nothing,
          Yes, No  \* true and false, as returned

VARIABLES items, op, arg, answer

Did(name, a, result) == op' = name /\ arg' = a /\ answer' = result

Init == items = <<>> /\ op = "none" /\ arg = Nothing /\ answer = Nothing

Create == Did("init", arg', Yes) /\ items' = <<>>
Free == Did("free", Nothing, Nothing) /\ items' = <<>>
Clear == Did("clear", Nothing, Nothing) /\ items' = <<>>

PushBack(v) == Did("push_back", v, Yes) /\ items' = Append(items, v)
PushFront(v) == Did("push_front", v, Yes) /\ items' = <<v>> \o items
(* A full circular buffer gives up its oldest element, and answers with it. *)
Overwrite(v) == /\ items # <<>> /\ Did("push_back", v, Head(items))
                /\ items' = Append(Tail(items), v)
Fill(v) == Did("push_back", v, 0) /\ items' = Append(items, v)

Last == items[Len(items)]
Front == SubSeq(items, 1, Len(items) - 1)
PopBack == items # <<>> /\ Did("pop_back", Nothing, Last) /\ items' = Front
PopFront == items # <<>> /\ Did("pop_front", Nothing, Head(items)) /\ items' = Tail(items)
PeekBack == items # <<>> /\ Did("back", Nothing, Last) /\ UNCHANGED items
PeekFront == items # <<>> /\ Did("front", Nothing, Head(items)) /\ UNCHANGED items
Size == Did("size", Nothing, Len(items)) /\ UNCHANGED items

(* An empty container has nothing to give; a call that needed memory it    *)
(* did not get leaves the elements as they were.                           *)
Empty == /\ items = <<>> /\ UNCHANGED items
         /\ \E name \in {"pop_back", "pop_front", "back", "front"} : Did(name, Nothing, No)
NoMemory == /\ UNCHANGED items
            /\ op' \in {"init", "push_back", "push_front", "reserve"} /\ answer' = No
Reserve == Did("reserve", arg', Yes) /\ UNCHANGED items

Get(i) == /\ Did("get", i, IF i \in 0..Len(items) - 1 THEN items[i + 1] ELSE Nothing)
          /\ UNCHANGED items
Set(i, v) == IF i \in 0..Len(items) - 1
               THEN Did("set", <<i, v>>, Yes) /\ items' = [items EXCEPT ![i + 1] = v]
               ELSE Did("set", <<i, v>>, No) /\ UNCHANGED items

(* The monotonic helpers drop the longest run at the back that v dominates. *)
KeptUpTo(Kept(_)) == SubSeq(items, 1, Cardinality(
                       {i \in 1..Len(items) : \E j \in i..Len(items) : Kept(items[j])}))
DropGe(v) == Did("drop_ge", v, Nothing) /\ items' = KeptUpTo(LAMBDA x : x < v)
DropLe(v) == Did("drop_le", v, Nothing) /\ items' = KeptUpTo(LAMBDA x : x > v)

(* Sum and number of the elements: the moving average. *)
Total[s \in Seq(Int)] == IF s = <<>> THEN 0 ELSE Head(s) + Total[Tail(s)]
Average == /\ Did("average", arg', <<Total[items'], Len(items')>>)
           /\ \/ UNCHANGED items
              \/ items' = Append(items, arg')
              \/ items # <<>> /\ items' = Append(Tail(items), arg')

Without(v) == SelectSeq(items, LAMBDA x : x # v)
Remove(v) == Did("remove", v, Nothing) /\ items' = Without(v)
MoveToFront(v) == Did("move_to_front", v, Nothing) /\ items' = <<v>> \o Without(v)
InsertAfter(i, v) == /\ Did("insert_after", <<i, v>>, Nothing)
                     /\ items' = SubSeq(items, 1, i) \o <<v>> \o SubSeq(items, i + 1, Len(items))

Next == \/ Create \/ Free \/ Clear \/ PopBack \/ PopFront \/ PeekBack \/ PeekFront
        \/ Size \/ Empty \/ NoMemory \/ Reserve \/ Average
        \/ \E v \in Values : \/ PushBack(v) \/ PushFront(v) \/ Overwrite(v) \/ Fill(v)
                             \/ DropGe(v) \/ DropLe(v) \/ Remove(v) \/ MoveToFront(v)
                             \/ \E i \in -1..Len(items) : Set(i, v) \/ InsertAfter(i, v)
        \/ \E i \in -1..Len(items) : Get(i)

Spec == Init /\ [][Next]_<<items, op, arg, answer>>
=============================================================================
