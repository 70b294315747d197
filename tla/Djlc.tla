-------------------------------- MODULE Djlc --------------------------------
(***************************************************************************)
(* djlc as a whole: a behaviour is the life of one container of one header *)
(* file, or one call of a function of a header that keeps nothing.  djlc.h *)
(* is a library without threads or shared state: containers do not meet.   *)
(***************************************************************************)
EXTENDS Integers, FiniteSets, Sequences

CONSTANTS Nothing, Yes, No, Junk,
          Elems, Nodes, Capacities, SeqSize,             \* of DjlcSequences
          Values, Capacity, MaxSize, Keys, Hash, Letters, MaxLen, Bits, Elements,
          Cells, Rows, Cols, CellValues, Factors, Failing, \* of DjlcCollections
          Vals, ListLen, TreeLen, NaryNodes, GraphNodes, GraphEdges, \* of DjlcLinked
          IntBits, WordBits, MaxN, Moduli, Half, Intervals, Chars, StrLen \* of DjlcArrays

(* What the modules need of their constants: capacities are not zero, for  *)
(* a container of capacity zero divides by it, or never grows; elements    *)
(* are numbers; intervals are short enough for their ends to be compared   *)
(* by a subtraction.                                                       *)
ASSUME DjlcAssumption ==
  /\ Elems \cup Nodes \cup Vals \subseteq Nat \ {0} /\ Values \subseteq Int /\ Junk \notin Int
  /\ Capacities \cup {Capacity, Bits, Elements, Cells, Rows, Cols} \subseteq Nat \ {0}
  /\ Hash \in [Keys -> Nat]
  /\ Half \in 1..2^(IntBits - 2) /\ Moduli \subseteq Nat \ {0, 1}

VARIABLES kind, obj, op, arg, answer
vars == <<kind, obj, op, arg, answer>>

S == INSTANCE DjlcSequences WITH Values <- Elems, MaxSize <- SeqSize
C == INSTANCE DjlcCollections
L == INSTANCE DjlcLinked
A == INSTANCE DjlcArrays

Init == S!Init \/ C!Init \/ L!Init \/ A!Init
Next == S!Next \/ C!Next \/ L!Next \/ A!Next
Spec == Init /\ [][Next]_vars

(* A ring or an array never holds more than it has room for, and its       *)
(* indexes stay inside, so that no call reads or writes beside the array,  *)
(* whatever the calls before it made of the indexes.                       *)
InBounds == kind \in S!Kinds => S!InBounds

(* The containers of elements implement the sequence: over wrapped         *)
(* indexes, growth in the middle of a wrap, failed allocations and pointer *)
(* surgery, every call changes the elements and answers as the header says. *)
IsSequence == kind \in S!Kinds
Sequence == INSTANCE SequenceAdt
              WITH Values <- Elems \cup Nodes,
                   items <- IF IsSequence THEN S!Items ELSE <<>>,
                   op <- IF IsSequence THEN op ELSE "none",
                   arg <- IF IsSequence THEN arg ELSE Nothing,
                   answer <- IF IsSequence THEN answer ELSE Nothing
ImplementsSequence == Sequence!Spec

(* The other collections change and answer as their headers say: however   *)
(* the heap is shaped, keys collide, words share prefixes, paths are       *)
(* compressed or sums are spread over the tree.                            *)
IsCollection == kind \in C!Kinds
Collection == INSTANCE CollectionAdt
                WITH Xor <- C!XorOf,
                     contents <- IF IsCollection THEN C!Contents ELSE Nothing,
                     op <- IF IsCollection THEN op ELSE "none",
                     arg <- IF IsCollection THEN arg ELSE Nothing,
                     answer <- IF IsCollection THEN answer ELSE Nothing
ImplementsCollection == Collection!Keeps

(* Every function of the remaining headers answers what its comment        *)
(* promises, by a definition without pointers, queues, loops or counters.  *)
MeetsReference == /\ kind \in L!Kinds => L!MeetsReference
                  /\ kind \in A!Kinds => A!MeetsReference

(* Shuffles, samples and weighted picks are fair: see DjlcArrays.          *)
ChoicesFair == kind \in A!Kinds => A!ChoicesFair
=============================================================================
