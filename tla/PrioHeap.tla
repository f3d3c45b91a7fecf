------------------------------ MODULE PrioHeap ------------------------------
(***************************************************************************)
(* bt2c::PrioHeap (src/cpp-common/bt2c/prio-heap.hpp), the array the muxer *)
(* keeps its upstream message iterators in.  An element is what the        *)
(* muxer's comparator sees of it: its current message.  Positions count    *)
(* from 1 here, from 0 in the code.                                        *)
(***************************************************************************)
EXTENDS MessageComparator, Bags

VARIABLES elems,  \* _mElems
          held    \* the bag of the elements inserted and not removed yet

heapVars == <<elems, held>>

Gt(a, b) == Older(a, b)

\* _parentPos(): (pos - 1) >> 1 when counting from 0.
ParentPos(pos) == pos \div 2

\* The loop of insert(): parents move down until e has its place.
RECURSIVE SiftUpFrom(_, _, _)
SiftUpFrom(s, e, at) ==
    IF at > 1 /\ Gt(e, s[ParentPos(at)])
    THEN SiftUpFrom([s EXCEPT ![at] = s[ParentPos(at)]], e, ParentPos(at))
    ELSE [s EXCEPT ![at] = e]

SiftUp(s, e, at) == SiftUpFrom(s, e, at)

\* Mutant: the right child is compared with the parent instead.
LargestWrong(s, at) ==
    LET left == 2 * at
        right == 2 * at + 1
        l == IF left <= Len(s) /\ Gt(s[left], s[at]) THEN left ELSE at
    IN  IF right <= Len(s) /\ Gt(s[right], s[at]) THEN right ELSE l

\* The position _heapify() swaps `at' with, or `at' itself.
Largest(s, at) ==
    LET left == 2 * at
        right == 2 * at + 1
        l == IF left <= Len(s) /\ Gt(s[left], s[at]) THEN left ELSE at
    IN  IF right <= Len(s) /\ Gt(s[right], s[l]) THEN right ELSE l

RECURSIVE Heapify(_, _)
Heapify(s, at) ==
    LET largest == Largest(s, at)
    IN  IF largest = at THEN s
        ELSE Heapify([s EXCEPT ![at] = s[largest], ![largest] = s[at]], largest)

ReplaceTopOf(s, e) == Heapify([s EXCEPT ![1] = e], 1)

RemoveTopOf(s) ==
    IF Len(s) = 1 THEN <<>>
    ELSE ReplaceTopOf(SubSeq(s, 1, Len(s) - 1), s[Len(s)])

-----------------------------------------------------------------------------
HeapInit == elems = <<>> /\ held = EmptyBag

Add(e) == held (+) SetToBag({e})
Drop(e) == held (-) SetToBag({e})

Insert(e) ==
    /\ elems' = SiftUp(Append(elems, e), e, Len(elems) + 1)
    /\ held' = Add(e)

RemoveTop ==
    /\ elems # <<>>
    /\ elems' = RemoveTopOf(elems)
    /\ held' = Drop(elems[1])

ReplaceTop(e) ==
    /\ elems # <<>>
    /\ elems' = ReplaceTopOf(elems, e)
    /\ held' = Drop(elems[1]) (+) SetToBag({e})

\* clear()
Clear == elems' = <<>> /\ held' = EmptyBag
=============================================================================
