--------------------------- MODULE MuxerSelection ---------------------------
(***************************************************************************)
(* How the muxer's iterator selects messages: the part of MsgIter::_next() *)
(* (src/plugins/utils/muxer/msg-iter.cpp) which takes the top of the heap, *)
(* validates its clock class and replaces it with the next message of its  *)
(* upstream iterator, with the heap, its comparator and the validator.     *)
(* Muxer.tla sees the three as a bag, a rank and a clock per upstream      *)
(* iterator, and has the rest of _next().                                  *)
(***************************************************************************)
EXTENDS PrioHeap, ClockCorrelation

CONSTANT Setups   \* the messages upstream may have, the MIP version, and the
                  \* bound on the upstream iterators

ASSUME SetupsAssumption == \A s \in Setups : s.mip \in Nat /\ s.maxLen \in Nat

VARIABLES setup,       \* one of them
          validator,   \* _mClkCorrValidator
          validated,   \* the clock classes which it accepted
          rejected     \* whether _validateMsgClkCls() threw since the last seek

selectionVars == <<validator, validated, rejected>>
vars == <<mipVersion, setup, heapVars, selectionVars>>

Init ==
    /\ setup \in Setups
    /\ mipVersion = setup.mip
    /\ HeapInit
    /\ validator = Unset
    /\ validated = {}
    /\ rejected = FALSE

\* _ensureFullHeap() inserts an upstream iterator which has a message.
Fill ==
    /\ ~rejected
    /\ Len(elems) < setup.maxLen
    /\ \E msg \in setup.messages : Insert(msg)
    /\ UNCHANGED <<mipVersion, setup, selectionVars>>

\* validate() looks at two types of messages only.
IsValidated(msg) == msg.type \in {"StreamBeginning", "MessageIteratorInactivity"}

Accepts(msg) == IsValidated(msg) => Meets(validator, ClockClassOf(msg), mipVersion)

\* The oldest message is appended, and its upstream iterator, if it has
\* another message, goes back to the heap.
Select ==
    /\ ~rejected
    /\ elems # <<>>
    /\ Accepts(elems[1])
    /\ IF IsValidated(elems[1])
       THEN /\ validator' = Validated(validator, ClockClassOf(elems[1]), mipVersion)
            /\ validated' = validated \cup {ClockClassOf(elems[1])}
       ELSE UNCHANGED <<validator, validated>>
    /\ RemoveTop \/ \E msg \in setup.messages : ReplaceTop(msg)
    /\ UNCHANGED <<mipVersion, setup, rejected>>

\* The exception leaves the message in the heap.
Reject ==
    /\ ~rejected
    /\ elems # <<>>
    /\ ~Accepts(elems[1])
    /\ rejected' = TRUE
    /\ UNCHANGED <<mipVersion, setup, heapVars, validator, validated>>

\* _seekBeginning() clears the heap, and keeps the validator.
SeekBeginning ==
    /\ Clear
    /\ rejected' = FALSE
    /\ UNCHANGED <<mipVersion, setup, validator, validated>>

Next == Fill \/ Select \/ Reject \/ SeekBeginning

Spec == Init /\ [][Next]_vars

-----------------------------------------------------------------------------
(***************************************************************************)
(* What the comparator sees of a message: not the counts of discarded      *)
(* packets messages (muxing.cpp:451 compares one with itself), nor the     *)
(* offset of a clock class or which origin it has if not the Unix epoch.   *)
(***************************************************************************)
SeenOfClockClass(cc) ==
    IF cc = None THEN None
    ELSE [cc EXCEPT !.obj = 0, !.offset = 0, !.origin = IsUnixEpoch(cc)]

Seen(msg) ==
    [msg EXCEPT
        !.clockClass = SeenOfClockClass(@),
        !.stream = IF @ = None THEN None
                   ELSE [@ EXCEPT !.cls.clockClass = SeenOfClockClass(@)],
        !.count = IF msg.type = "DiscardedPackets" THEN None ELSE @]

(***************************************************************************)
(* After any sequence of operations the top of the heap goes before every  *)
(* message in it but those which look the same to the comparator, so that  *)
(* what the muxer selects depends on the messages and not on the ports     *)
(* which they come from or the order in which they came ("in a             *)
(* deterministic way", msg-iter.cpp:519), and the                          *)
(* array holds exactly the elements inserted and not removed yet, each as  *)
(* many times: no rebalance of it drops or repeats an element.             *)
(***************************************************************************)
SelectionIsDetermined ==
    /\ \A i \in DOMAIN elems :
        Seen(elems[i]) = Seen(elems[1]) \/ Older(elems[1], elems[i])
    /\ BagToSet(held) = {elems[i] : i \in DOMAIN elems}
    /\ \A e \in BagToSet(held) :
        held[e] = Len(SelectSeq(elems, LAMBDA x : x = e))

(***************************************************************************)
(* The times of the messages which the muxer let through can be compared   *)
(* with each other, whichever came first, and it rejects a message only if *)
(* its times can't be compared with those of some message before it        *)
(* (_validateMsgClkCls()).                                                 *)
(***************************************************************************)
ClocksAreCorrelated ==
    /\ \A c, d \in validated : Correlatable(c, d, mipVersion)
    /\ rejected =>
        \E c \in validated : ~Correlatable(c, ClockClassOf(elems[1]), mipVersion)
=============================================================================
