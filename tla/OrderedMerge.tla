---------------------------- MODULE OrderedMerge ----------------------------
(***************************************************************************)
(* What the muxer promises downstream: the messages of all its upstream    *)
(* iterators, each exactly once, in one sequence ordered by time, and the  *)
(* end only after the last of them.                                        *)
(***************************************************************************)
EXTENDS Naturals, Sequences

CONSTANTS Upstreams,   \* the upstream message iterators
          NoTime,      \* the timestamp of a message without clock snapshot
          Traces       \* what an upstream iterator may contain

VARIABLES left,     \* what is left to deliver of each upstream iterator
          merged,   \* what was delivered
          ended     \* whether downstream was told that there is no more

mergeVars == <<left, merged, ended>>

Init ==
    /\ left \in [Upstreams -> Traces]
    /\ merged = <<>>
    /\ ended = FALSE

\* A message with a timestamp goes out only if no message left anywhere is
\* older.  One without a timestamp may go out at any moment.
IsOldest(m) ==
    m.ts # NoTime =>
        \A v \in Upstreams : \A i \in DOMAIN left[v] :
            left[v][i].ts = NoTime \/ m.ts <= left[v][i].ts

Deliver(u) ==
    /\ ~ended
    /\ left[u] # <<>>
    /\ IsOldest(Head(left[u]))
    /\ left' = [left EXCEPT ![u] = Tail(@)]
    /\ merged' = Append(merged, Head(left[u]))
    /\ UNCHANGED ended

End ==
    /\ ~ended
    /\ \A u \in Upstreams : left[u] = <<>>
    /\ ended' = TRUE
    /\ UNCHANGED <<left, merged>>

Next == End \/ \E u \in Upstreams : Deliver(u)

Spec == Init /\ [][Next]_mergeVars
=============================================================================
