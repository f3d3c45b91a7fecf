----------------------------- MODULE MCIterator -----------------------------
(***************************************************************************)
(* Message iterators small enough for TLC: one stream, several packets and *)
(* seeks, or two streams of one packet at most, which are interleaved.     *)
(***************************************************************************)
EXTENDS MessageIterator

MCStreams == {1, 2}

\* Packets whose beginnings carry no clock snapshot, discarded events which do
\* and discarded packets which do not.
Mixed ==
    [packets |-> TRUE, beginCs |-> FALSE, endCs |-> TRUE,
     discEvents |-> TRUE, discEventsCs |-> TRUE,
     discPackets |-> FALSE, discPacketsCs |-> FALSE, knownEnds |-> FALSE]

\* The iterator can seek the last time by itself.
LastOnly == {MaxTime}

\* A trace of two streams, or one which is sought twice, is bounded further.
Small ==
    /\ phase[2] # "unborn" =>
          /\ \A s \in Streams : packets[s] <= 1
          /\ \A i \in DOMAIN content : content[i].ts # MaxTime /\ content[i].end # MaxTime
          /\ seeks <= 1
    /\ seeks = MaxSeeks => Len(content) < MaxMessages

MCNext == Next /\ Small'
MCSpec == Init /\ [][MCNext]_vars
=============================================================================
