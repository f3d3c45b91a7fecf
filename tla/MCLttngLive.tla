---------------------------- MODULE MCLttngLive -----------------------------
(***************************************************************************)
(* Small instances of LttngLive.                                           *)
(***************************************************************************)
EXTENDS LttngLive

Packet(begin, events, end, lost, meta) ==
    [begin |-> begin, events |-> events, end |-> end, lost |-> lost, meta |-> meta]

\* Two sessions.  The first one has a trace with a stream which is idle
\* between two packets, and gets another stream later.  The second one gets a
\* trace whose stream is known before its metadata.
MCSessionOf == <<1, 2, 2>>
MCTraceOf == <<1, 2, 1, 3>>
MCKnownAt == <<0, 1, 2, 3>>
MCMetadataAt == <<0, 1, 4>>
MCEndAt == <<4, 3, 3, 4>>
MCPackets ==
    <<<<Packet(0, <<>>, 1, <<>>, 1), Packet(3, <<3>>, 4, <<"events", "packets">>, 2)>>,
      <<Packet(1, <<2>>, 2, <<>>, 1)>>,
      <<Packet(2, <<>>, 2, <<>>, 1)>>,
      <<Packet(4, <<>>, 4, <<>>, 1)>>>>
=============================================================================
