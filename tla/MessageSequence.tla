-------------------------- MODULE MessageSequence --------------------------
(***************************************************************************)
(* The messages of a trace, and the automaton with which a message         *)
(* iterator (src/lib/graph/iterator.c) checks in developer mode that the   *)
(* messages of each stream come in a legal order.                          *)
(*                                                                         *)
(* A message is a record.  type is the initials of its kind; ts is its     *)
(* default clock snapshot in nanoseconds from the origin (the beginning    *)
(* one for discarded items), or NoTime when it has none; end is the end    *)
(* snapshot of discarded items.  An inactivity message has no stream.      *)
(***************************************************************************)
EXTENDS Naturals, Sequences

CONSTANTS Streams,      \* the streams of the trace, numbered from 1
          MaxTime,      \* the bound on timestamps
          MaxPackets,   \* the bound on the packets of a stream
          Class         \* the properties of the class of the streams

Times == 0 .. MaxTime
NoTime == MaxTime + 1
NoStream == 0
NoPacket == 0

(***************************************************************************)
(* The properties of a stream class that decide which messages a stream    *)
(* may have and which of them carry a clock snapshot (stream-class.h).     *)
(* knownEnds says whether the beginning and the end of a stream carry one. *)
(***************************************************************************)
ClassProperties ==
    [packets : BOOLEAN, beginCs : BOOLEAN, endCs : BOOLEAN,
     discEvents : BOOLEAN, discEventsCs : BOOLEAN,
     discPackets : BOOLEAN, discPacketsCs : BOOLEAN, knownEnds : BOOLEAN]

ASSUME SequenceAssumption ==
    /\ Streams \subseteq Nat \ {0}
    /\ MaxTime \in Nat
    /\ MaxPackets \in Nat
    /\ Class \in ClassProperties
    /\ Class.beginCs \/ Class.endCs \/ Class.discPackets => Class.packets
    /\ Class.discEventsCs => Class.discEvents
    /\ Class.discPacketsCs => Class.discPackets

StreamTypes == {"SB", "SE", "PB", "PE", "EV", "DE", "DP"}
MessageTypes == StreamTypes \cup {"IN"}

Message ==
    [type : MessageTypes, stream : Streams \cup {NoStream},
     packet : 0 .. MaxPackets, ts : 0 .. NoTime, end : 0 .. NoTime]

Msg(type, s, p, t) ==
    [type |-> type, stream |-> s, packet |-> p, ts |-> t, end |-> NoTime]

\* Whether the messages of a type carry a default clock snapshot.
HasSnapshot(type) ==
    CASE type = "PB" -> Class.beginCs
      [] type = "PE" -> Class.endCs
      [] type = "DE" -> Class.discEventsCs
      [] type = "DP" -> Class.discPacketsCs
      [] type \in {"SB", "SE"} -> Class.knownEnds
      [] OTHER -> TRUE

-----------------------------------------------------------------------------
(***************************************************************************)
(* struct per_stream_state: the types the next message of the stream may   *)
(* have, and the packet which is open.  A stream the iterator has not met  *)
(* yet has no entry in the hash table; get_per_stream_state() would create *)
(* the one below for it.                                                   *)
(***************************************************************************)
NewStreamState == [expected |-> {"SB"}, packet |-> NoPacket]

StreamState == [expected : SUBSET StreamTypes, packet : 0 .. MaxPackets]

\* `type' if the stream class supports what it is about.
Supported(type) ==
    CASE type = "DE" -> IF Class.discEvents THEN {"DE"} ELSE {}
      [] type = "DP" -> IF Class.discPackets THEN {"DP"} ELSE {}

\* Mutant: discarded events end the packet.
ExpectedAfterNoPacket(type, inPacket) ==
    LET outside == IF Class.packets THEN {"PB"} ELSE {"EV"}
    IN  CASE type = "SB" -> {"SE"} \cup outside \cup Supported("DP") \cup Supported("DE")
          [] type = "SE" -> {}
          [] type = "EV" -> {"EV"} \cup (IF Class.packets THEN {"PE"} ELSE {"SE"})
                                   \cup Supported("DE")
          [] type = "PB" -> {"EV", "PE"} \cup Supported("DE")
          [] type = "PE" -> {"PB", "SE"} \cup Supported("DE") \cup Supported("DP")
          [] type = "DE" -> {"DE", "SE"} \cup outside \cup Supported("DP")
          [] type = "DP" -> {"DP", "PB", "SE"} \cup Supported("DE")

\* update_expected_msg_type(): what may follow a message of the given type.
ExpectedAfter(type, inPacket) ==
    LET outside == IF Class.packets THEN {"PB"} ELSE {"EV"}
    IN  CASE type = "SB" -> {"SE"} \cup outside \cup Supported("DP") \cup Supported("DE")
          [] type = "SE" -> {}
          [] type = "EV" -> {"EV"} \cup (IF Class.packets THEN {"PE"} ELSE {"SE"})
                                   \cup Supported("DE")
          [] type = "PB" -> {"EV", "PE"} \cup Supported("DE")
          [] type = "PE" -> {"PB", "SE"} \cup Supported("DE") \cup Supported("DP")
          [] type = "DE" -> {"DE"} \cup (IF inPacket THEN {"EV", "PE"}
                                         ELSE {"SE"} \cup outside \cup Supported("DP"))
          [] type = "DP" -> {"DP", "PB", "SE"} \cup Supported("DE")

\* assert_post_dev_expected_sequence() and assert_post_dev_expected_packet():
\* whether the message passes, and the state of its stream after it.
IsExpected(st, m) ==
    /\ m.type \in st.expected
    /\ m.type \in {"EV", "PE"} => m.packet = st.packet

AfterMessage(st, m) ==
    [expected |-> ExpectedAfter(m.type, st.packet # NoPacket),
     packet |-> CASE m.type = "PB" -> m.packet
                  [] m.type = "PE" -> NoPacket
                  [] OTHER -> st.packet]

-----------------------------------------------------------------------------
(***************************************************************************)
(* The rules of the message interchange protocol (the regular expressions  *)
(* of include/babeltrace2/graph/message.h), which components follow:       *)
(*     SB (E | DE)* SE                           without packets           *)
(*     SB ((PB (E | DE)* PE) | DE | DP)* SE      with packets              *)
(* A stream is not begun, open, in a packet, or ended.                     *)
(***************************************************************************)
Phases == {"unborn", "open", "packet", "ended"}

LegalTypes(phase) ==
    CASE phase = "unborn" -> {"SB"}
      [] phase = "open" -> {"SE"} \cup (IF Class.packets THEN {"PB"} ELSE {"EV"})
                                  \cup Supported("DE") \cup Supported("DP")
      [] phase = "packet" -> {"EV", "PE"} \cup Supported("DE")
      [] phase = "ended" -> {}

PhaseAfter(phase, type) ==
    CASE type \in {"SB", "PE"} -> "open"
      [] type = "PB" -> "packet"
      [] type = "SE" -> "ended"
      [] OTHER -> phase
=============================================================================
