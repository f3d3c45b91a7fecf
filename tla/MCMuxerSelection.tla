-------------------------- MODULE MCMuxerSelection --------------------------
(* Messages which differ in one or two of the things compared. *)
EXTENDS MuxerSelection, FiniteSetsExt

Unix ==
    [obj |-> 1, uuid |-> None, ns |-> None, name |-> None, uid |-> None,
     origin |-> "unix", frequency |-> 2, precision |-> 0, offset |-> 0]

Unknown == [Unix EXCEPT !.origin = "unknown"]

\* Clock classes with MIP 0.
UuidClocks ==
    {None, Unix,
     [Unix EXCEPT !.obj = 2, !.uuid = 1, !.precision = 1],
     [Unix EXCEPT !.obj = 3, !.name = 1, !.frequency = 1],
     [Unknown EXCEPT !.obj = 4, !.uuid = 1],
     [Unknown EXCEPT !.obj = 5, !.uuid = 1, !.name = 2, !.offset = 1],
     [Unknown EXCEPT !.obj = 6, !.uuid = 2],
     [Unknown EXCEPT !.obj = 7],
     [Unknown EXCEPT !.obj = 8, !.frequency = 1]}

\* Clock classes with a later MIP.
IdentityClocks ==
    {Unix,
     [Unix EXCEPT !.obj = 2, !.name = 1, !.uid = 1],
     [Unix EXCEPT !.obj = 3, !.origin = "lab"],
     [Unix EXCEPT !.obj = 4, !.origin = "lab", !.name = 1],
     [Unix EXCEPT !.obj = 5, !.origin = "boot", !.frequency = 1],
     [Unknown EXCEPT !.obj = 6, !.name = 1, !.uid = 1],
     [Unknown EXCEPT !.obj = 7, !.name = 1, !.uid = 1, !.precision = 1],
     [Unknown EXCEPT !.obj = 8, !.ns = 1, !.name = 1, !.uid = 1],
     [Unknown EXCEPT !.obj = 9, !.name = 1]}

Class ==
    [id |-> 0, name |-> None, autoEventClassId |-> 0, autoStreamId |-> 0,
     discEvents |-> 1, discEventsCs |-> 1, packets |-> 1, beginCs |-> 1, endCs |-> 0,
     discPackets |-> 1, discPacketsCs |-> 0, clockClass |-> Unix]

Stream ==
    [trace |-> [uuid |-> 1, ns |-> None, name |-> 1, uid |-> 1],
     id |-> 0, name |-> None, cls |-> Class]

\* Streams of which one thing is different.
Streams ==
    {Stream,
     [Stream EXCEPT !.trace.uuid = None, !.trace.uid = None],
     [Stream EXCEPT !.trace.uuid = 2, !.trace.ns = 1],
     [Stream EXCEPT !.trace.name = None],
     [Stream EXCEPT !.cls.id = 1],
     [Stream EXCEPT !.id = 1],
     [Stream EXCEPT !.name = 1],
     [Stream EXCEPT !.cls.name = 1]}

Classes ==
    {Class,
     [Class EXCEPT !.autoEventClassId = 1],
     [Class EXCEPT !.autoStreamId = 1],
     [Class EXCEPT !.discEvents = 0, !.discEventsCs = 0],
     [Class EXCEPT !.discEventsCs = 0],
     [Class EXCEPT !.packets = 0, !.beginCs = 0, !.discPackets = 0],
     [Class EXCEPT !.beginCs = 0, !.endCs = 1],
     [Class EXCEPT !.endCs = 1],
     [Class EXCEPT !.discPackets = 0],
     [Class EXCEPT !.discPacketsCs = 1]}

Msg(type, stream, begin) ==
    [type |-> type, stream |-> stream, eventClass |-> None, begin |-> begin,
     end |-> None, count |-> None, clockClass |-> None]

Of(type, begin) == Msg(type, Stream, begin)

Inactivity(cc, begin) ==
    [Msg("MessageIteratorInactivity", None, begin) EXCEPT !.clockClass = cc]

EventClass == [id |-> 0, name |-> 1, logLevel |-> None, emfUri |-> None]

Event(ec, begin) == [Of("Event", begin) EXCEPT !.eventClass = ec]

Discarded(type, stream, begin, end, count) ==
    [Msg(type, stream, begin) EXCEPT !.end = end, !.count = count]

WithClock(cc) == [Stream EXCEPT !.cls.clockClass = cc, !.cls.discEventsCs = 0, !.cls.beginCs = 0]

\* The first messages of streams, with and without a time.
Beginnings(clocks) ==
    {Msg("StreamBeginning", WithClock(cc), None) : cc \in clocks}

Inactivities(clocks) ==
    {Inactivity(cc, 1) : cc \in {c \in clocks : c # None /\ c.frequency = 1}}
        \cup {Inactivity([Unix EXCEPT !.obj = 10], 2)}

\* Each type of message, before and at the same time as others.
Types ==
    {Of("StreamBeginning", None), Of("StreamBeginning", 1), Of("PacketBeginning", 1),
     Event(EventClass, 0), Event(EventClass, 1), Of("PacketEnd", None),
     Discarded("DiscardedEvents", Stream, 1, 1, None),
     Inactivity(Unix, 1), Discarded("DiscardedPackets", Stream, None, None, None),
     Of("StreamEnd", 1)}

TimedPackets == [Stream EXCEPT !.cls.discPacketsCs = 1]

Details ==
    {Event([EventClass EXCEPT !.id = 1], 1), Event([EventClass EXCEPT !.name = None], 1),
     Event([EventClass EXCEPT !.logLevel = 2], 1), Event([EventClass EXCEPT !.emfUri = 1], 1),
     Discarded("DiscardedEvents", Stream, 1, 2, None),
     Discarded("DiscardedEvents", Stream, 1, 2, 1),
     Discarded("DiscardedEvents", Stream, 1, 1, 2),
     Discarded("DiscardedPackets", TimedPackets, 1, 2, 1),
     Discarded("DiscardedPackets", TimedPackets, 1, 2, 2),
     Discarded("DiscardedPackets", TimedPackets, 1, 1, 2)}

\* All the triples of messages of a set.
Triples(mips, msgs) == [mip : mips, messages : kSubset(3, msgs), maxLen : {3}]

\* A heap of three levels.
Deep ==
    [mip |-> 1, maxLen |-> 7,
     messages |-> {Of("PacketEnd", None), Event(EventClass, 0), Of("PacketBeginning", 1),
                   Event(EventClass, 1)}]

MCSetups ==
    Triples({0}, Beginnings(UuidClocks) \cup Inactivities(UuidClocks))
        \cup Triples({1}, Beginnings(IdentityClocks) \cup Inactivities(IdentityClocks))
        \cup Triples({0, 1}, {Msg("PacketEnd", s, None) : s \in Streams})
        \cup Triples({0}, {Msg("StreamEnd", [Stream EXCEPT !.cls = c], None) : c \in Classes})
        \cup Triples({0}, Types)
        \cup Triples({1}, Details)
        \cup {Deep}
=============================================================================
