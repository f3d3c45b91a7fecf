------------------------- MODULE MessageComparator -------------------------
(***************************************************************************)
(* The order in which the muxer takes messages: muxing::MessageComparator  *)
(* (src/plugins/common/muxing/muxing.cpp), which breaks the ties of        *)
(* bt2mux::MsgIter::_HeapComparator (src/plugins/utils/muxer).             *)
(*                                                                         *)
(* A message is a record of what they look at.  Strings, UUIDs, numbers    *)
(* and flags are numbers, ordered as the code orders them.  A comparison   *)
(* is negative if the left object goes first.                              *)
(***************************************************************************)
EXTENDS Integers, Sequences

CONSTANT None   \* an optional object which is not there

VARIABLE mipVersion   \* _mGraphMipVersion

\* The first of some comparisons which tells the objects apart, or 0.
FirstDifference(comparisons) ==
    LET differences == SelectSeq(comparisons, LAMBDA c : c # 0)
    IN  IF differences = <<>> THEN 0 ELSE Head(differences)

\* The same for two comparisons, the second one of objects which the first
\* one found alike.
Then(first, second) == IF first # 0 THEN first ELSE second

CompareLt(left, right) ==
    CASE left < right -> -1
      [] right < left -> 1
      [] OTHER -> 0

\* _compareOptionals() and _compareStrings(): what is there goes first.
CompareOptionals(left, right) ==
    CASE left # None /\ right = None -> -1
      [] left = None /\ right # None -> 1
      [] left = None /\ right = None -> 0
      [] OTHER -> CompareLt(left, right)

CompareIdentities(left, right) ==
    FirstDifference(<<
        CompareOptionals(left.ns, right.ns),
        CompareOptionals(left.name, right.name),
        CompareOptionals(left.uid, right.uid)>>)

\* Traces and clock classes have a UUID with MIP 0, and an identity since.
CompareUuidsOrIdentities(left, right) ==
    IF mipVersion = 0 THEN CompareOptionals(left.uuid, right.uuid)
    ELSE CompareIdentities(left, right)

MessageTypeWeight ==
    [StreamBeginning |-> 0, PacketBeginning |-> 1, Event |-> 2, DiscardedEvents |-> 3,
     PacketEnd |-> 4, MessageIteratorInactivity |-> 5, DiscardedPackets |-> 6,
     StreamEnd |-> 7]

CompareEventClasses(left, right) ==
    FirstDifference(<<
        CompareLt(left.id, right.id),
        CompareOptionals(left.name, right.name),
        CompareOptionals(left.logLevel, right.logLevel),
        CompareOptionals(left.emfUri, right.emfUri)>>)

IsUnixEpoch(cc) == IF cc.origin = "unix" THEN 1 ELSE 0

CompareClockClasses(left, right) ==
    FirstDifference(<<
        CompareUuidsOrIdentities(left, right),
        CompareLt(IsUnixEpoch(left), IsUnixEpoch(right)),
        CompareOptionals(left.name, right.name),
        CompareLt(left.frequency, right.frequency),
        CompareLt(left.precision, right.precision)>>)

CompareOptionalClockClasses(left, right) ==
    IF left = None \/ right = None
    THEN CompareLt(IF left = None THEN 1 ELSE 0, IF right = None THEN 1 ELSE 0)
    ELSE CompareClockClasses(left, right)

\* What stream classes say of packets, which is compared if they support them.
ComparePackets(left, right) ==
    IF left.packets = 0 THEN 0
    ELSE FirstDifference(<<
            CompareLt(left.beginCs, right.beginCs),
            CompareLt(left.endCs, right.endCs),
            CompareLt(left.discPackets, right.discPackets),
            CompareLt(left.discPacketsCs, right.discPacketsCs)>>)

CompareStreamClasses(left, right) ==
    FirstDifference(<<
        CompareOptionals(left.name, right.name),
        CompareLt(left.autoEventClassId, right.autoEventClassId),
        CompareLt(left.autoStreamId, right.autoStreamId),
        CompareLt(left.discEvents, right.discEvents),
        CompareLt(left.discEventsCs, right.discEventsCs),
        CompareLt(left.packets, right.packets),
        ComparePackets(left, right),
        CompareOptionalClockClasses(left.clockClass, right.clockClass)>>)

CompareStreamsSameIds(left, right) ==
    FirstDifference(<<
        CompareOptionals(left.name, right.name),
        CompareStreamClasses(left.cls, right.cls)>>)

\* The clock snapshots of discarded items, if they have some.
CompareSpans(left, right, haveCs) ==
    IF haveCs = 0 THEN 0
    ELSE FirstDifference(<<
            CompareLt(left.begin, right.begin),
            CompareLt(left.end, right.end),
            CompareClockClasses(left.stream.cls.clockClass, right.stream.cls.clockClass)>>)

CompareMessagesSameType(left, right) ==
    CASE left.type \in {"StreamBeginning", "StreamEnd", "PacketBeginning", "PacketEnd"} ->
            CompareStreamsSameIds(left.stream, right.stream)
      [] left.type = "Event" ->
            Then(CompareEventClasses(left.eventClass, right.eventClass),
                 CompareStreamsSameIds(left.stream, right.stream))
      [] left.type = "DiscardedEvents" ->
            Then(CompareStreamsSameIds(left.stream, right.stream),
                 Then(CompareSpans(left, right, left.stream.cls.discEventsCs),
                      CompareOptionals(left.count, right.count)))
      [] left.type = "DiscardedPackets" ->
            Then(CompareStreamsSameIds(left.stream, right.stream),
                 Then(CompareSpans(left, right, left.stream.cls.discPacketsCs),
                      CompareOptionals(left.count, left.count)))
      [] left.type = "MessageIteratorInactivity" ->
            Then(CompareLt(left.begin, right.begin),
                 CompareClockClasses(left.clockClass, right.clockClass))

\* Which traces and streams they are.
CompareStreamIds(left, right) ==
    FirstDifference(<<
        CompareUuidsOrIdentities(left.trace, right.trace),
        CompareOptionals(left.trace.name, right.trace.name),
        CompareLt(left.cls.id, right.cls.id),
        CompareLt(left.id, right.id)>>)

\* An inactivity message has no stream.
CompareOptionalStreams(left, right) ==
    IF left = None \/ right = None
    THEN CompareLt(IF left = None THEN 1 ELSE 0, IF right = None THEN 1 ELSE 0)
    ELSE CompareStreamIds(left, right)

\* compare().
Compare(left, right) ==
    Then(CompareOptionalStreams(left.stream, right.stream),
         Then(CompareLt(MessageTypeWeight[left.type], MessageTypeWeight[right.type]),
              CompareMessagesSameType(left, right)))

-----------------------------------------------------------------------------
ClockClassOf(msg) ==
    IF msg.type = "MessageIteratorInactivity" THEN msg.clockClass
    ELSE msg.stream.cls.clockClass

\* msgCs(): whether a message has a clock snapshot.
HasCs(msg) ==
    CASE msg.type = "MessageIteratorInactivity" -> TRUE
      [] msg.type = "PacketBeginning" -> msg.stream.cls.beginCs = 1
      [] msg.type = "PacketEnd" -> msg.stream.cls.endCs = 1
      [] msg.type = "DiscardedEvents" -> msg.stream.cls.discEventsCs = 1
      [] msg.type = "DiscardedPackets" -> msg.stream.cls.discPacketsCs = 1
      [] msg.type = "Event" -> ClockClassOf(msg) # None
      [] OTHER -> ClockClassOf(msg) # None /\ msg.begin # None

\* nsFromOrigin(), with two nanoseconds in a second.
NsFromOrigin(cc, cycles) == cc.offset + (cycles * 2) \div cc.frequency

\* msgTs()
Ts(msg) == NsFromOrigin(ClockClassOf(msg), msg.begin)

\* _HeapComparator: whether the message a goes before b.
Older(a, b) ==
    CASE HasCs(a) # HasCs(b) -> HasCs(b)
      [] HasCs(a) /\ HasCs(b) /\ Ts(a) # Ts(b) -> Ts(a) < Ts(b)
      [] OTHER -> Compare(a, b) < 0
=============================================================================
