---------------------------- MODULE ItemSequence ----------------------------
(***************************************************************************)
(* What a CTF data stream contains: the field classes of its trace class   *)
(* and, as a recursive definition over the whole data, the items that      *)
(* decoding it gives.  The decoder of item-seq-iter.hpp, which gets the    *)
(* same data in buffers of any size, is in ItemSeqIter.                    *)
(*                                                                         *)
(* A field class is a record: its type, its alignment in bits, and         *)
(*   int       length, byte order, roles, indexes of the keys it sets      *)
(*   varint    (LEB128) roles, indexes of the keys it sets                 *)
(*   nullstr   (null-terminated string) bytes of a code unit               *)
(*   bytes     (string or BLOB) bytes of a code unit or 0, and length, or  *)
(*             key which gives it                                          *)
(*   struct    member classes                                              *)
(*   array     element class, and length, or key which gives it            *)
(*   variant   options, a function of the selector, which key gives        *)
(*   optional  class of the field, there if what key gives isn't zero      *)
(* Signed, boolean, bit-map and floating-point fields differ from an int   *)
(* without roles in the type of their value only.  Numbers are WordBits    *)
(* bits wide, like the 64 bits of the code one more than a multiple of 7.  *)
(***************************************************************************)
EXTENDS Integers, Sequences, SequencesExt

CONSTANT WordBits       \* the width of unsigned long long

ASSUME WordAssumption == WordBits \in Nat /\ WordBits % 7 = 1

Word == 2 ^ WordBits
None == -1
NoFc == [type |-> "none"]
ByteBits == 8

\* _infDataLen().
Infinite == Word - ByteBits

AlignUp(off, align) == ((off + align - 1) \div align) * align

(***************************************************************************)
(* The value of the len bits of data from the bit at, of which the first   *)
(* is the least significant one when little-endian and the most            *)
(* significant one when big-endian (bt_bitfield_read_le(), _be()).         *)
(***************************************************************************)
Bits(data, at, len, order) ==
    LET bit(i) == IF order = "le" THEN (data[1 + i \div ByteBits] \div 2 ^ (i % ByteBits)) % 2
                  ELSE (data[1 + i \div ByteBits] \div 2 ^ (ByteBits - 1 - (i % ByteBits))) % 2
        weight(k) == IF order = "le" THEN 2 ^ k ELSE 2 ^ (len - 1 - k)
    IN  MapThenSumSet(LAMBDA k : bit(at + k) * weight(k), 0 .. (len - 1))

\* The items: `info' holds their numbers, in the order of the members.
Item(type, kind, info) == [type |-> type, kind |-> kind, info |-> info]
NoItem == Item("none", "", <<>>)

\* A raw data item continues the one before it: their number depends on
\* the buffers, what they hold together doesn't.
Record(items, item) ==
    IF item.type = "RawData" /\ items # <<>> /\ Last(items).type = "RawData"
    THEN Append(Front(items), Item("RawData", "", Last(items).info \o item.info))
    ELSE Append(items, item)

\* The class of the field of a scope; `s' is the class of the data stream
\* and `e' the one of the event record, None when it has none.
ScopeFc(cls, scope, s, e) ==
    CASE scope = "PktHeader" -> cls.header
      [] scope = "PktCtx" -> cls.streams[s].ctx
      [] scope = "EventRecordHeader" -> cls.streams[s].header
      [] scope = "CommonEventRecordCtx" -> cls.streams[s].common
      [] scope = "SpecEventRecordCtx" -> cls.streams[s].events[e].spec
      [] scope = "EventRecordPayload" -> cls.streams[s].events[e].payload

\* The class which a field with the role of a class ID names, or the only
\* one when there's no such field.
ClassOf(classes, id) ==
    IF id = None /\ DOMAIN classes # {} THEN CHOOSE c \in DOMAIN classes : TRUE ELSE id

\* A packet of which nothing is known but where it starts.
NewPkt(off) ==
    [off |-> off, total |-> Infinite, content |-> Infinite, clsId |-> None,
     magic |-> None, stream |-> None, id |-> None, end |-> None, discarded |-> None,
     seqNum |-> None, event |-> None]

-----------------------------------------------------------------------------
(***************************************************************************)
(* The reference: progress is r, of which at is the position in the packet *)
(* that starts at r.pkt.off, in bits.                                      *)
(***************************************************************************)
Start(off, clocks) ==
    [pkt |-> NewPkt(off), at |-> 0, order |-> "none", keys |-> [k \in 1 .. 3 |-> 0],
     clocks |-> clocks, items |-> <<>>, ok |-> TRUE]

Emit(r, item) == [r EXCEPT !.items = Record(@, item)]
Broken(r) == [r EXCEPT !.ok = FALSE]

\* The end of what may be read of the packet.
Limit(data, r) ==
    IF ByteBits * Len(data) - r.pkt.off < r.pkt.content
    THEN ByteBits * Len(data) - r.pkt.off ELSE r.pkt.content

\* The clock after a timestamp of len bits: the first value, from the
\* current one, of which val is the low part.
ClockAfter(clock, val, len) ==
    IF len >= WordBits THEN val ELSE (clock + ((val - clock) % 2 ^ len)) % Word

\* A field with a role, once its value is known.
Play(r, role, val, len) ==
    CASE role = "magic" -> Emit(r, Item("PktMagicNumber", "", <<val>>))
      [] role = "cls" -> [r EXCEPT !.pkt.clsId = val]
      [] role = "id" -> [r EXCEPT !.pkt.id = val]
      [] role = "total" -> [r EXCEPT !.pkt.total = val]
      [] role = "content" -> [r EXCEPT !.pkt.content = val]
      [] role = "end" -> [r EXCEPT !.pkt.end = val]
      [] role = "discarded" -> [r EXCEPT !.pkt.discarded = val]
      [] role = "seqNum" -> [r EXCEPT !.pkt.seqNum = val]
      [] role = "clock" ->
           LET c == ClockAfter(r.clocks[r.pkt.stream], val, len)
           IN  Emit([r EXCEPT !.clocks[r.pkt.stream] = c], Item("DefClkVal", "", <<c>>))

\* The number of fields or bytes in a compound field.
CountOf(fc, keys) ==
    CASE fc.type = "struct" -> Len(fc.members)
      [] fc.type \in {"array", "bytes"} -> IF fc.key = 0 THEN fc.len ELSE keys[fc.key]
      [] fc.type = "optional" -> IF keys[fc.key] # 0 THEN 1 ELSE 0
      [] OTHER -> 1

\* What the beginning of a compound field tells about it.
BeginInfo(fc, keys) ==
    CASE fc.type = "struct" -> <<>>
      [] fc.type = "variant" -> <<keys[fc.key]>>
      [] fc.type \in {"nullstr", "bytes"} -> <<CountOf(fc, keys), fc.unit>>
      [] OTHER -> <<CountOf(fc, keys)>>

\* What an integer field tells: its value, and how many roles it has.
IntInfo(fc, val) == <<val, Len(fc.roles)>>

\* The class of the n-th field of a compound field, from 0.
SubFc(fc, n, keys) ==
    CASE fc.type = "struct" -> fc.members[n + 1]
      [] fc.type = "array" -> fc.elem
      [] fc.type = "optional" -> fc.fc
      [] fc.type = "variant" -> fc.options[keys[fc.key]]

HasSub(fc, keys) == fc.type = "variant" => keys[fc.key] \in DOMAIN fc.options

\* Where the zero code unit of a string that starts at the byte b ends, in
\* bytes from b; None when there is none before the byte limit.
NullAfter(data, b, unit, limit) ==
    LET ends == {n \in 1 .. (limit - b) :
                    n % unit = 0 /\ \A i \in 1 .. unit : data[b + n - unit + i] = 0}
    IN  IF ends = {} THEN None ELSE Min(ends)

\* The number of bytes of a LEB128 integer that starts at the byte b.
VarBytes(data, b, limit) ==
    LET ends == {n \in 1 .. (limit - b) : data[b + n] < 128}
    IN  IF ends = {} THEN None ELSE Min(ends)

\* The parts of a field: its beginning, its end, its bytes between them.
BeginField(fc, r) == Emit(r, Item("Begin", fc.type, BeginInfo(fc, r.keys)))
EndField(fc, r) == IF r.ok THEN Emit(r, Item("End", fc.type, <<>>)) ELSE r
ByteOf(r) == (r.pkt.off + r.at) \div ByteBits

BytesField(data, fc, r, n) ==
    EndField(fc, Emit([BeginField(fc, r) EXCEPT !.at = @ + n * ByteBits],
                      Item("RawData", "", SubSeq(data, ByteOf(r) + 1, ByteOf(r) + n))))

\* An integer which takes len bits, of which width tell its value.
Scalar(fc, r, val, len, width) ==
    FoldLeft(LAMBDA s, role : Play(s, role, val, width),
             Emit([r EXCEPT !.at = @ + len,
                            !.keys = [k \in DOMAIN @ |-> IF k \in fc.keys THEN val ELSE @[k]]],
                  Item("Int", fc.type, IntInfo(fc, val))),
             fc.roles)

VarLenInt(data, fc, r, n) ==
    IF \/ n = None
       \/ 7 * n > WordBits + 6
       \/ 7 * n > WordBits - 1 /\ data[ByteOf(r) + n] # 1
    THEN Broken(r)
    ELSE Scalar(fc, r, MapThenSumSet(LAMBDA i : (data[ByteOf(r) + i] % 128) * 2 ^ (7 * (i - 1)), 1 .. n),
                ByteBits * n, 7 * n)

\* A field at its alignment, which ends at the bit limit at the latest.
RECURSIVE Decode(_, _, _), DecodeAt(_, _, _, _)
DecodeAt(data, fc, r, limit) ==
    CASE fc.type = "int" ->
           IF \/ r.at + fc.len > limit
              \/ r.at % ByteBits # 0 /\ r.order \notin {"none", fc.order}
           THEN Broken(r)
           ELSE [Scalar(fc, r, Bits(data, r.pkt.off + r.at, fc.len, fc.order), fc.len, fc.len)
                   EXCEPT !.order = fc.order]
      [] fc.type = "varint" ->
           VarLenInt(data, fc, r, VarBytes(data, ByteOf(r), (r.pkt.off + limit) \div ByteBits))
      [] fc.type = "nullstr" ->
           LET n == NullAfter(data, ByteOf(r), fc.unit, (r.pkt.off + limit) \div ByteBits)
           IN  IF n = None THEN Broken(BeginField(fc, r)) ELSE BytesField(data, fc, r, n)
      [] fc.type = "bytes" ->
           LET n == CountOf(fc, r.keys)
           IN  IF n = 0 THEN EndField(fc, BeginField(fc, r))
               ELSE IF r.at + n * ByteBits > limit THEN Broken(BeginField(fc, r))
               ELSE BytesField(data, fc, r, n)
      [] OTHER ->
           IF ~HasSub(fc, r.keys) THEN Broken(r)
           ELSE EndField(fc, FoldLeft(LAMBDA s, n : Decode(data, SubFc(fc, n, r.keys), s),
                                      BeginField(fc, r),
                                      [n \in 1 .. CountOf(fc, r.keys) |-> n - 1]))

Decode(data, fc, r) ==
    LET at == AlignUp(r.at, fc.align)
        limit == Limit(data, r)
    IN  IF ~r.ok \/ at > limit THEN Broken(r)
        ELSE DecodeAt(data, fc, [r EXCEPT !.at = at], limit)

\* A scope: nothing when it has no field.
EndScope(scope, r) == IF r.ok THEN Emit(r, Item("ScopeEnd", scope, <<>>)) ELSE r

DecodeScope(data, cls, scope, r) ==
    LET fc == ScopeFc(cls, scope, r.pkt.stream, r.pkt.event)
    IN  IF ~r.ok \/ fc.type = "none" THEN r
        ELSE EndScope(scope, Decode(data, fc, Emit(r, Item("ScopeBegin", scope, <<>>))))

\* The value of the clock of a data stream, if its class has one.
ClockOf(cls, s, clocks) == IF cls.streams[s].clock THEN clocks[s] ELSE None

PktInfo(p, clock) ==
    Item("PktInfo", "", <<clock, p.end, p.discarded, p.seqNum>>)

(***************************************************************************)
(* The event records of a packet: the header, then the scopes of the class *)
(* it names.  An event record without data is refused.                     *)
(***************************************************************************)
EventHeader(data, cls, r) ==
    DecodeScope(data, cls, "EventRecordHeader", Emit(r, Item("EventRecordBegin", "", <<>>)))

EventBody(data, cls, r, event) ==
    FoldLeft(LAMBDA s, scope : DecodeScope(data, cls, scope, s),
             Emit([r EXCEPT !.pkt.event = event],
                  Item("EventRecordInfo", "", <<event, ClockOf(cls, r.pkt.stream, r.clocks)>>)),
             <<"CommonEventRecordCtx">>
               \o (IF event = None THEN <<>> ELSE <<"SpecEventRecordCtx", "EventRecordPayload">>))

Event(data, cls, r) ==
    LET events == cls.streams[r.pkt.stream].events
        event == ClassOf(events, r.pkt.clsId)
    IN  IF ~r.ok \/ event \notin {None} \union DOMAIN events THEN Broken(r)
        ELSE EventBody(data, cls, r, event)

EventEnd(begin, r) ==
    IF ~r.ok \/ r.at = begin THEN Broken(r) ELSE Emit(r, Item("EventRecordEnd", "", <<>>))

RECURSIVE DecodeEvents(_, _, _)
DecodeEvents(data, cls, r) ==
    IF ~r.ok \/ r.at = Limit(data, r) THEN r
    ELSE DecodeEvents(data, cls, EventEnd(r.at, Event(data, cls, EventHeader(data, cls, r))))

(***************************************************************************)
(* The packets, one step after the other: each gives up when r is broken.  *)
(***************************************************************************)
PktStream(cls, r) ==
    LET s == ClassOf(cls.streams, r.pkt.clsId)
    IN  IF ~r.ok \/ s \notin DOMAIN cls.streams THEN Broken(r)
        ELSE Emit([r EXCEPT !.pkt.stream = s, !.pkt.clsId = None],
                  Item("DataStreamInfo", "", <<s, r.pkt.id>>))

PktCtx(data, cls, r) == IF r.ok THEN DecodeScope(data, cls, "PktCtx", r) ELSE r

PktLengths(cls, r) ==
    LET total == IF r.pkt.total = Infinite THEN r.pkt.content ELSE r.pkt.total
        content == IF r.pkt.content = Infinite THEN r.pkt.total ELSE r.pkt.content
    IN  IF ~r.ok \/ total % ByteBits # 0 \/ content > total THEN Broken(r)
        ELSE Emit([r EXCEPT !.pkt.total = total, !.pkt.content = content],
                  PktInfo(r.pkt, ClockOf(cls, r.pkt.stream, r.clocks)))

PktEnd(data, r) ==
    LET next == r.pkt.off + (IF r.pkt.total = Infinite THEN r.at ELSE r.pkt.total)
        content == Emit(r, Item("PktContentEnd", "", <<>>))
    IN  IF ~r.ok \/ (r.pkt.content # Infinite /\ r.at # r.pkt.content) THEN Broken(r)
        ELSE IF next > ByteBits * Len(data) THEN Broken(content)
        ELSE [Start(next, r.clocks) EXCEPT !.keys = r.keys,
                                           !.items = Emit(content, Item("PktEnd", "", <<>>)).items]

RECURSIVE DecodePackets(_, _, _)
DecodePackets(data, cls, r) ==
    LET begin == FoldLeft(Emit, r, <<Item("PktBegin", "", <<>>), Item("PktContentBegin", "", <<>>)>>)
        stream == PktStream(cls, DecodeScope(data, cls, "PktHeader", begin))
        info == PktLengths(cls, PktCtx(data, cls, stream))
    IN  IF ~r.ok \/ r.pkt.off >= ByteBits * Len(data) THEN r
        ELSE DecodePackets(data, cls, PktEnd(data, DecodeEvents(data, cls, info)))

\* What a data stream contains from its byte `start'.
Reference(input) ==
    LET all == DecodePackets(input.data, input.cls,
                             Start(ByteBits * input.start, [s \in DOMAIN input.cls.streams |-> 0]))
    IN  [items |-> all.items, ok |-> all.ok]

=============================================================================
