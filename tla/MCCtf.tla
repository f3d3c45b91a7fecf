-------------------------------- MODULE MCCtf --------------------------------
(***************************************************************************)
(* Small trace classes and data streams for CtfMsgIter: packets of two     *)
(* data stream classes, bit fields of both byte orders, timestamps which   *)
(* wrap around, padding, UTF-16 strings, compound fields which depend on   *)
(* other fields, a single packet without lengths, data that can't be       *)
(* decoded, one for each reason, and packets with discarded items and with *)
(* the timestamps that each quirk is about.                                *)
(***************************************************************************)
EXTENDS CtfMsgIter

UInt(align, len, bo, roles, saved) ==
    [type |-> "int", align |-> align, len |-> len, order |-> bo, roles |-> roles, keys |-> saved]
Byte(role) == UInt(8, 8, "le", <<role>>, {})
Plain == UInt(8, 8, "le", <<>>, {})
Key == UInt(8, 8, "le", <<>>, {1})
VarInt(roles) == [type |-> "varint", align |-> 8, roles |-> roles, keys |-> {}]
Struct(members) == [type |-> "struct", align |-> 1, members |-> members]
Array(elem) == [type |-> "array", align |-> 1, len |-> 0, key |-> 1, elem |-> elem]
Pair(elem) == [type |-> "array", align |-> 16, len |-> 2, key |-> 0, elem |-> elem]
Bytes(unit) == [type |-> "bytes", align |-> 8, unit |-> unit, len |-> 0, key |-> 1]
NullStr(unit) == [type |-> "nullstr", align |-> 8, unit |-> unit]
Variant(options) == [type |-> "variant", align |-> 1, key |-> 1, options |-> options]
Optional(fc) == [type |-> "optional", align |-> 1, key |-> 1, fc |-> fc]
Events(payload) == [e \in {0} |-> [spec |-> NoFc, payload |-> payload]]
Stream(clock, ctx, header, common, events) ==
    [clock |-> clock, ctx |-> ctx, header |-> header, common |-> common, events |-> events]

\* Two data stream classes; the first one has short timestamps.
Packed ==
    [header |-> Struct(<<Byte("magic"), Byte("cls"), Byte("id")>>),
     streams |->
       [s \in {0, 1} |->
          IF s = 0
          THEN Stream(TRUE, Struct(<<Byte("total"), Byte("content"), Byte("clock"), Byte("end")>>),
                      Struct(<<UInt(1, 4, "le", <<"cls">>, {}), UInt(1, 4, "le", <<"clock">>, {})>>),
                      NoFc,
                      [e \in {0, 1} |-> [spec |-> NoFc,
                                         payload |-> Struct(<<IF e = 0 THEN UInt(1, 3, "le", <<>>, {})
                                                              ELSE Plain>>)]])
          ELSE Stream(FALSE, Struct(<<Byte("total"), Byte("content")>>), NoFc,
                      Struct(<<UInt(1, 4, "be", <<>>, {})>>),
                      Events(Struct(<<UInt(1, 12, "be", <<>>, {})>>)))]]

\* A single data stream class without identifiers.
Single(ctx, payload) ==
    [header |-> NoFc, streams |-> [s \in {0} |-> Stream(TRUE, ctx, NoFc, NoFc, Events(payload))]]
Sized == Struct(<<Byte("total")>>)

Strings == Struct(<<NullStr(2), Key, Bytes(0)>>)
Dependent(bo) ==
    Struct(<<Key,
             Variant([o \in {0, 1} |-> IF o = 0 THEN Plain ELSE Struct(<<UInt(1, 12, "be", <<>>, {})>>)]),
             Optional(UInt(1, 4, bo, <<>>, {})),
             Array(VarInt(<<>>))>>)

\* The message iterator is the one of the data stream 5 of the class 0.
InputOf(cls, bytes, start) ==
    [cls |-> cls, data |-> bytes, start |-> start, own |-> 0, id |-> 5, quirks |-> {}]

(***************************************************************************)
(* Packets with whole timestamps, a counter of discarded event records, a  *)
(* sequence number and a field of their own.  The first one has one event. *)
(***************************************************************************)
Stamp == UInt(8, WordBits, "le", <<"clock">>, {})
Counted ==
    [header |-> NoFc,
     streams |-> [s \in {0} |->
        Stream(TRUE, Struct(<<Byte("total"), Stamp, Byte("end"), Byte("discarded"), Byte("seqNum"), Plain>>),
               Struct(<<Stamp>>), NoFc, Events(Struct(<<Plain>>)))]]

CountedPkt(begins, ends, discEr, seqNum, times) ==
    <<8 * (7 + 3 * Len(times)), begins, 0, ends, discEr, seqNum, 77>>
        \o FlattenSeq([i \in DOMAIN times |-> <<times[i], 0, 99>>])

CountedData(ends, time) == CountedPkt(10, ends, 1, 1, <<time>>) \o CountedPkt(20, 30, 3, 4, <<>>)

Quirks == <<{}, {"zero"}, {"gtNext"}, {"ltBegin"}>>
Ends == <<0, 11, 14>>
EventTimes == <<8, 12>>

CountedInputs ==
    [k \in 1 .. 24 |->
        [InputOf(Counted, CountedData(Ends[1 + ((k - 1) % 3)], EventTimes[1 + (((k - 1) \div 3) % 2)]), 0)
            EXCEPT !.quirks = Quirks[1 + ((k - 1) \div 6)]]]

Own == <<193, 0, 5, 80, 78, 9, 14, 144, 133, 22>>
Other == <<193, 1, 2, 56, 56, 154, 188>>
Wrapping ==
    <<193, 0, 5, 80, 78, 9, 14, 144, 133, 22, 193, 0, 5, 96, 88, 14, 20, 32, 9, 2, 7, 0>>

Inputs ==
    <<InputOf(Packed, Wrapping, 0),
      InputOf(Packed, Wrapping, 10),
      InputOf(Packed, Other \o Own, 0),
      InputOf(Single(NoFc, Strings), <<65, 0, 0, 66, 0, 0, 2, 7, 8, 0, 0, 0>>, 0),
      InputOf(Single(Sized, Dependent("be")), <<64, 0, 33, 1, 90, 124, 129, 1>>, 0),
      InputOf(Single(Struct(<<Byte("content")>>), Struct(<<VarInt(<<>>), Pair(Plain)>>)),
            <<48, 128, 128, 1, 5, 6>>, 0),
      \* No option for the selector, byte orders, field and alignment past
      \* the content.
      InputOf(Single(Sized, Dependent("be")), <<24, 2, 33>>, 0),
      InputOf(Single(Sized, Dependent("le")), <<64, 0, 33, 1, 90, 124, 129, 1>>, 0),
      InputOf(Single(Sized, Dependent("be")), <<16, 0, 33, 1>>, 0),
      InputOf(Single(Sized, Struct(<<Plain, Pair(Plain)>>)), <<24, 3, 4, 24, 5, 6>>, 0),
      \* String and bytes past the content, integer too large.
      InputOf(Single(Sized, Strings), <<32, 65, 0, 66, 0, 0>>, 0),
      InputOf(Single(Sized, Strings), <<40, 0, 0, 2, 7, 8>>, 0),
      InputOf(Single(Sized, Struct(<<VarInt(<<>>)>>)), <<32, 128, 128, 2>>, 0),
      \* Unknown data stream and event record classes, lengths, truncated
      \* packet, empty event record.
      InputOf(Packed, <<193, 7, 5, 80>>, 0),
      InputOf(Packed, <<193, 0, 5, 80, 78, 9, 14, 147, 133, 22>>, 0),
      InputOf(Packed, <<193, 0, 5, 80, 81, 9, 14, 144, 133, 22>>, 0),
      InputOf(Packed, <<193, 0, 5, 79, 78, 9, 14, 144, 133, 22>>, 0),
      InputOf(Packed, <<193, 0, 5, 96, 78, 9, 14, 144, 133, 22>>, 0),
      InputOf(Single(Sized, NoFc), <<16, 0>>, 0),
      \* Text with null code units, no data, packets of other data streams.
      InputOf(Single(Sized, Struct(<<Key, Bytes(1)>>)), <<48, 4, 7, 0, 8, 0>>, 0),
      InputOf(Single(Sized, Struct(<<Key, Bytes(2)>>)), <<64, 6, 7, 0, 0, 0, 8, 0>>, 0),
      InputOf(Packed, <<>>, 0),
      InputOf(Packed, Own \o Other \o Own, 0),
      [InputOf(Packed, Other, 0) EXCEPT !.own = 1, !.id = 2],
      [InputOf(Packed, Own, 0) EXCEPT !.id = 6]>>

MCTraces == Inputs \o CountedInputs

\* Event records with timestamps of variable length.
VarStamped ==
    [header |-> NoFc,
     streams |-> [s \in {0} |-> Stream(TRUE, Sized, Struct(<<VarInt(<<"clock">>)>>), NoFc, Events(Struct(<<Plain>>)))]]

MCVarTraces == <<InputOf(VarStamped, <<40, 9, 99, 18, 98>>, 0)>>

=============================================================================
