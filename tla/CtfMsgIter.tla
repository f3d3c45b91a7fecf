----------------------------- MODULE CtfMsgIter -----------------------------
(***************************************************************************)
(* The message iterator of the CTF source plugins                          *)
(* (src/plugins/ctf/common/src/msg-iter.{hpp,cpp}) on top of its item      *)
(* sequence iterator: it makes the messages of one data stream from the    *)
(* items, and repairs the timestamps of known broken tracers               *)
(* (MsgIterQuirks in msg-iter.hpp).                                        *)
(*                                                                         *)
(* next() asks for items until one of them gives messages, returns the     *)
(* first message and keeps the others in a queue of three.  TryAgain goes  *)
(* through it.  A trace has three members more than the ones ItemSeqIter   *)
(* uses: own and id, the data stream class and the ID of the data stream   *)
(* of the iterator, and quirks, a subset of                                *)
(*   zero      packet end timestamps set to zero                           *)
(*   gtNext    event record after the beginning of the next packet         *)
(*   ltBegin   event record before the beginning of its packet             *)
(* A clock value which isn't there is None.  BT_ASSERT_DBG() conditions    *)
(* are recorded in sound and not enforced, as in a release build.          *)
(***************************************************************************)
EXTENDS ItemSeqIter

VARIABLES
    fresh,          \* whether `item' is still to be handled
    isDone,         \* _mIsDone
    refused,        \* whether a handler threw bt2c::Error
    shouldWork,     \* _mShouldWork
    skipping,       \* _mSkipItemsUntilScopeEndItem
    curPkt,         \* _mCurPkt: the number of the packet, or None
    packets,        \* the number of packets created so far
    root,           \* _mCurScopeField: its class
    fields,         \* _mStack: the classes of the fields, index of the next one
    text,           \* the string or BLOB field which is being read
    curMsg,         \* _mCurMsg
    ctxVals,        \* the values of the packet context
    queue,          \* _mMsgQueue
    begun,          \* _mEmittedStreamBeginMsg
    delayed,        \* _mDelayPktBeginMsgEmission
    curClk,         \* _mCurDefClkVal
    pktTimes,       \* _mPktBeginDefClkVal, _mPktEndDefClkVal
    counters,       \* _mCurDiscErCounterSnap, _mCurPktSeqNum
    msgs,           \* what next() has returned
    sound,          \* whether every debug assertion held
    unset,          \* whether a field was left without a value
    due             \* the events that the data stream contains

building == <<root, fields, text, curMsg, ctxVals, unset>>
timing == <<delayed, curClk, pktTimes, counters>>
control == <<isDone, refused, shouldWork, skipping, curPkt, packets, begun>>
msgVars == <<control, building, timing, queue, msgs, sound, due>>
allVars == <<iterVars, fresh, msgVars>>

Msg(type, p, ts) ==
    [type |-> type, packet |-> p, ts |-> ts, end |-> None, count |-> 0,
     cls |-> None, vals |-> <<>>]
NoMsg == Msg("none", None, None)
Discarded(type, begin, end, n) ==
    [Msg(type, None, begin) EXCEPT !.end = end, !.count = n]
NoText == [null |-> FALSE, finder |-> <<>>, bytes |-> <<>>]

OwnClass == trace.cls.streams[trace.own]
Quirk(q) == q \in trace.quirks
Expect(cond) == sound' = (sound /\ cond)

\* The field classes with a trace IR translation: a field with a role has
\* none (metadata-stream-parser.cpp).
Translated(fc) == fc.type \in Scalars => fc.roles = <<>>

-----------------------------------------------------------------------------
(***************************************************************************)
(* next(): the queued messages first, then the items one at a time, until  *)
(* the end of the data stream.  The items of another data stream class are *)
(* left out, and so are those of a scope which has nothing to keep.        *)
(***************************************************************************)
Idle == ~isDone /\ ~refused /\ queue = <<>>

ReleaseNextMsg ==
    /\ queue # <<>>
    /\ msgs' = Append(msgs, Head(queue))
    /\ queue' = Tail(queue)
    /\ UNCHANGED <<iterVars, fresh, control, building, timing, sound, due>>

NextItem ==
    /\ Idle /\ ~fresh
    /\ Handle \/ Buf
    /\ fresh' = (item' # NoItem)
    /\ UNCHANGED msgVars

TryAgainLater == Idle /\ ~fresh /\ Again /\ UNCHANGED <<fresh, msgVars>>

NoMoreItems ==
    /\ Idle /\ ~fresh /\ state = "Done"
    /\ isDone' = TRUE
    /\ msgs' = Append(msgs, Msg("SE", None, None))
    /\ UNCHANGED <<iterVars, fresh, refused, shouldWork, skipping, curPkt, packets, begun,
                   building, timing, queue, sound, due>>

Handled ==
    /\ shouldWork \/ item.type = "PktBegin"
    /\ ~skipping \/ item.type = "ScopeEnd"

LeaveOut ==
    /\ Idle /\ fresh /\ ~Handled
    /\ fresh' = FALSE
    /\ UNCHANGED <<iterVars, msgVars>>

On(type) == Idle /\ fresh /\ Handled /\ item.type = type

\* What every handler below leaves alone.
Aside == fresh' = FALSE /\ UNCHANGED <<iterVars, isDone, msgs, due>>

-----------------------------------------------------------------------------
(***************************************************************************)
(* Packets.  The assertion of the beginning of a packet, that there is no  *)
(* current one, isn't recorded after a packet of another data stream       *)
(* class: the end of that one was left out, which leaves its               *)
(* libbabeltrace2 packet behind.                                           *)
(***************************************************************************)
OnPktBegin ==
    /\ On("PktBegin")
    /\ Expect(curPkt = None \/ ~shouldWork)
    /\ curPkt' = packets + 1
    /\ packets' = packets + 1
    /\ shouldWork' = TRUE
    /\ ctxVals' = <<>>
    /\ Aside
    /\ UNCHANGED <<refused, skipping, begun, root, fields, text, curMsg, unset, timing, queue>>

\* A packet of another data stream class is left out from here on; nothing
\* resets the current packet.
OnDataStreamInfo ==
    LET cls == item.info[1]
        id == item.info[2]
        other == cls = trace.own /\ id # None /\ id # trace.id
    IN  /\ On("DataStreamInfo")
        /\ refused' = other
        /\ shouldWork' = (cls = trace.own)
        /\ queue' = IF cls = trace.own /\ ~other /\ ~begun
                    THEN <<Msg("SB", None, None)>> ELSE <<>>
        /\ begun' = (begun \/ queue' # <<>>)
        /\ Aside
        /\ UNCHANGED <<skipping, curPkt, packets, building, timing, sound>>

(***************************************************************************)
(* The discarded items since the previous packet, which ended at prevEnd,  *)
(* then the beginning of the packet, unless a quirk delays it.             *)
(***************************************************************************)
PktBeginMsg(ts) == [Msg("PB", curPkt, ts) EXCEPT !.vals = ctxVals]

OnPktInfo ==
    LET begin == item.info[1]
        end == item.info[2]
        discEr == item.info[3]
        seqNum == item.info[4]
        prevEnd == pktTimes.end
        clocked(t) == IF OwnClass.clock THEN t ELSE None
        discEvents == counters.discEr # None /\ discEr > counters.discEr
        discPkts == counters.seqNum # None /\ counters.seqNum + 1 < seqNum
    IN  /\ On("PktInfo")
        /\ Expect(/\ counters.discEr # None => discEr # None
                  /\ counters.seqNum # None => seqNum # None
                  /\ OwnClass.clock /\ (discEvents \/ discPkts) => prevEnd # None
                  /\ curMsg = NoMsg /\ curPkt # None)
        /\ pktTimes' = [begin |-> begin, end |-> end]
        /\ counters' = [discEr |-> discEr, seqNum |-> seqNum]
        /\ delayed' = Quirk("ltBegin")
        /\ queue' = (IF ~discEvents THEN <<>>
                     ELSE <<Discarded("DE", clocked(prevEnd), clocked(end), discEr - counters.discEr)>>)
                 \o (IF ~discPkts THEN <<>>
                     ELSE <<Discarded("DP", clocked(prevEnd), clocked(begin),
                                      seqNum - counters.seqNum - 1)>>)
                 \o (IF delayed' THEN <<>> ELSE <<PktBeginMsg(begin)>>)
        /\ curClk' = IF delayed' \/ begin = None THEN curClk ELSE begin
        /\ Aside
        /\ UNCHANGED <<refused, shouldWork, skipping, curPkt, packets, begun, building>>

\* _emitDelayedPktBeginMsg(): when the delayed packet begins.
DelayedBegin(other) ==
    CASE pktTimes.begin # None /\ other # None -> Smallest(pktTimes.begin, other)
      [] pktTimes.begin # None /\ other = None -> pktTimes.begin
      [] OTHER -> other

\* Mutant: the delayed message is forgotten.
DelayedMsgLost(other) == <<>>

\* The delayed message, if any, and the current clock value after it.
DelayedMsg(other) == IF delayed THEN <<PktBeginMsg(DelayedBegin(other))>> ELSE <<>>
ClkAfterDelayed(other) ==
    IF delayed /\ DelayedBegin(other) # None THEN DelayedBegin(other) ELSE curClk

\* _createPktEndMsgAndUpdateCurDefClkVal(): whether the end is replaced.
EndBug(clk) ==
    \/ /\ Quirk("zero")
       /\ pktTimes.begin # None /\ pktTimes.begin # 0
       /\ pktTimes.end = 0
    \/ Quirk("gtNext") /\ clk # None /\ pktTimes.end < clk

OnPktEnd ==
    LET end == pktTimes.end
        clk == ClkAfterDelayed(end)
        last == IF end # None /\ EndBug(clk) THEN clk ELSE end
    IN  /\ On("PktEnd")
        /\ Expect(curMsg = NoMsg /\ curPkt # None)
        /\ queue' = Append(DelayedMsg(end), Msg("PE", curPkt, last))
        /\ curClk' = IF end = None THEN clk ELSE last
        /\ delayed' = FALSE
        /\ curPkt' = None
        /\ Aside
        /\ UNCHANGED <<refused, shouldWork, skipping, packets, begun, building, pktTimes, counters>>

\* Items without a handler, and the end of the content, which only asserts
\* that there is a packet.
OnOther ==
    /\ \E t \in {"PktContentBegin", "PktContentEnd", "EventRecordBegin", "DefClkVal"} : On(t)
    /\ Expect(item.type = "PktContentEnd" => curPkt # None)
    /\ Aside
    /\ UNCHANGED <<refused, shouldWork, skipping, curPkt, packets, begun, building, timing, queue>>

-----------------------------------------------------------------------------
(***************************************************************************)
(* Event records.  The message is built by the fields, and queued at the   *)
(* end.                                                                    *)
(***************************************************************************)
OnEventRecordInfo ==
    LET clk == item.info[2]
    IN  /\ On("EventRecordInfo")
        /\ Expect(curMsg = NoMsg /\ item.info[1] # None)
        /\ queue' = DelayedMsg(clk)
        /\ delayed' = FALSE
        /\ curClk' = IF clk = None THEN ClkAfterDelayed(clk) ELSE clk
        /\ curMsg' = [Msg("EV", curPkt, clk) EXCEPT !.cls = item.info[1]]
        /\ Aside
        /\ UNCHANGED <<refused, shouldWork, skipping, curPkt, packets, begun, root, fields, text,
                       ctxVals, unset, pktTimes, counters>>

\* Mutant: the message stays the current one.
OnEventRecordEndKeeps ==
    /\ On("EventRecordEnd")
    /\ Expect(fields = <<>> /\ curMsg # NoMsg)
    /\ queue' = <<curMsg>>
    /\ Aside
    /\ UNCHANGED <<refused, shouldWork, skipping, curPkt, packets, begun, building, timing>>

OnEventRecordEnd ==
    /\ On("EventRecordEnd")
    /\ Expect(fields = <<>> /\ curMsg # NoMsg)
    /\ queue' = <<curMsg>>
    /\ curMsg' = NoMsg
    /\ Aside
    /\ UNCHANGED <<refused, shouldWork, skipping, curPkt, packets, begun, root, fields, text,
                   ctxVals, unset, timing>>

-----------------------------------------------------------------------------
(***************************************************************************)
(* Scopes and fields.  The packet header is skipped as a whole: the        *)
(* handlers of the magic number and of the UUID, which are there, never    *)
(* run.                                                                    *)
(***************************************************************************)
FieldStep == Aside /\ UNCHANGED <<refused, shouldWork, curPkt, packets, begun, timing, queue>>

OnScopeBegin ==
    LET fc == ScopeFc(trace.cls, item.kind, pkt.stream, pkt.event)
    IN  /\ On("ScopeBegin")
        /\ Expect(/\ fields = <<>> /\ root = NoFc
                  /\ item.kind = "PktCtx" => curPkt # None
                  /\ item.kind \in {"CommonEventRecordCtx", "SpecEventRecordCtx", "EventRecordPayload"}
                        => curMsg # NoMsg)
        /\ skipping' = \/ item.kind \in {"PktHeader", "EventRecordHeader"}
                       \/ /\ item.kind = "PktCtx"
                          /\ \A i \in DOMAIN fc.members : ~Translated(fc.members[i])
        /\ root' = IF skipping' THEN NoFc ELSE fc
        /\ FieldStep
        /\ UNCHANGED <<fields, text, curMsg, ctxVals, unset>>

OnScopeEnd ==
    /\ On("ScopeEnd")
    /\ Expect(fields = <<>>)
    /\ root' = NoFc
    /\ skipping' = FALSE
    /\ FieldStep
    /\ UNCHANGED <<fields, text, curMsg, ctxVals, unset>>

TopField == Last(fields)
CurSubField == TopField.subs[TopField.index + 1]
HasSubField == fields # <<>> /\ TopField.index < Len(TopField.subs)
AfterSubField == [fields EXCEPT ![Len(fields)].index = @ + 1]

\* The fields that a compound field contains, as its item tells.
SubFields(fc) ==
    CASE fc.type = "struct" -> SelectSeq(fc.members, Translated)
      [] fc.type = "array" -> [i \in 1 .. item.info[1] |-> fc.elem]
      [] fc.type = "optional" -> IF item.info[1] = 0 THEN <<>> ELSE <<fc.fc>>
      [] fc.type = "variant" -> <<fc.options[item.info[1]]>>

SetValue(val) ==
    /\ curMsg' = IF curMsg = NoMsg THEN NoMsg ELSE [curMsg EXCEPT !.vals = Append(@, val)]
    /\ ctxVals' = IF curMsg = NoMsg THEN Append(ctxVals, val) ELSE ctxVals

OnInt ==
    LET ignored == item.info[2] > 0
    IN  /\ On("Int")
        /\ Expect(ignored \/ (HasSubField /\ CurSubField.type = item.kind))
        /\ IF ignored THEN UNCHANGED <<fields, curMsg, ctxVals>>
           ELSE fields' = AfterSubField /\ SetValue(<<item.info[1]>>)
        /\ FieldStep
        /\ UNCHANGED <<skipping, root, text, unset>>

IsText == item.kind \in {"nullstr", "bytes"}

OnBegin ==
    LET isRoot == fields = <<>>
        fc == IF isRoot THEN root ELSE CurSubField
    IN  /\ On("Begin") /\ ~IsText
        /\ Expect(fc.type = item.kind /\ (~isRoot => HasSubField))
        /\ fields' = Append(IF isRoot THEN <<>> ELSE AfterSubField,
                            [subs |-> SubFields(fc), index |-> 0])
        /\ FieldStep
        /\ UNCHANGED <<skipping, root, text, curMsg, ctxVals, unset>>

OnEnd ==
    /\ On("End") /\ ~IsText
    /\ Expect(fields # <<>>)
    /\ unset' = (unset \/ HasSubField)
    /\ fields' = Front(fields)
    /\ FieldStep
    /\ UNCHANGED <<skipping, root, text, curMsg, ctxVals>>

(***************************************************************************)
(* Strings and BLOBs, in as many raw data items as there are buffers.  The *)
(* text of a string stops at its first null code unit, which a buffer may  *)
(* cut; the units after it are dropped.                                    *)
(***************************************************************************)
OnBeginText ==
    /\ On("Begin") /\ IsText
    /\ Expect(HasSubField /\ CurSubField.type = item.kind)
    /\ text' = NoText
    /\ FieldStep
    /\ UNCHANGED <<skipping, root, fields, curMsg, ctxVals, unset>>

\* Mutant: what follows the end of the text is appended to it.
AppendTextAnyway(t, bytes, unit) ==
    LET end == NullCp(t.finder, bytes, unit)
        kept == SubSeq(bytes, 1, IF end = None THEN Len(bytes) ELSE end)
    IN  [null |-> end # None, finder |-> Unfinished(t.finder, kept, unit), bytes |-> t.bytes \o kept]

\* _handleStrRawDataItem(): bytes after the null code unit don't count.
AppendText(t, bytes, unit) ==
    LET end == NullCp(t.finder, bytes, unit)
        kept == SubSeq(bytes, 1, IF end = None THEN Len(bytes) ELSE end)
    IN  IF t.null THEN t
        ELSE [null |-> end # None, finder |-> Unfinished(t.finder, kept, unit),
              bytes |-> t.bytes \o kept]

OnRawData ==
    LET unit == CurSubField.unit
    IN  /\ On("RawData")
        /\ Expect(HasSubField /\ CurSubField.type \in {"nullstr", "bytes"})
        /\ text' = IF unit = 0 THEN [text EXCEPT !.bytes = @ \o item.info]
                   ELSE AppendText(text, item.info, unit)
        /\ FieldStep
        /\ UNCHANGED <<skipping, root, fields, curMsg, ctxVals, unset>>

\* The text without its null code unit.
OnEndText ==
    LET n == Len(text.bytes) - (IF text.null THEN CurSubField.unit ELSE 0)
    IN  /\ On("End") /\ IsText
        /\ Expect(fields # <<>>)
        /\ SetValue(SubSeq(text.bytes, 1, n))
        /\ fields' = AfterSubField
        /\ FieldStep
        /\ UNCHANGED <<skipping, root, text, unset>>

-----------------------------------------------------------------------------
(***************************************************************************)
(* What the data stream contains, from the items of the whole data: the    *)
(* event records of the packets of the own data stream class.              *)
(***************************************************************************)
UpTo(all, i, type) == {j \in 1 .. i : all[j].type = type}

IsOwn(all, i) ==
    LET infos == UpTo(all, i, "DataStreamInfo")
    IN  infos # {} /\ all[Max(infos)].info[1] = trace.own

\* The value that the item j completes, if any: <<value>> or <<>>.
ValueAt(all, j) ==
    CASE all[j].type = "Int" /\ all[j].info[2] = 0 -> <<<<all[j].info[1]>>>>
      [] all[j].type = "End" /\ all[j].kind \in {"nullstr", "bytes"} ->
           LET begin == all[Max(UpTo(all, j, "Begin"))]
               raw == IF all[j - 1].type = "RawData" THEN all[j - 1].info ELSE <<>>
               null == NullAfter(raw, 0, begin.info[2], Len(raw))
           IN  <<IF begin.info[2] = 0 \/ null = None THEN raw
                 ELSE SubSeq(raw, 1, null - begin.info[2])>>
      [] OTHER -> <<>>

EventsIn(all) ==
    LET infos == {i \in DOMAIN all : /\ all[i].type = "EventRecordInfo"
                                     /\ IsOwn(all, i)
                                     /\ \E j \in i .. Len(all) : all[j].type = "EventRecordEnd"}
        last(i) == Min({j \in i .. Len(all) : all[j].type = "EventRecordEnd"})
        values(i) == FlattenSeq([k \in 1 .. (last(i) - i) |-> ValueAt(all, i + k)])
        ordered == SetToSortSeq(infos, LAMBDA a, b : a < b)
    IN  [k \in DOMAIN ordered |->
           [cls |-> all[ordered[k]].info[1], ts |-> all[ordered[k]].info[2],
            vals |-> values(ordered[k])]]

MsgInit ==
    /\ Init
    /\ fresh = FALSE /\ isDone = FALSE /\ refused = FALSE
    /\ shouldWork = TRUE /\ skipping = FALSE
    /\ curPkt = None /\ packets = 0
    /\ root = NoFc /\ fields = <<>> /\ text = NoText
    /\ curMsg = NoMsg /\ ctxVals = <<>> /\ queue = <<>> /\ msgs = <<>>
    /\ begun = FALSE /\ delayed = FALSE
    /\ curClk = None
    /\ pktTimes = [begin |-> None, end |-> None]
    /\ counters = [discEr |-> None, seqNum |-> None]
    /\ sound = TRUE /\ unset = FALSE
    /\ due = EventsIn(expected.items)

Progress ==
    \/ ReleaseNextMsg \/ NextItem \/ NoMoreItems \/ LeaveOut
    \/ OnPktBegin \/ OnDataStreamInfo \/ OnPktInfo \/ OnPktEnd \/ OnOther
    \/ OnEventRecordInfo \/ OnEventRecordEnd
    \/ OnScopeBegin \/ OnScopeEnd \/ OnInt \/ OnBegin \/ OnEnd
    \/ OnBeginText \/ OnRawData \/ OnEndText

Finished == failed \/ refused \/ isDone
MsgNext == Progress \/ TryAgainLater \/ (Finished /\ UNCHANGED allVars)

\* The user of the iterator calls next() until the end, and the medium
\* eventually has the data, or reports their end.
MsgSpec == MsgInit /\ [][MsgNext]_allVars /\ WF_allVars(Progress)

-----------------------------------------------------------------------------
Out == msgs \o queue
Rules == INSTANCE MessageSequence
           WITH Streams <- {1}, MaxTime <- Word, MaxPackets <- 1,
                Class <- [packets |-> TRUE, beginCs |-> FALSE, endCs |-> FALSE,
                          discEvents |-> TRUE, discEventsCs |-> FALSE,
                          discPackets |-> TRUE, discPacketsCs |-> FALSE, knownEnds |-> FALSE]

\* The phase of the stream before each message.
PhaseBefore(i) ==
    FoldLeft(LAMBDA phase, m : Rules!PhaseAfter(phase, m.type), "unborn", SubSeq(Out, 1, i - 1))

\* The times of two messages of a packet, one after the other.
InOrder(a, b) ==
    a.ts # None /\ b.ts # None =>
        \/ a.ts <= b.ts
        \/ a.type = "PB" /\ b.type = "EV" /\ ~Quirk("ltBegin")
        \/ b.type = "PE" /\ ~Quirk("gtNext") /\ (Quirk("zero") => b.ts # 0)

(***************************************************************************)
(* The messages follow the rules of message.h, also with delayed packet    *)
(* beginnings, packets of other data streams and anything discarded, and   *)
(* the messages between the beginning and the end of a packet are of that  *)
(* packet.  Only a data stream without packets ends before it begins.      *)
(* With the quirk for what is wrong in it, a packet doesn't begin after    *)
(* its first event, and doesn't end before its last one.                   *)
(***************************************************************************)
MessagesAreLegal ==
    \A i \in DOMAIN Out :
        /\ Out[i].type \in Rules!LegalTypes(PhaseBefore(i)) \/ (Out[i].type = "SE" /\ ~begun)
        /\ Out[i].type \in {"EV", "PE"} => Out[i].packet = Out[i - 1].packet
        /\ i > 1 /\ Out[i].type \in {"EV", "PE"} => InOrder(Out[i - 1], Out[i])

OfType(type) == SelectSeq(Out, LAMBDA m : m.type = type)

(***************************************************************************)
(* Each event record of the data stream gives one event message, with its  *)
(* class, its time and the values of its fields, however the fields were   *)
(* cut into buffers; each packet gives a beginning and an end.             *)
(***************************************************************************)
EventsAreExact ==
    LET got == [i \in DOMAIN OfType("EV") |->
                  [cls |-> OfType("EV")[i].cls, ts |-> OfType("EV")[i].ts,
                   vals |-> OfType("EV")[i].vals]]
        ended == {i \in UpTo(expected.items, Len(expected.items), "PktEnd") :
                     IsOwn(expected.items, i)}
    IN  /\ IsPrefix(got, due)
        /\ isDone => got = due /\ Len(OfType("PE")) = Cardinality(ended)

(***************************************************************************)
(* The queue has room for what one item gives ("One item can generate at   *)
(* most three messages"), no debug assertion of msg-iter.{hpp,cpp} fails,  *)
(* and no field of a packet or of an event is left without a value, but    *)
(* for one: at the beginning of the packet after one of another data       *)
(* stream class (see OnPktBegin).  The head of the item sequence iterator  *)
(* is in its buffer.                                                       *)
(***************************************************************************)
NoAssertionFails == HeadIsInBuffer /\ Len(queue) <= 3 /\ sound /\ ~unset

(***************************************************************************)
(* The iteration ends, on any data, if the medium ends up answering: no    *)
(* handler gives way to another one forever, and an event record or a      *)
(* packet without data is refused instead of being read again and again.   *)
(***************************************************************************)
IterationEnds == <>Finished

=============================================================================
