----------------------------- MODULE ItemSeqIter -----------------------------
(***************************************************************************)
(* The item sequence iterator of the CTF source plugins                    *)
(* (src/plugins/ctf/common/src/item-seq/item-seq-iter.{hpp,cpp}): a state  *)
(* machine which decodes packets from the buffers of a medium.             *)
(*                                                                         *)
(* next() runs the handlers of the states until one stops with an item.    *)
(* A handler which lacks data asks the medium for a buffer: Buf() is that  *)
(* call.  The medium may answer with any buffer that is long enough, with  *)
(* "no data" at the end, or throw TryAgain, which unwinds next(): the      *)
(* caller calls it again later and the handler of the current state runs   *)
(* again from its beginning.                                               *)
(*                                                                         *)
(* The states of the code, one for each combination of length, alignment,  *)
(* byte order, saving and role of a field, are grouped by what their       *)
(* handlers do.  Offsets and lengths are in bits, and wrap around like the *)
(* unsigned numbers of the code.  The UUID states are left out.            *)
(***************************************************************************)
EXTENDS ItemSequence, Bitwise

CONSTANT Traces     \* sequence of the data streams to decode: [cls, data, start]

VARIABLES
    input,          \* which one is being decoded
    expected,       \* what it contains
    state,          \* _mState
    postSkip,       \* _mPostSkipPaddingState
    toSkip,         \* _mRemainingLenToSkip
    buf,            \* _mBuf: where it starts in the data (in bytes), its size
    bufOff,         \* _mBufOffsetInCurPkt
    pkt,            \* the current packet and its informative items
    head,           \* _mHeadOffsetInCurPkt
    eventHead,      \* _mCurEventRecordHeadOffsetInCurPkt
    order,          \* _mLastFixedLenBitArrayFieldByteOrder
    scope,          \* _mCurScope
    stack,          \* _mStack
    scalar,         \* _mCurScalarFc
    keys,           \* _mSavedKeyVals
    varint,         \* _mCurVarLenInt
    finder,         \* _mUtf*NullCpFinder: the bytes of the unfinished code unit
    clocks,         \* _mDefClkValPerStream
    pending,        \* _mCurItem while next() hasn't returned it
    item,           \* the item next() has just returned
    items,          \* what it has returned so far
    failed,         \* whether it threw bt2c::Error
    lost,           \* whether bt2c::TryAgain made it forget an item
    asked           \* the last request to the medium: offset, end of the answer

trace == Traces[input]
source == <<input, expected>>
decoding == <<pkt, head, eventHead, order, scope, stack, scalar, keys, varint, finder, clocks>>
place == <<buf, bufOff, asked>>
iterVars ==
    <<source, state, postSkip, toSkip, decoding, place, pending, item, items, failed, lost>>

Wrap(n) == n % Word
NoBuf == [addr |-> 0, size |-> 0]
NoVarInt == [val |-> 0, len |-> 0]

RemainingContent == Wrap(pkt.content - head)
RemainingBuf == Wrap(bufOff + buf.size - head)
Top == Last(stack)
Frame(restoring, fc, len) == [restoring |-> restoring, fc |-> fc, index |-> 0, len |-> len]

\* The bit of the data at the decoding head (_bufAtHead()).
AtHead == ByteBits * buf.addr + (head - bufOff)

-----------------------------------------------------------------------------
\* The reactions of a handler: stop with an item, or continue.
Stop(it) == item' = it /\ items' = Record(items, it) /\ pending' = NoItem /\ UNCHANGED lost
Continue == item' = NoItem /\ UNCHANGED <<items, pending, lost>>

Fail == /\ failed' = TRUE
        /\ item' = NoItem
        /\ UNCHANGED <<source, state, postSkip, toSkip, decoding, place, pending, items, lost>>

(***************************************************************************)
(* _prepareToReadField(): the state which reads a field, and the stack.    *)
(* _prepareToReadNextField(): the next field of the top frame, or the      *)
(* state to restore, which still needs the frame.                          *)
(***************************************************************************)
Scalars == {"int", "varint"}

ToReadField(fc, frames) ==
    CASE fc.type = "int" -> [state |-> "ReadFixedLenInt", stack |-> frames, scalar |-> fc]
      [] fc.type = "varint" -> [state |-> "ReadVarLenInt", stack |-> frames, scalar |-> fc]
      [] OTHER -> [state |-> "BeginReadField", scalar |-> scalar,
                   stack |-> Append(frames, Frame("EndReadField", fc, 0))]

ToReadNextField(frames) ==
    LET top == [Last(frames) EXCEPT !.index = @ + 1]
        rest == Append(Front(frames), top)
    IN  IF top.index = top.len
        THEN [state |-> top.restoring, stack |-> rest, scalar |-> scalar]
        ELSE ToReadField(SubFc(top.fc, top.index, keys), rest)

Go(to) == state' = to.state /\ stack' = to.stack /\ scalar' = to.scalar

\* _prepareToTryReadScope(): a frame is pushed for the scope when it has a
\* field; nothing removes it before the next packet.
TryScope(s, frames, stream, event) ==
    /\ scope' = s
    /\ state' = "TryBeginReadScope"
    /\ stack' = IF ScopeFc(trace.cls, s, stream, event).type = "none" THEN frames
                ELSE Append(frames, Frame("EndReadScope", NoFc, 1))
    /\ UNCHANGED scalar

-----------------------------------------------------------------------------
(***************************************************************************)
(* _alignHead(): skip to the alignment of the field, as packet content.    *)
(***************************************************************************)
Misaligned(fc) == AlignUp(head, fc.align) # head

Align(fc) ==
    LET len == AlignUp(head, fc.align) - head
    IN  /\ Misaligned(fc)
        /\ IF len > RemainingContent THEN Fail
           ELSE /\ toSkip' = len
                /\ postSkip' = state
                /\ state' = "SkipContentPadding"
                /\ Continue
                /\ UNCHANGED <<source, decoding, place, failed>>

(***************************************************************************)
(* How many bits the handler of the current state asks for before it does  *)
(* anything, and whether they have to be packet content.                   *)
(***************************************************************************)
Needed ==
    CASE state \in {"TryBeginReadPkt", "SkipPadding", "SkipContentPadding"} -> 1
      [] state = "TryBeginReadEventRecord" -> IF pkt.content = Infinite THEN 1 ELSE 0
      [] state = "ReadFixedLenInt" -> IF Misaligned(scalar) THEN 0 ELSE scalar.len
      [] state = "ReadVarLenInt" -> IF Misaligned(scalar) THEN 0 ELSE ByteBits
      [] state \in {"ReadRawData", "ReadSubstr"} -> ByteBits
      [] OTHER -> 0

IsContent == state \notin {"TryBeginReadPkt", "SkipPadding", "TryBeginReadEventRecord"}

\* _requireContentData() throws when the field goes past the content.
PastContent == IsContent /\ Needed > RemainingContent
Have == Needed <= RemainingBuf /\ ~PastContent

(***************************************************************************)
(* _tryHaveData(): the buffer to ask for starts with the byte of the head. *)
(* No data means the end of the packets, or of a single packet; anywhere   *)
(* else it's an error.                                                     *)
(***************************************************************************)
ReqOffset == (pkt.off \div ByteBits) + (head \div ByteBits)
ReqSize == (Needed + 7 + (head % ByteBits)) \div ByteBits

NewBuf(size) ==
    /\ buf' = [addr |-> ReqOffset, size |-> ByteBits * size]
    /\ bufOff' = ByteBits * ReqOffset - pkt.off
    /\ asked' = [off |-> ReqOffset, end |-> ReqOffset + size]
    /\ item' = NoItem
    /\ UNCHANGED <<source, state, postSkip, toSkip, decoding, pending, items, failed, lost>>

NoData ==
    IF state \in {"TryBeginReadPkt", "TryBeginReadEventRecord"}
    THEN /\ state' = IF state = "TryBeginReadPkt" THEN "Done" ELSE "EndReadPktContent"
         /\ Continue
         /\ UNCHANGED <<source, postSkip, toSkip, decoding, place, failed>>
    ELSE Fail

\* bt2c::TryAgain: the item that next() was about to return isn't returned.
TryAgain ==
    /\ lost' = (lost \/ pending # NoItem)
    /\ pending' = NoItem
    /\ item' = NoItem
    /\ UNCHANGED <<source, state, postSkip, toSkip, decoding, place, items, failed>>

Asking == ~failed /\ Needed > RemainingBuf /\ ~PastContent

Buf ==
    /\ Asking
    /\ \/ \E size \in ReqSize .. (Len(trace.data) - ReqOffset) : NewBuf(size)
       \/ ReqOffset + ReqSize > Len(trace.data) /\ NoData

Again == Asking /\ TryAgain

TooLong == ~failed /\ PastContent /\ Fail

-----------------------------------------------------------------------------
\* What every handler below leaves alone.
Quiet == UNCHANGED <<source, postSkip, toSkip, place, failed>>
QuietFields == UNCHANGED <<keys, varint, finder, clocks, order>>
Ready(s) == ~failed /\ state = s /\ Have

\* _handleInitState(), _handleTryBeginReadPktState(): _resetForNewPkt().
Begin ==
    /\ ~failed /\ state = "Init"
    /\ state' = "TryBeginReadPkt"
    /\ Continue /\ Quiet /\ UNCHANGED decoding

TryBeginReadPkt ==
    /\ Ready("TryBeginReadPkt")
    /\ pkt' = NewPkt(pkt.off)
    /\ head' = 0
    /\ order' = "none"
    /\ stack' = <<>>
    /\ varint' = NoVarInt
    /\ state' = "BeginReadPktContent"
    /\ Stop(Item("PktBegin", "", <<>>))
    /\ Quiet /\ UNCHANGED <<eventHead, scope, scalar, keys, finder, clocks>>

BeginReadPktContent ==
    /\ Ready("BeginReadPktContent")
    /\ TryScope("PktHeader", stack, None, None)
    /\ Stop(Item("PktContentBegin", "", <<>>))
    /\ Quiet /\ QuietFields /\ UNCHANGED <<pkt, head, eventHead>>

\* Mutant: the specific context of an event record is followed by itself.
AfterScopeAgain ==
    LET to(s) == state' = s /\ UNCHANGED <<scope, stack, scalar>>
        try(s) == TryScope(s, stack, pkt.stream, pkt.event)
    IN  CASE scope = "PktHeader" -> to("SetDataStreamInfoItem")
          [] scope = "PktCtx" -> to("SetPktInfoItem")
          [] scope = "EventRecordHeader" -> to("SetEventRecordInfoItem")
          [] scope = "CommonEventRecordCtx" ->
               IF pkt.event = None THEN to("EndReadEventRecord") ELSE try("SpecEventRecordCtx")
          [] scope = "SpecEventRecordCtx" -> try("SpecEventRecordCtx")
          [] scope = "EventRecordPayload" -> to("EndReadEventRecord")

\* What follows a scope.
AfterScope ==
    LET to(s) == state' = s /\ UNCHANGED <<scope, stack, scalar>>
        try(s) == TryScope(s, stack, pkt.stream, pkt.event)
    IN  CASE scope = "PktHeader" -> to("SetDataStreamInfoItem")
          [] scope = "PktCtx" -> to("SetPktInfoItem")
          [] scope = "EventRecordHeader" -> to("SetEventRecordInfoItem")
          [] scope = "CommonEventRecordCtx" ->
               IF pkt.event = None THEN to("EndReadEventRecord") ELSE try("SpecEventRecordCtx")
          [] scope = "SpecEventRecordCtx" -> try("EventRecordPayload")
          [] scope = "EventRecordPayload" -> to("EndReadEventRecord")

TryBeginReadScope ==
    LET fc == ScopeFc(trace.cls, scope, pkt.stream, pkt.event)
    IN  /\ Ready("TryBeginReadScope")
        /\ IF fc.type = "none"
           THEN AfterScope /\ Continue
           ELSE /\ Go(ToReadField(fc, stack))
                /\ Stop(Item("ScopeBegin", scope, <<>>))
                /\ UNCHANGED scope
        /\ Quiet /\ QuietFields /\ UNCHANGED <<pkt, head, eventHead>>

EndReadScope ==
    /\ Ready("EndReadScope")
    /\ AfterScope
    /\ Stop(Item("ScopeEnd", scope, <<>>))
    /\ Quiet /\ QuietFields /\ UNCHANGED <<pkt, head, eventHead>>

\* _handleSetDataStreamInfoItemState().
SetDataStreamInfoItem ==
    LET s == ClassOf(trace.cls.streams, pkt.clsId)
    IN  /\ Ready("SetDataStreamInfoItem")
        /\ IF s \notin DOMAIN trace.cls.streams THEN Fail
           ELSE /\ pkt' = [pkt EXCEPT !.stream = s, !.clsId = None]
                /\ TryScope("PktCtx", stack, s, None)
                /\ Stop(Item("DataStreamInfo", "", <<s, pkt.id>>))
                /\ Quiet /\ QuietFields /\ UNCHANGED <<head, eventHead>>

\* _handleSetPktInfoItemState(): each of the lengths stands for the other
\* when it's missing.
SetPktInfoItem ==
    LET total == IF pkt.total = Infinite THEN pkt.content ELSE pkt.total
        content == IF pkt.content = Infinite THEN total ELSE pkt.content
    IN  /\ Ready("SetPktInfoItem")
        /\ IF total % ByteBits # 0 \/ content > total THEN Fail
           ELSE /\ pkt' = [pkt EXCEPT !.total = total, !.content = content]
                /\ state' = "TryBeginReadEventRecord"
                /\ Stop(PktInfo(pkt, ClockOf(trace.cls, pkt.stream, clocks)))
                /\ Quiet /\ QuietFields
                /\ UNCHANGED <<head, eventHead, scope, stack, scalar>>

\* _handleTryBeginReadEventRecordState().
TryBeginReadEventRecord ==
    /\ Ready("TryBeginReadEventRecord")
    /\ IF pkt.content # Infinite /\ RemainingContent = 0
       THEN /\ state' = "EndReadPktContent"
            /\ Continue
            /\ UNCHANGED <<eventHead, scope, stack, scalar>>
       ELSE /\ eventHead' = head
            /\ TryScope("EventRecordHeader", stack, pkt.stream, None)
            /\ Stop(Item("EventRecordBegin", "", <<>>))
    /\ Quiet /\ QuietFields /\ UNCHANGED <<pkt, head>>

\* _handleSetEventRecordInfoItemState().
SetEventRecordInfoItem ==
    LET events == trace.cls.streams[pkt.stream].events
        e == ClassOf(events, pkt.clsId)
    IN  /\ Ready("SetEventRecordInfoItem")
        /\ IF e # None /\ e \notin DOMAIN events THEN Fail
           ELSE /\ pkt' = [pkt EXCEPT !.event = e]
                /\ TryScope("CommonEventRecordCtx", stack, pkt.stream, e)
                /\ Stop(Item("EventRecordInfo", "", <<e, ClockOf(trace.cls, pkt.stream, clocks)>>))
                /\ Quiet /\ QuietFields /\ UNCHANGED <<head, eventHead>>

\* _handleEndReadEventRecordState(): an event record without data is
\* refused, as the iterator would never leave it.
EndReadEventRecord ==
    /\ Ready("EndReadEventRecord")
    /\ IF head = eventHead THEN Fail
       ELSE /\ state' = "TryBeginReadEventRecord"
            /\ Stop(Item("EventRecordEnd", "", <<>>))
            /\ Quiet /\ UNCHANGED decoding

(***************************************************************************)
(* _handleEndReadPktContentState() tries to skip the padding at once, with *)
(* the item already set: it's returned once the padding is skipped.        *)
(***************************************************************************)
EndReadPktContent ==
    LET len == Wrap(pkt.total - head)
        end == Item("PktContentEnd", "", <<>>)
    IN  /\ Ready("EndReadPktContent")
        /\ IF pkt.total = Infinite \/ len = 0
           THEN /\ state' = "EndReadPkt"
                /\ Stop(end)
                /\ UNCHANGED <<postSkip, toSkip>>
           ELSE /\ toSkip' = len
                /\ postSkip' = "EndReadPkt"
                /\ state' = "SkipPadding"
                /\ pending' = end
                /\ item' = NoItem
                /\ UNCHANGED <<items, lost>>
        /\ UNCHANGED <<source, decoding, place, failed>>

\* _skipPadding(), one buffer at a time.
SkipPadding ==
    LET n == IF toSkip < RemainingBuf THEN toSkip ELSE RemainingBuf
    IN  /\ Ready("SkipPadding") \/ Ready("SkipContentPadding")
        /\ head' = head + n
        /\ toSkip' = toSkip - n
        /\ IF toSkip' = 0
           THEN /\ state' = postSkip
                /\ IF pending = NoItem THEN Continue ELSE Stop(pending)
           ELSE UNCHANGED state /\ Continue
        /\ UNCHANGED <<source, postSkip, pkt, eventHead, order, scope, stack, scalar, keys,
                       varint, finder, clocks, place, failed>>

\* Mutant: what remains of the buffer is dropped.
EndReadPktDropsBuf ==
    /\ Ready("EndReadPkt")
    /\ pkt' = [pkt EXCEPT !.off = @ + head]
    /\ head' = 0
    /\ buf' = NoBuf
    /\ bufOff' = 0
    /\ state' = "TryBeginReadPkt"
    /\ Stop(Item("PktEnd", "", <<>>))
    /\ UNCHANGED <<source, postSkip, toSkip, eventHead, order, scope, stack, scalar, keys, varint,
                   finder, clocks, asked, failed>>

\* _handleEndReadPktState(): what remains of the buffer is the beginning
\* of the next packet.
EndReadPkt ==
    LET used == pkt.total - bufOff
    IN  /\ Ready("EndReadPkt")
        /\ pkt' = [pkt EXCEPT !.off = @ + head]
        /\ head' = 0
        /\ buf' = IF pkt.total = Infinite THEN NoBuf
                  ELSE [addr |-> buf.addr + used \div ByteBits, size |-> buf.size - used]
        /\ bufOff' = 0
        /\ state' = "TryBeginReadPkt"
        /\ Stop(Item("PktEnd", "", <<>>))
        /\ UNCHANGED <<source, postSkip, toSkip, eventHead, order, scope, stack, scalar, keys,
                       varint, finder, clocks, asked, failed>>

-----------------------------------------------------------------------------
(***************************************************************************)
(* The fields.  A compound field has a frame on the stack from the handler *)
(* before the one of its beginning to the one of its end.                  *)
(***************************************************************************)
BeginReadField ==
    LET fc == Top.fc
        n == CountOf(fc, keys)
        counted == [stack EXCEPT ![Len(stack)].len = n]
        aligned == fc.type \notin {"variant", "optional"}
    IN  /\ Ready("BeginReadField")
        /\ \/ aligned /\ Align(fc)
           \/ /\ ~aligned \/ ~Misaligned(fc)
              /\ IF ~HasSub(fc, keys) THEN Fail
                 ELSE /\ IF n = 0 THEN Go([state |-> Top.restoring, stack |-> stack, scalar |-> scalar])
                         ELSE IF fc.type \in {"bytes", "nullstr"}
                         THEN Go([state |-> IF fc.type = "bytes" THEN "ReadRawData" ELSE "ReadSubstr",
                                  stack |-> counted, scalar |-> scalar])
                         ELSE Go(ToReadField(SubFc(fc, 0, keys), counted))
                      /\ finder' = IF fc.type = "nullstr" THEN <<>> ELSE finder
                      /\ Stop(Item("Begin", fc.type, BeginInfo(fc, keys)))
                      /\ Quiet
                      /\ UNCHANGED <<pkt, head, eventHead, order, scope, keys, varint, clocks>>

\* _handleCommonEndReadCompoundFieldState().
EndReadField ==
    /\ Ready("EndReadField")
    /\ Go(ToReadNextField(Front(stack)))
    /\ Stop(Item("End", Top.fc.type, <<>>))
    /\ Quiet /\ QuietFields /\ UNCHANGED <<pkt, head, eventHead, scope>>

\* Mutant: a timestamp which wrapped around isn't noticed.
UpdateDefClkValNoWrap(clock, val, len) ==
    IF len = WordBits THEN val ELSE (clock - (clock % 2 ^ len)) | val

\* _updateDefClkVal(): the low bits of the clock are replaced; it has
\* wrapped around when they would go back.
UpdateDefClkVal(clock, val, len) ==
    LET unit == 2 ^ len
        next == IF val < clock % unit THEN Wrap(clock + unit) ELSE clock
    IN  IF len = WordBits THEN val ELSE (next - (next % unit)) | val

(***************************************************************************)
(* _handleCommonUIntFieldState(): save the value, do what each role says.  *)
(* The roles with an item of their own lead to the state which sets it.    *)
(***************************************************************************)
RoleState(role) ==
    CASE role = "magic" -> "SetPktMagicNumberItem"
      [] role = "clock" -> "SetDefClkValItem"
      [] OTHER -> "none"

RolePkt(p, role, val) ==
    CASE role = "magic" -> [p EXCEPT !.magic = val]
      [] role = "cls" -> [p EXCEPT !.clsId = val]
      [] role = "id" -> [p EXCEPT !.id = val]
      [] role = "total" -> [p EXCEPT !.total = val]
      [] role = "content" -> [p EXCEPT !.content = val]
      [] role = "end" -> [p EXCEPT !.end = val]
      [] role = "discarded" -> [p EXCEPT !.discarded = val]
      [] role = "seqNum" -> [p EXCEPT !.seqNum = val]
      [] OTHER -> p

UIntField(val, len) ==
    LET states == SelectSeq([i \in DOMAIN scalar.roles |-> RoleState(scalar.roles[i])],
                            LAMBDA s : s # "none")
    IN  /\ keys' = [k \in DOMAIN keys |-> IF k \in scalar.keys THEN val ELSE keys[k]]
        /\ pkt' = FoldLeft(LAMBDA p, role : RolePkt(p, role, val), pkt, scalar.roles)
        /\ clocks' = IF Contains(scalar.roles, "clock")
                     THEN [clocks EXCEPT ![pkt.stream] = UpdateDefClkVal(@, val, len)] ELSE clocks
        /\ IF states = <<>> THEN Go(ToReadNextField(stack))
           ELSE state' = Last(states) /\ UNCHANGED <<stack, scalar>>
        /\ Stop(Item("Int", scalar.type, IntInfo(scalar, val)))

\* _readFixedLenIntField().
ReadFixedLenInt ==
    /\ Ready("ReadFixedLenInt")
    /\ \/ Align(scalar)
       \/ /\ ~Misaligned(scalar)
          /\ IF head % ByteBits # 0 /\ order \notin {"none", scalar.order} THEN Fail
             ELSE /\ UIntField(Bits(trace.data, AtHead, scalar.len, scalar.order), scalar.len)
                  /\ head' = head + scalar.len
                  /\ order' = scalar.order
                  /\ Quiet /\ UNCHANGED <<eventHead, scope, varint, finder>>

\* _handleSetPktMagicNumberItem(), _handleSetDefClkValItem().
SetRoleItem ==
    /\ Ready("SetPktMagicNumberItem") \/ Ready("SetDefClkValItem")
    /\ Go(ToReadNextField(stack))
    /\ Stop(IF state = "SetPktMagicNumberItem" THEN Item("PktMagicNumber", "", <<pkt.magic>>)
            ELSE Item("DefClkVal", "", <<clocks[pkt.stream]>>))
    /\ Quiet /\ QuietFields /\ UNCHANGED <<pkt, head, eventHead, scope>>

(***************************************************************************)
(* _handleCommonVarLenIntFieldState(), one byte at a time: the state is    *)
(* entered again as is after TryAgain.  The roles see the length of 0 that *)
(* _mCurVarLenInt has by then.                                             *)
(***************************************************************************)
Oversized(byte) ==
    /\ varint.len + 7 > WordBits - 1
    /\ byte # 1

ReadVarLenInt ==
    LET byte == trace.data[1 + AtHead \div ByteBits]
        next == [val |-> varint.val + (byte % 128) * 2 ^ varint.len, len |-> varint.len + 7]
    IN  /\ Ready("ReadVarLenInt")
        /\ \/ Align(scalar)
           \/ /\ ~Misaligned(scalar)
              /\ IF Oversized(byte) THEN Fail
                 ELSE /\ head' = head + ByteBits
                      /\ IF byte < 128
                         THEN UIntField(next.val, 0) /\ varint' = NoVarInt
                         ELSE /\ varint' = next
                              /\ Continue
                              /\ UNCHANGED <<state, pkt, stack, scalar, keys, clocks>>
                      /\ Quiet /\ UNCHANGED <<eventHead, order, scope, finder>>

\* The bytes of the buffer from the head.
BytesAtHead(n) == SubSeq(trace.data, 1 + AtHead \div ByteBits, n + AtHead \div ByteBits)
Smallest(a, b) == IF a < b THEN a ELSE b

\* _handleReadRawDataState(): as much as the buffer has.
ReadRawData ==
    LET n == Smallest(RemainingBuf \div ByteBits, Top.len - Top.index)
        next == [stack EXCEPT ![Len(stack)].index = @ + n]
    IN  /\ Ready("ReadRawData")
        /\ IF ByteBits * n > RemainingContent THEN Fail
           ELSE /\ head' = head + ByteBits * n
                /\ stack' = next
                /\ state' = IF Last(next).index = Top.len THEN Top.restoring ELSE state
                /\ Stop(Item("RawData", "", BytesAtHead(n)))
                /\ Quiet /\ QuietFields /\ UNCHANGED <<pkt, eventHead, scope, scalar>>

(***************************************************************************)
(* NullCpFinder::findNullCp(): the end of the first zero code unit of the  *)
(* bytes, of which the first ones complete the unit that kept begins; and  *)
(* the bytes of a code unit to keep for the next buffer.                   *)
(***************************************************************************)
NullCp(kept, bytes, unit) ==
    LET all == kept \o bytes
        ends == {n \in 1 .. Len(all) :
                    n % unit = 0 /\ \A i \in (n - unit + 1) .. n : all[i] = 0}
    IN  IF ends = {} THEN None ELSE Min(ends) - Len(kept)

Unfinished(kept, bytes, unit) ==
    LET all == kept \o bytes
    IN  SubSeq(all, Len(all) - (Len(all) % unit) + 1, Len(all))

\* _handleCommonReadSubstrUntilNullCodepointState().
ReadSubstr ==
    LET avail == BytesAtHead(RemainingBuf \div ByteBits)
        end == NullCp(finder, avail, Top.fc.unit)
        n == IF end = None THEN Len(avail) ELSE end
    IN  /\ Ready("ReadSubstr")
        /\ IF ByteBits * n > RemainingContent THEN Fail
           ELSE /\ head' = head + ByteBits * n
                /\ finder' = Unfinished(finder, SubSeq(avail, 1, n), Top.fc.unit)
                /\ state' = IF end = None THEN state ELSE Top.restoring
                /\ Stop(Item("RawData", "", SubSeq(avail, 1, n)))
                /\ Quiet
                /\ UNCHANGED <<pkt, eventHead, order, scope, stack, scalar, keys, varint, clocks>>

-----------------------------------------------------------------------------
\* A new iterator, or one created at the offset of a packet (seekPkt()).
Init ==
    /\ input \in DOMAIN Traces
    /\ expected = Reference(trace)
    /\ state = IF trace.start = 0 THEN "Init" ELSE "TryBeginReadPkt"
    /\ postSkip = "none" /\ toSkip = 0
    /\ buf = NoBuf /\ bufOff = 0
    /\ pkt = NewPkt(ByteBits * trace.start)
    /\ head = 0 /\ eventHead = 0 /\ order = "none"
    /\ scope = "none" /\ stack = <<>> /\ scalar = NoFc
    /\ keys = [k \in 1 .. 3 |-> 0]
    /\ varint = NoVarInt /\ finder = <<>>
    /\ clocks = [s \in DOMAIN trace.cls.streams |-> 0]
    /\ pending = NoItem /\ item = NoItem /\ items = <<>>
    /\ failed = FALSE /\ lost = FALSE
    /\ asked = [off |-> trace.start, end |-> trace.start]

Handle ==
    \/ Begin \/ TryBeginReadPkt \/ BeginReadPktContent
    \/ TryBeginReadScope \/ EndReadScope
    \/ SetDataStreamInfoItem \/ SetPktInfoItem \/ SetEventRecordInfoItem
    \/ TryBeginReadEventRecord \/ EndReadEventRecord
    \/ BeginReadField \/ EndReadField
    \/ ReadFixedLenInt \/ ReadVarLenInt \/ ReadRawData \/ ReadSubstr \/ SetRoleItem
    \/ SkipPadding \/ EndReadPktContent \/ EndReadPkt
    \/ TooLong

Ended == failed \/ state = "Done"
Terminated == Ended /\ UNCHANGED iterVars

Next == Handle \/ Buf \/ Again \/ Terminated

\* The caller calls next() until the end, and the medium eventually has
\* the data, or reports their end.
Spec == Init /\ [][Next]_iterVars /\ WF_iterVars(Handle) /\ WF_iterVars(Buf)

-----------------------------------------------------------------------------
\* The items to compare: without the one which TryAgain may have lost.
Comparable(seq) ==
    IF lost THEN SelectSeq(seq, LAMBDA i : i.type # "PktContentEnd") ELSE seq

\* Without the raw data item that the next one may continue.
Whole(seq) == IF seq # <<>> /\ Last(seq).type = "RawData" THEN Front(seq) ELSE seq

(***************************************************************************)
(* However the medium cuts the data into buffers, and wherever it asks to  *)
(* try again, the items are the ones that decoding the whole data at once  *)
(* gives; the iterator ends after the last one, and fails only on data     *)
(* that can't be decoded ("EXPECTED ITEM SEQUENCE", item-seq-iter.hpp).    *)
(***************************************************************************)
ItemsAreExpected ==
    LET got == Comparable(items)
        all == Comparable(expected.items)
    IN  /\ IsPrefix(Whole(got), all)
        /\ state = "Done" => expected.ok /\ got = all
        /\ failed => ~expected.ok

(***************************************************************************)
(* The head is always in the buffer or at its end, across packets too: an  *)
(* unsigned _remainingBufLen() would otherwise be huge, and the iterator   *)
(* read past the memory of the medium.                                     *)
(***************************************************************************)
HeadIsInBuffer == bufOff <= head /\ head <= bufOff + buf.size

(***************************************************************************)
(* "MEDIUM GUARANTEES": the offsets of the requests never go back, never   *)
(* skip data, and ask again for less than one field of what a previous     *)
(* buffer had.  A medium may forget what precedes a request.               *)
(***************************************************************************)
RequestsIncrease ==
    [][asked' # asked =>
        /\ asked'.off >= asked.off
        /\ asked'.off <= asked.end
        /\ ByteBits * (asked.end - asked'.off) < WordBits + ByteBits]_iterVars

(***************************************************************************)
(* A timestamp sets the low bits of the clock, as many as its own length   *)
(* ("Set the low bits of the current default clock value"), which for a    *)
(* variable-length integer is "the length of the current variable-length   *)
(* unsigned integer instance" (item-seq-iter.hpp): seven bits when the     *)
(* timestamp takes a single byte.                                          *)
(***************************************************************************)
VarLenTimestampsAreWhole ==
    \A i \in 2 .. Len(items) :
        (/\ items[i].type = "DefClkVal"
         /\ items[i - 1].kind = "varint"
         /\ items[i - 1].info[1] < 128)
        => (items[i].info[1] - items[i - 1].info[1]) % 128 = 0

=============================================================================
