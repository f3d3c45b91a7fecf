------------------------------ MODULE Trimmer ------------------------------
(***************************************************************************)
(* The message iterator of the flt.utils.trimmer component class           *)
(* (src/plugins/utils/trimmer/trimmer.c) between its upstream iterator and *)
(* its downstream user: it finds the date of the bounds which were given   *)
(* without one, makes upstream seek the beginning bound, and passes the    *)
(* messages until one is past the end bound, where it ends every stream    *)
(* itself.                                                                 *)
(*                                                                         *)
(* A call of trimmer_msg_iter_next() goes through up to three state        *)
(* functions; a step is one state function, or one call of upstream inside *)
(* it.  Upstream follows the rules of message.h; once it has sought a      *)
(* time, its messages start at that time with the beginning of every       *)
(* stream and packet which is open there (module MessageIterator).         *)
(***************************************************************************)
EXTENDS MessageSequence, FiniteSets

CONSTANTS DayLength,     \* how long a day is
          MaxMessages,   \* the bound on upstream's messages but the last ends
          BatchSize,     \* the most messages upstream returns at once
          Capacity,      \* the capacity of the array downstream gives
          MaxAgains,     \* the bound on upstream's "try again" answers
          Setups         \* the `begin' and `end' parameters, with the least times
                         \* which the clocks of the streams can tell

ASSUME TrimmerAssumption ==
    /\ DayLength \in Nat \ {0}
    /\ MaxMessages \in Nat /\ MaxAgains \in Nat
    /\ BatchSize \in Nat \ {0} /\ Capacity \in Nat \ {0}

VARIABLES
    clockOrigin,  \* the least time which the clock of a stream can tell, or
                  \* NoTime if its class lacks a clock or clock snapshots
    firstTime,    \* the time of upstream's first message with one
    phase,        \* the phase of each stream in what upstream has sent
    packets,      \* the number of packets of each stream so far
    closed,       \* whether upstream has no more messages
    pending,      \* what upstream returns next
    read,         \* what the trimmer has handled
    begin, end,   \* the bounds of the iterator
    state,        \* enum trimmer_iterator_state
    streamStates, \* the hash table stream_states
    output,       \* the queue output_messages, the oldest message first
    pc,           \* the state function which is running
    status,       \* what the last call returned
    delivered,    \* what downstream got
    agains,       \* the number of "try again" answers so far
    failed        \* the assertion which failed

upVars == <<clockOrigin, firstTime, phase, packets, closed, pending>>
iterVars == <<begin, end, state, streamStates, output>>
vars == <<upVars, read, iterVars, pc, status, delivered, agains, failed>>

-----------------------------------------------------------------------------
(***************************************************************************)
(* Bounds.  A bound is absent, a full time, or a time of day, which a date *)
(* before 1970 also leaves.  The structure of an absent one is zeroed.     *)
(***************************************************************************)
Infinite == [isSet |-> TRUE, isInfinite |-> TRUE, ns |-> 0, time |-> 0]
AtTime(t) == [isSet |-> TRUE, isInfinite |-> FALSE, ns |-> t, time |-> 0]
AtTimeOfDay(t) == [isSet |-> FALSE, isInfinite |-> FALSE, ns |-> 0, time |-> t]

\* init_trimmer_comp_from_params(): what a parameter can be.
GivenBounds ==
    {Infinite} \cup {AtTime(t) : t \in Times}
               \cup {AtTimeOfDay(t) : t \in 0 .. DayLength - 1}

ASSUME SetupsAssumption ==
    Setups \subseteq [begin : GivenBounds, end : GivenBounds, clocks : [Streams -> 0 .. NoTime]]

\* validate_trimmer_bounds().
ValidBounds(b, e) == b.isInfinite \/ e.isInfinite \/ b.ns <= e.ns

\* set_trimmer_iterator_bound(): the date is that of the time t.
SetBound(bound, t) ==
    IF bound.isSet THEN bound
    ELSE [bound EXCEPT !.isSet = TRUE, !.ns = (t \div DayLength) * DayLength + bound.time]

-----------------------------------------------------------------------------
(***************************************************************************)
(* Upstream.                                                               *)
(***************************************************************************)
Sent == read \o pending

HasTime(m) == m.ts # NoTime

\* The least time of what upstream may send next: it does not go back, and
\* starts at the bound it was made to seek.
SoughtTime == IF begin.isInfinite THEN 0 ELSE begin.ns

Timed == SelectSeq(Sent, HasTime)

LowerBound ==
    IF Timed # <<>> THEN Timed[Len(Timed)].ts
    ELSE IF firstTime # NoTime /\ firstTime > SoughtTime THEN firstTime ELSE SoughtTime

\* The message which the date came from comes again, maybe after others
\* without a time.
FirstIsKnown == Timed = <<>> /\ firstTime # NoTime /\ SoughtTime <= firstTime

MessageTimes == {t \in Times : t >= LowerBound /\ (FirstIsKnown => t = firstTime)}

SnapshotTimes(type, s) ==
    {t \in MessageTimes : t >= clockOrigin[s]}
    \cup (IF type \in {"SB", "SE"} THEN {NoTime} ELSE {})

\* The trimmer waits for messages.
Asked == pc = "trim" /\ failed = "no" /\ output = <<>>

\* Upstream has room in the batch.  The ends of what is open always fit.
MayProduce(type) ==
    /\ Asked /\ ~closed
    /\ Len(pending) < BatchSize
    /\ Len(Sent) < MaxMessages \/ type \in {"PE", "SE"}

Produce(m) ==
    /\ pending' = Append(pending, m)
    /\ UNCHANGED <<clockOrigin, firstTime, closed, read, iterVars, pc, status,
                   delivered, agains, failed>>

ProduceMessage(s) ==
    \E type \in LegalTypes(phase[s]) : \E t \in SnapshotTimes(type, s) :
        /\ MayProduce(type)
        /\ type = "PB" => packets[s] < MaxPackets
        /\ phase' = [phase EXCEPT ![s] = PhaseAfter(@, type)]
        /\ packets' = [packets EXCEPT ![s] = @ + (IF type = "PB" THEN 1 ELSE 0)]
        /\ \E e \in IF type \in {"DE", "DP"} THEN t .. MaxTime ELSE {NoTime} :
            LET p == IF type = "PB" THEN packets[s] + 1
                     ELSE IF type \in {"EV", "PE"} /\ phase[s] = "packet"
                          THEN packets[s] ELSE NoPacket
            IN  Produce([Msg(type, s, p, t) EXCEPT !.end = e])

ProduceInactivity ==
    \E t \in MessageTimes :
        /\ MayProduce("IN")
        /\ Produce(Msg("IN", NoStream, NoPacket, t))
        /\ UNCHANGED <<phase, packets>>

Close ==
    /\ Asked /\ ~closed /\ ~FirstIsKnown /\ pending = <<>>
    /\ \A s \in Streams : phase[s] \in {"unborn", "ended"}
    /\ closed' = TRUE
    /\ UNCHANGED <<clockOrigin, firstTime, phase, packets, pending, read,
                   iterVars, pc, status, delivered, agains, failed>>

-----------------------------------------------------------------------------
(***************************************************************************)
(* Handling a message.  The entry of a stream in the hash table is a       *)
(* struct trimmer_iterator_stream_state, or NoEntry.                       *)
(*                                                                         *)
(* acc is what the handling of a batch changes: the hash table, the output *)
(* queue, whether the end was reached, the status, and the assertion which *)
(* failed.                                                                 *)
(***************************************************************************)
NoEntry == [known |-> FALSE, stream |-> FALSE, seen |-> FALSE, packet |-> NoPacket]
NewEntry == [known |-> TRUE, stream |-> TRUE, seen |-> FALSE, packet |-> NoPacket]

Empty == [s \in Streams |-> NoEntry]

Push(acc, m) == [acc EXCEPT !.output = Append(@, m)]

Past(t) == ~end.isInfinite /\ t # NoTime /\ t > end.ns

\* clock_raw_value_from_ns_from_origin() can convert the end bound.
Converts(s) == end.ns >= clockOrigin[s]

\* Mutant: the packet which is open stays so.
EndStreamOnly(acc, s) ==
    LET entry == acc.streams[s]
        t == IF entry.seen THEN end.ns ELSE NoTime
    IN  IF entry.seen /\ ~Converts(s) THEN [acc EXCEPT !.status = "ERROR"]
        ELSE [acc EXCEPT !.output = @ \o <<Msg("SE", s, NoPacket, t)>>,
                         !.streams[s] = [@ EXCEPT !.stream = FALSE, !.packet = NoPacket]]

\* end_stream().
EndStream(acc, s) ==
    LET entry == acc.streams[s]
        t == IF entry.seen THEN end.ns ELSE NoTime
        packetEnd == IF entry.packet = NoPacket THEN <<>>
                     ELSE <<Msg("PE", s, entry.packet, t)>>
    IN  IF ~entry.stream \/ (entry.packet # NoPacket /\ ~entry.seen)
        THEN [acc EXCEPT !.failed = "stream"]
        ELSE IF entry.seen /\ ~Converts(s) THEN [acc EXCEPT !.status = "ERROR"]
        ELSE [acc EXCEPT !.output = @ \o packetEnd \o <<Msg("SE", s, NoPacket, t)>>,
                         !.streams[s] = [@ EXCEPT !.stream = FALSE, !.packet = NoPacket]]

\* The order in which the hash table is gone through.
Orders == {f \in [1 .. Cardinality(Streams) -> Streams] : \A i, j \in DOMAIN f : f[i] = f[j] => i = j}

\* end_iterator_streams(): stops at the first stream which cannot be ended.
EndIteratorStreams(acc, order) ==
    LET ends[i \in 0 .. Len(order)] ==
            IF i = 0 THEN acc
            ELSE IF ends[i - 1].status # "OK" \/ ends[i - 1].failed # "no"
                    \/ ~acc.streams[order[i]].known
                 THEN ends[i - 1]
                 ELSE EndStream(ends[i - 1], order[i])
        ended == IF end.isInfinite THEN acc ELSE ends[Len(order)]
    IN  IF ended.status = "OK" /\ ended.failed = "no"
        THEN [ended EXCEPT !.streams = Empty]
        ELSE ended

ReachEnd(acc, order) == [EndIteratorStreams(acc, order) EXCEPT !.reached = TRUE]

\* Mutant: only events count.
SeenEventsOnly(acc, m) == [acc EXCEPT !.streams[m.stream].seen = @ \/ m.type = "EV"]

\* seen_clock_snapshot.
Seen(acc, m) == [acc EXCEPT !.streams[m.stream].seen = @ \/ HasTime(m)]

\* Discarded items which last beyond the end bound are replaced.
Clip(m) == IF Past(m.end) THEN [m EXCEPT !.end = end.ns] ELSE m

\* create_stream_state_entry().
CreateEntry(acc, s) ==
    IF acc.streams[s].known THEN [acc EXCEPT !.failed = "stream"]
    ELSE IF clockOrigin[s] = NoTime THEN [acc EXCEPT !.status = "ERROR"]
    ELSE [acc EXCEPT !.streams[s] = NewEntry]

\* Mutant: what is at the end bound is already out.
HandleMessageWithStreamStrict(acc, m, order) ==
    IF HasTime(m) /\ ~end.isInfinite /\ m.ts >= end.ns
    THEN ReachEnd(acc, order)
    ELSE CASE m.type = "SB" -> Push(Seen(CreateEntry(acc, m.stream), m), m)
           [] m.type = "SE" -> Push([acc EXCEPT !.streams[m.stream] = NoEntry], m)
           [] m.type \in {"PB", "PE"} ->
                Push([Seen(acc, m) EXCEPT !.streams[m.stream].packet =
                         IF m.type = "PB" THEN m.packet ELSE NoPacket], m)
           [] OTHER -> Push(Seen(acc, m), Clip(m))

\* handle_message_with_stream().  Discarded items mark their stream before
\* they are compared with the end bound.
HandleMessageWithStream(acc, m, order) ==
    LET s == m.stream
        fail == [acc EXCEPT !.failed = "stream"]
        begun == CreateEntry(acc, s)
    IN  CASE m.type # "SB" /\ ~acc.streams[s].known -> fail
          [] m.type = "PB" /\ acc.streams[s].packet # NoPacket -> fail
          [] m.type = "PE" /\ acc.streams[s].packet = NoPacket -> fail
          [] OTHER ->
                IF Past(m.ts)
                THEN ReachEnd(IF m.type \in {"DE", "DP"} THEN Seen(acc, m) ELSE acc, order)
                ELSE CASE m.type = "SB" ->
                            IF begun.status # "OK" \/ begun.failed # "no" THEN begun
                            ELSE Push(Seen(begun, m), m)
                       [] m.type = "SE" ->
                            Push([acc EXCEPT !.streams[s] = NoEntry], m)
                       [] m.type \in {"PB", "PE"} ->
                            Push([Seen(acc, m) EXCEPT !.streams[s].packet =
                                     IF m.type = "PB" THEN m.packet ELSE NoPacket], m)
                       [] OTHER -> Push(Seen(acc, m), Clip(m))

\* handle_message().  The time of an inactivity message is compared with the
\* end bound even if this is infinite, and its field zero.
HandleMessage(acc, m, order) ==
    IF m.stream # NoStream THEN HandleMessageWithStream(acc, m, order)
    ELSE IF m.ts > end.ns THEN ReachEnd(acc, order)
    ELSE Push(acc, m)

\* The loop of state_trim() over a batch.
HandleBatch(order) ==
    LET h[i \in 0 .. Len(pending)] ==
            IF i = 0
            THEN [streams |-> streamStates, output |-> output, reached |-> FALSE,
                  status |-> "OK", failed |-> "no", count |-> 0]
            ELSE IF h[i - 1].reached \/ h[i - 1].status # "OK" \/ h[i - 1].failed # "no"
                 THEN h[i - 1]
                 ELSE [HandleMessage(h[i - 1], pending[i], order) EXCEPT !.count = i]
    IN  h[Len(pending)]

-----------------------------------------------------------------------------
(***************************************************************************)
(* trimmer_msg_iter_next() and the state functions.                        *)
(***************************************************************************)
Running(where) == pc = where /\ failed = "no"

Return(st) == pc' = "idle" /\ status' = st

\* Downstream does not call again after the end or an error.
NextCall ==
    /\ Running("idle") /\ status \notin {"END", "ERROR"}
    /\ pc' = CASE state = "SET_BOUNDS_NS_FROM_ORIGIN" -> "bounds"
               [] state = "SEEK_INITIALLY" -> "seek"
               [] state = "TRIM" -> "trim"
               [] state = "ENDING" -> "ending"
    /\ UNCHANGED <<upVars, read, iterVars, status, delivered, agains, failed>>

\* state_set_trimmer_iterator_bounds(): the first message with a time comes at
\* time t.  The state stays the same.
SetBoundsFound(t) ==
    /\ Running("bounds")
    /\ ~(begin.isSet /\ end.isSet)
    /\ firstTime \in {NoTime, t}
    /\ firstTime' = t
    /\ begin' = SetBound(begin, t)
    /\ end' = SetBound(end, t)
    /\ IF ValidBounds(begin', end') THEN pc' = "seek" /\ UNCHANGED status
       ELSE Return("ERROR")
    /\ UNCHANGED <<clockOrigin, phase, packets, closed, pending, read,
                   state, streamStates, output, delivered, agains, failed>>

Again(st) == agains' = IF st = "AGAIN" THEN agains + 1 ELSE agains

\* What upstream may answer instead of messages.
Refusals == {"ERROR"} \cup (IF agains < MaxAgains THEN {"AGAIN"} ELSE {})

\* Upstream has no message with a time, or does not answer.
SetBoundsReturns(st) ==
    /\ Running("bounds")
    /\ ~(begin.isSet /\ end.isSet)
    /\ Return(st)
    /\ Again(st)
    /\ UNCHANGED <<upVars, read, iterVars, delivered, failed>>

\* The assertion at the top of state_set_trimmer_iterator_bounds().
SetBoundsAsserts ==
    /\ Running("bounds")
    /\ begin.isSet /\ end.isSet
    /\ failed' = "bounds"
    /\ UNCHANGED <<upVars, read, iterVars, pc, status, delivered, agains>>

\* state_seek_initially().
Seek ==
    /\ Running("seek")
    /\ state' = "TRIM"
    /\ pc' = "trim"
    /\ UNCHANGED <<upVars, read, begin, end, streamStates, output, status, delivered,
                   agains, failed>>

SeekReturns(st) ==
    /\ Running("seek")
    /\ Return(st)
    /\ Again(st)
    /\ UNCHANGED <<upVars, read, iterVars, delivered, failed>>

\* fill_message_array_from_output_messages().
Fill(out) ==
    LET n == IF Len(out) < Capacity THEN Len(out) ELSE Capacity
    IN  /\ delivered' = delivered \o SubSeq(out, 1, n)
        /\ output' = SubSeq(out, n + 1, Len(out))
        /\ Return("OK")

\* state_ending() with the messages out in the queue.
StateEnding(out) ==
    IF out = <<>>
    THEN /\ state' = "ENDED"
         /\ Return("END")
         /\ UNCHANGED <<output, delivered>>
    ELSE /\ state' = "ENDING"
         /\ Fill(out)

\* state_trim(): messages of an earlier batch are left.
TrimQueue ==
    /\ Running("trim") /\ output # <<>>
    /\ Fill(output)
    /\ UNCHANGED <<upVars, read, begin, end, state, streamStates, agains, failed>>

\* state_trim() after upstream returned the batch `pending', or its end; what is
\* left of a batch after the end bound or an error is dropped.
Trim(order) ==
    /\ Asked
    /\ pending # <<>> \/ closed
    /\ LET batch == HandleBatch(order)
           h == IF pending # <<>> THEN batch ELSE ReachEnd(batch, order)
       IN  /\ streamStates' = h.streams
           /\ failed' = h.failed
           /\ read' = read \o SubSeq(pending, 1, batch.count)
           /\ IF h.failed # "no" \/ h.status # "OK"
              THEN Return("ERROR") /\ output' = h.output /\ UNCHANGED <<state, delivered>>
              ELSE IF h.reached THEN StateEnding(h.output)
              ELSE Fill(h.output) /\ UNCHANGED state
    /\ pending' = <<>>
    /\ UNCHANGED <<clockOrigin, firstTime, phase, packets, closed, begin, end,
                   agains>>

TrimReturns(st) ==
    /\ Asked
    /\ pending = <<>> /\ ~closed
    /\ Return(st)
    /\ Again(st)
    /\ UNCHANGED <<upVars, read, iterVars, delivered, failed>>

Ending ==
    /\ Running("ending")
    /\ StateEnding(output)
    /\ UNCHANGED <<upVars, read, begin, end, streamStates, agains, failed>>

-----------------------------------------------------------------------------
\* trimmer_init() and trimmer_msg_iter_init().
Init ==
    /\ \E setup \in Setups :
        clockOrigin = setup.clocks /\ begin = setup.begin /\ end = setup.end
    /\ firstTime = NoTime
    /\ phase = [s \in Streams |-> "unborn"]
    /\ packets = [s \in Streams |-> 0]
    /\ closed = FALSE
    /\ pending = <<>> /\ read = <<>>
    /\ begin.isSet /\ end.isSet => ValidBounds(begin, end)
    /\ state = IF begin.isSet /\ end.isSet THEN "SEEK_INITIALLY"
               ELSE "SET_BOUNDS_NS_FROM_ORIGIN"
    /\ streamStates = Empty
    /\ output = <<>>
    /\ pc = "idle" /\ status = "NONE"
    /\ delivered = <<>>
    /\ agains = 0
    /\ failed = "no"

Next ==
    \/ \E s \in Streams : ProduceMessage(s)
    \/ ProduceInactivity \/ Close
    \/ NextCall
    \/ \E t \in Times : SetBoundsFound(t)
    \/ \E st \in Refusals \cup {"END"} : SetBoundsReturns(st)
    \/ SetBoundsAsserts
    \/ Seek
    \/ \E st \in Refusals : SeekReturns(st) \/ TrimReturns(st)
    \/ TrimQueue \/ Ending
    \/ \E order \in Orders : Trim(order)

Spec == Init /\ [][Next]_vars

-----------------------------------------------------------------------------
(***************************************************************************)
(* Properties.                                                             *)
(***************************************************************************)
Out == delivered \o output

\* The phase of stream s after the messages of a sequence.
PhaseIn(msgs, s) ==
    LET p[i \in 0 .. Len(msgs)] ==
            IF i = 0 THEN "unborn"
            ELSE IF msgs[i].stream = s THEN PhaseAfter(p[i - 1], msgs[i].type)
            ELSE p[i - 1]
    IN  p

(***************************************************************************)
(* An inactivity message after time zero ends the trimming even if there   *)
(* is no end bound (see HandleMessage): the properties leave it out.       *)
(***************************************************************************)
CutByInactivity ==
    end.isInfinite /\ \E i \in DOMAIN read : read[i].stream = NoStream /\ read[i].ts > 0

\* The messages of each stream come out in an order the rules of message.h
\* allow, those with which the trimmer ends a stream included, and clock
\* snapshots do not go back.  When downstream gets the end, every stream which
\* began has ended: the postcondition of the library on the end.
OutputIsLegal ==
    /\ \A s \in Streams : \A i \in DOMAIN Out :
          Out[i].stream = s => Out[i].type \in LegalTypes(PhaseIn(Out, s)[i - 1])
    /\ LET timed == SelectSeq(Out, HasTime)
       IN  \A i, j \in DOMAIN timed : i < j => timed[i].ts <= timed[j].ts
    /\ status = "END" /\ ~CutByInactivity =>
          \A s \in Streams : PhaseIn(Out, s)[Len(Out)] \in {"unborn", "ended"}

\* The messages up to the first one past the end bound.
Kept ==
    LET past == {i \in DOMAIN read : Past(read[i].ts)}
    IN  SubSeq(read, 1, IF past = {} THEN Len(read)
                        ELSE (CHOOSE i \in past : \A j \in past : i <= j) - 1)

\* A time of the trimming range, if it is a time.
InRange(ts) ==
    ts # NoTime => ~Past(ts) /\ (~begin.isInfinite => ts >= begin.ns)

\* Stream s had a message in the range with a clock snapshot, or ends because of
\* discarded items past the range, which end_stream() takes for one.
WasActive(s) ==
    \/ \E j \in DOMAIN Kept : Kept[j].stream = s /\ HasTime(Kept[j])
    \/ read[Len(read)].type \in {"DE", "DP"} /\ read[Len(read)].stream = s

\* Everything which upstream sends in the trimming range goes out, once and in
\* order, the times of discarded items cut to the range; what follows it are
\* the ends of the streams and packets which were open, with a clock snapshot
\* only where "we know the stream was active at that time" (comment of
\* end_stream()); and nothing is read beyond the first message past the range.
\* Nothing has a time outside the range (man page: "discards all the consumed
\* messages with a time less than a given beginning time and greater than a
\* given end time"), what the trimmer makes or alters included.
TrimIsExact ==
    /\ \A i \in DOMAIN Out :
          /\ HasTime(Out[i]) => InRange(Out[i].ts)
          /\ InRange(Out[i].end)
          /\ i > Len(Kept) /\ HasTime(Out[i]) => WasActive(Out[i].stream)
    /\ ~CutByInactivity =>
          /\ status # "ERROR" =>
               /\ Len(Out) >= Len(Kept)
               /\ \A i \in DOMAIN Kept :
                     Out[i] = [Kept[i] EXCEPT !.end = IF @ # NoTime /\ Past(@) THEN end.ns ELSE @]
          /\ \A i \in DOMAIN Out : i > Len(Kept) => Out[i].type \in {"PE", "SE"}
          /\ Len(read) <= Len(Kept) + 1

\* The assertions on stream states hold.  The one on bounds fails only when
\* upstream asked to try the initial seek again, which leaves the iterator in
\* the state where it looks for the date.
NoAssertionFails ==
    /\ failed # "stream"
    /\ failed = "bounds" => agains > 0
=============================================================================
