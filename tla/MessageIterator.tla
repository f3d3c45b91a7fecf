-------------------------- MODULE MessageIterator --------------------------
(***************************************************************************)
(* A message iterator (src/lib/graph/iterator.c): getting messages,        *)
(* seeking the beginning, seeking a time, and the automatic seek which the *)
(* library falls back to when the iterator cannot seek a time by itself:   *)
(* seek the beginning, call the user's "next" method until a message at or *)
(* after the wanted time comes out, and replay before it the beginning of  *)
(* every stream and packet which is open at that time.                     *)
(*                                                                         *)
(* The developer mode build is modelled: its postconditions on what the    *)
(* "next" method returns abort the program, which `failed' records.        *)
(***************************************************************************)
EXTENDS MessageSequence, FiniteSets, Functions

CONSTANTS MaxMessages,    \* the bound on the messages of the trace
          BatchSize,      \* MSG_BATCH_SIZE
          MaxSeeks,       \* the bound on the seek operations
          SelfSeekable    \* the times the user's iterator can seek by itself

ASSUME IteratorAssumption ==
    /\ MaxMessages \in Nat /\ MaxSeeks \in Nat
    /\ BatchSize \in Nat \ {0}
    /\ SelfSeekable \subseteq Times

VARIABLES
    content,    \* the messages of the trace, as far as they are known
    phase,      \* the phase of each stream at the end of content
    packets,    \* the number of packets of each stream so far
    closed,     \* whether the trace has no more messages
    prefix,     \* what the user's iterator returns before going on at pos
    pos,        \* where the user's iterator is in content
    state,      \* enum bt_message_iterator_state
    lastNs,     \* last_ns_from_origin
    perStream,  \* per_stream_state: the expectations on each stream
    autoMsgs,   \* auto_seek.msgs
    swapped,    \* methods.next is post_auto_seek_next()
    forward,    \* the locals of a fast-forward in progress
    seeks,      \* the number of seek operations so far
    undrained,  \* whether messages of an automatic seek were waiting at the last seek
    sought,     \* where the last successful seek went
    delivered,  \* what downstream got since then
    failed      \* the kind of assertion which failed

upVars == <<content, phase, packets, closed>>
iterVars == <<prefix, pos, state, lastNs, perStream, autoMsgs, swapped, forward>>
seekVars == <<seeks, undrained>>
vars == <<upVars, iterVars, seekVars, sought, delivered, failed>>

IteratorStates == {"ACTIVE", "ENDED", "LAST_SEEKING_RETURNED_AGAIN",
                   "LAST_SEEKING_RETURNED_ERROR"}

Beginning == MaxTime + 1
Nowhere == MaxTime + 2

\* struct auto_seek_stream_state, and a stream without one.
NoSeekState == [open |-> FALSE, packet |-> NoPacket, seen |-> FALSE]
SeekState == [open : BOOLEAN, packet : 0 .. MaxPackets, seen : BOOLEAN]
NoForward == [on |-> FALSE, ns |-> 0, states |-> [s \in Streams |-> NoSeekState]]

Busy == forward.on

-----------------------------------------------------------------------------
(***************************************************************************)
(* The trace, which the user's iterator reads.  Its messages follow the    *)
(* rules of message.h; they are fixed as the iterator comes to need them,  *)
(* and are the same after a seek.                                          *)
(***************************************************************************)
LastTime ==
    LET timed == {i \in DOMAIN content : content[i].ts # NoTime}
    IN  IF timed = {} THEN 0
        ELSE content[CHOOSE i \in timed : \A j \in timed : j <= i].ts

Times_(type) == IF HasSnapshot(type) THEN LastTime .. MaxTime ELSE {NoTime}

Needed == ~closed /\ Len(content) < MaxMessages /\ Len(content) - pos + 1 < BatchSize

ProduceMessage(s) ==
    /\ Needed
    /\ \E type \in LegalTypes(phase[s]) : \E t \in Times_(type) :
        /\ type = "PB" => packets[s] < MaxPackets
        /\ \E e \in IF type \in {"DE", "DP"} /\ t # NoTime THEN t .. MaxTime ELSE {NoTime} :
            LET p == IF type = "PB" THEN packets[s] + 1
                     ELSE IF type \in {"EV", "PE"} /\ phase[s] = "packet"
                          THEN packets[s] ELSE NoPacket
            IN  content' = Append(content, [Msg(type, s, p, t) EXCEPT !.end = e])
        /\ phase' = [phase EXCEPT ![s] = PhaseAfter(@, type)]
        /\ packets' = [packets EXCEPT ![s] = @ + (IF type = "PB" THEN 1 ELSE 0)]
    /\ UNCHANGED <<closed, iterVars, seekVars, sought, delivered, failed>>

ProduceInactivity ==
    /\ Needed
    /\ \E t \in LastTime .. MaxTime : content' = Append(content, Msg("IN", NoStream, NoPacket, t))
    /\ UNCHANGED <<phase, packets, closed, iterVars, seekVars, sought, delivered, failed>>

Close ==
    /\ ~closed
    /\ \A s \in Streams : phase[s] \in {"unborn", "ended"}
    /\ closed' = TRUE
    /\ UNCHANGED <<content, phase, packets, iterVars, seekVars, sought, delivered, failed>>

\* What the user's iterator has not returned yet.
Available == prefix \o SubSeq(content, pos, Len(content))

\* The user's "next" method returns the first n of them.
Take(n) ==
    /\ prefix' = SubSeq(prefix, n + 1, Len(prefix))
    /\ pos' = IF n > Len(prefix) THEN pos + n - Len(prefix) ELSE pos

-----------------------------------------------------------------------------
(***************************************************************************)
(* call_iterator_next_method(): the postconditions on what the installed   *)
(* "next" method returns.                                                  *)
(***************************************************************************)
NoExpectation == [s \in Streams |-> NewStreamState]

CheckMessage(chk, m) ==
    LET inOrder == m.ts = NoTime \/ m.ts >= chk.last
        ofStream == m.stream # NoStream
    IN  [ok |-> chk.ok /\ inOrder /\ (ofStream => IsExpected(chk.streams[m.stream], m)),
         last |-> IF m.ts = NoTime THEN chk.last ELSE m.ts,
         streams |-> IF ofStream
                     THEN [chk.streams EXCEPT ![m.stream] = AfterMessage(@, m)]
                     ELSE chk.streams]

CheckFrom(start, b) ==
    LET chk[i \in 0 .. Len(b)] ==
            IF i = 0 THEN start ELSE CheckMessage(chk[i - 1], b[i])
    IN  chk[Len(b)]

CheckBatch(b) == CheckFrom([ok |-> TRUE, last |-> lastNs, streams |-> perStream], b)

\* assert_post_dev_next() for the status END.
StreamsAreEnded ==
    \A s \in Streams : perStream[s] = NewStreamState \/ perStream[s].expected = {}

Require(condition, kind) == failed' = IF condition THEN failed ELSE kind

\* The messages b reach downstream.
Deliver(b) ==
    LET chk == CheckBatch(b)
    IN  /\ lastNs' = chk.last
        /\ perStream' = chk.streams
        /\ delivered' = delivered \o b

MayCall == failed = "none" /\ ~Busy

(***************************************************************************)
(* bt_message_iterator_next().  The statuses AGAIN and ERROR of the user's *)
(* method go downstream and change nothing here.                           *)
(***************************************************************************)
NextFromUser(n) ==
    /\ MayCall /\ state = "ACTIVE" /\ ~swapped
    /\ n <= Len(Available)
    /\ LET b == SubSeq(Available, 1, n)
       IN  Deliver(b) /\ Require(CheckBatch(b).ok, "post")
    /\ Take(n)
    /\ UNCHANGED <<upVars, state, autoMsgs, swapped, forward, seekVars, sought>>

NextEnds ==
    /\ MayCall /\ state = "ACTIVE" /\ ~swapped
    /\ closed /\ Available = <<>>
    /\ Require(StreamsAreEnded, "post")
    /\ state' = "ENDED"
    /\ UNCHANGED <<upVars, prefix, pos, lastNs, perStream, autoMsgs, swapped, forward,
                   seekVars, sought, delivered>>

\* Whether post_auto_seek_next() stays installed when `left' are left.
\* Mutant: it is never uninstalled.
StillSwappedForEver(left) == TRUE

StillSwapped(left) == left # <<>>

\* post_auto_seek_next(): the first messages of the queue, at most a batch;
\* the user's method comes back with the last of them.
NextFromQueue ==
    /\ MayCall /\ state = "ACTIVE" /\ swapped
    /\ LET n == IF Len(autoMsgs) < BatchSize THEN Len(autoMsgs) ELSE BatchSize
           b == SubSeq(autoMsgs, 1, n)
           left == SubSeq(autoMsgs, n + 1, Len(autoMsgs))
       IN  /\ Require(n > 0 /\ CheckBatch(b).ok, IF n = 0 THEN "assert" ELSE "post")
           /\ Deliver(b)
           /\ autoMsgs' = left
           /\ swapped' = StillSwapped(left)
    /\ UNCHANGED <<upVars, prefix, pos, state, forward, seekVars, sought>>

-----------------------------------------------------------------------------
(***************************************************************************)
(* Seeking.  set_iterator_state_after_seeking() and what all the seeks do. *)
(***************************************************************************)
MaySeek ==
    /\ MayCall /\ seeks < MaxSeeks
    /\ undrained' = swapped

SeekFailures == {"AGAIN", "ERROR"}

StateAfter(status) ==
    CASE status = "OK" -> "ACTIVE"
      [] status = "AGAIN" -> "LAST_SEEKING_RETURNED_AGAIN"
      [] status = "ERROR" -> "LAST_SEEKING_RETURNED_ERROR"

Sought(where) ==
    /\ sought' = where
    /\ delivered' = <<>>

\* Mutant: what the user's iterator replays after a seek of a time stays.
CallSeekBeginningReplays == pos' = 1 /\ UNCHANGED prefix

\* The user's "seek beginning" method is called, and seeks.
CallSeekBeginning == prefix' = <<>> /\ pos' = 1

\* bt_message_iterator_seek_beginning().
SeekBeginning ==
    /\ MaySeek
    /\ CallSeekBeginning
    /\ lastNs' = 0
    /\ perStream' = NoExpectation
    /\ state' = StateAfter("OK")
    /\ seeks' = seeks + 1
    /\ Sought(Beginning)
    /\ UNCHANGED <<upVars, autoMsgs, swapped, forward, failed>>

\* The user's "seek beginning" method failed, in a seek of the beginning or
\* of a time.
SeekBeginningFails(status) ==
    /\ MaySeek
    /\ lastNs' = 0
    /\ perStream' = NoExpectation
    /\ state' = StateAfter(status)
    /\ seeks' = seeks + 1
    /\ Sought(Nowhere)
    /\ UNCHANGED <<upVars, prefix, pos, autoMsgs, swapped, forward, failed>>

-----------------------------------------------------------------------------
(***************************************************************************)
(* The messages which put the streams of a set S, in some order, in the    *)
(* state they have at the time ns: the beginning of each, and that of its  *)
(* packet.  The order is that of a hash table.                             *)
(***************************************************************************)
Orders(S) == UNION {Bijection(1 .. n, S) : n \in 0 .. Cardinality(S)}

\* Mutant: the open packet is forgotten.
ReplayOneStreamOnly(s, st, ns) ==
    <<Msg("SB", s, NoPacket, IF st.seen THEN ns ELSE NoTime)>>

ReplayOne(s, st, ns) ==
    <<Msg("SB", s, NoPacket, IF st.seen THEN ns ELSE NoTime)>>
    \o IF st.packet = NoPacket THEN <<>>
       ELSE <<Msg("PB", s, st.packet, IF Class.beginCs THEN ns ELSE NoTime)>>

Replay(order, states, ns) ==
    LET r[i \in 0 .. Len(order)] ==
            IF i = 0 THEN <<>> ELSE r[i - 1] \o ReplayOne(order[i], states[order[i]], ns)
    IN  r[Len(order)]

(***************************************************************************)
(* A user's iterator which can seek a time by itself goes to the first     *)
(* message at or after it and replays what is open there, if the trace     *)
(* is known far enough.                                                    *)
(***************************************************************************)
Reaches(i, ns) == content[i].ts # NoTime /\ content[i].ts >= ns

FirstAt(ns) ==
    CHOOSE k \in 1 .. Len(content) + 1 :
        /\ k <= Len(content) => Reaches(k, ns)
        /\ \A i \in 1 .. k - 1 : ~Reaches(i, ns)

\* Where the messages b have one of the given type of the stream s.
Places(b, s, type) == {i \in 1 .. Len(b) : b[i].stream = s /\ b[i].type = type}

\* Where they begin a packet of s which they don't end.
Begun(b, s) == {i \in Places(b, s, "PB") : \A j \in Places(b, s, "PE") : j < i}

StateAfterAll(b, s) ==
    [open |-> Places(b, s, "SB") # {} /\ Places(b, s, "SE") = {},
     packet |-> IF Begun(b, s) = {} THEN NoPacket ELSE b[CHOOSE i \in Begun(b, s) : TRUE].packet,
     seen |-> \E i \in 1 .. Len(b) : b[i].stream = s /\ b[i].ts # NoTime]

UserSeeksNs(ns) ==
    LET k == FirstAt(ns)
        states == [s \in Streams |-> StateAfterAll(SubSeq(content, 1, k - 1), s)]
    IN  /\ k <= Len(content) \/ closed
        /\ pos' = k
        /\ \E order \in Orders({s \in Streams : states[s].open}) :
               prefix' = Replay(order, states, ns)

\* bt_message_iterator_seek_ns_from_origin() when the iterator can do it.
SeekNsByItself(ns) ==
    /\ MaySeek /\ ns \in SelfSeekable
    /\ UserSeeksNs(ns)
    /\ perStream' = NoExpectation
    /\ lastNs' = ns
    /\ state' = StateAfter("OK")
    /\ seeks' = seeks + 1
    /\ Sought(ns)
    /\ UNCHANGED <<upVars, autoMsgs, swapped, forward, failed>>

\* The user's "seek" method for a time failed: the expectations are those which
\* follow a seek of that time all the same.
SeekNsFails(ns, status) ==
    /\ MaySeek /\ ns \in SelfSeekable
    /\ perStream' = NoExpectation
    /\ lastNs' = ns
    /\ state' = StateAfter(status)
    /\ seeks' = seeks + 1
    /\ Sought(Nowhere)
    /\ UNCHANGED <<upVars, prefix, pos, autoMsgs, swapped, forward, failed>>

\* The user's "can seek" method for a time failed.
CanSeekNsFails(status) ==
    /\ MaySeek
    /\ lastNs' = 0
    /\ state' = StateAfter(status)
    /\ seeks' = seeks + 1
    /\ Sought(Nowhere)
    /\ UNCHANGED <<upVars, prefix, pos, perStream, autoMsgs, swapped, forward, failed>>

-----------------------------------------------------------------------------
(***************************************************************************)
(* The automatic seek: bt_message_iterator_seek_ns_from_origin() up to the *)
(* call of find_message_ge_ns_from_origin(), which makes the iterator      *)
(* active for the time of the fast-forward.                                *)
(***************************************************************************)
AutoSeek(ns) ==
    /\ MaySeek /\ ns \notin SelfSeekable
    /\ CallSeekBeginning
    /\ lastNs' = 0
    /\ perStream' = NoExpectation
    /\ autoMsgs' = <<>>
    /\ forward' = [NoForward EXCEPT !.on = TRUE, !.ns = ns]
    /\ state' = "ACTIVE"
    /\ seeks' = seeks + 1
    /\ Sought(Nowhere)
    /\ UNCHANGED <<upVars, swapped, failed>>

\* auto_seek_handle_message() for a message which is not sent downstream.
SkipMessage(states, m) ==
    CASE m.type = "SB" -> [states EXCEPT ![m.stream] =
                               [open |-> TRUE, packet |-> NoPacket, seen |-> m.ts # NoTime]]
      [] m.type = "SE" -> [states EXCEPT ![m.stream] = NoSeekState]
      [] m.type = "PB" -> [states EXCEPT ![m.stream].packet = m.packet,
                                         ![m.stream].seen = @ \/ Class.beginCs]
      [] m.type = "PE" -> [states EXCEPT ![m.stream].packet = NoPacket,
                                         ![m.stream].seen = @ \/ Class.endCs]
      [] m.type = "EV" -> [states EXCEPT ![m.stream].seen = TRUE]
      [] m.type \in {"DE", "DP"} -> [states EXCEPT ![m.stream].seen = @ \/ HasSnapshot(m.type)]
      [] OTHER -> states

\* Discarded items which begin before the time ns and end after it.
Straddles(m, ns) == m.type \in {"DE", "DP"} /\ m.ts # NoTime /\ m.end >= ns

\* Mutant: the rest of the batch of the first message is dropped.
HandleMessageFirstOnly(acc, m, ns) ==
    IF acc.gotFirst THEN acc
    ELSE IF m.ts # NoTime /\ m.ts >= ns
    THEN [acc EXCEPT !.gotFirst = TRUE, !.msgs = Append(@, m)]
    ELSE IF Straddles(m, ns)
    THEN [acc EXCEPT !.msgs = Append(@, [m EXCEPT !.ts = ns])]
    ELSE [acc EXCEPT !.states = SkipMessage(@, m)]

\* One turn of the loop of find_message_ge_ns_from_origin() over a batch,
\* auto_seek_handle_message() included.
HandleMessage(acc, m, ns) ==
    IF acc.gotFirst \/ (m.ts # NoTime /\ m.ts >= ns)
    THEN [acc EXCEPT !.gotFirst = TRUE, !.msgs = Append(@, m)]
    ELSE IF Straddles(m, ns)
    THEN [acc EXCEPT !.msgs = Append(@, [m EXCEPT !.ts = ns])]
    ELSE [acc EXCEPT !.states = SkipMessage(@, m)]

HandleFrom(start, b, ns) ==
    LET h[i \in 0 .. Len(b)] ==
            IF i = 0 THEN start ELSE HandleMessage(h[i - 1], b[i], ns)
    IN  h[Len(b)]

HandleBatch(b) ==
    HandleFrom([gotFirst |-> FALSE, msgs |-> autoMsgs, states |-> forward.states], b, forward.ns)

\* The end of bt_message_iterator_seek_ns_from_origin(), after a fast-forward
\* which found its message or the end of the trace.
FinishSeek(msgs, states) ==
    /\ \E order \in Orders({s \in Streams : states[s].open}) :
           autoMsgs' = Replay(order, states, forward.ns) \o msgs
    /\ swapped' = (autoMsgs' # <<>>)
    /\ perStream' = NoExpectation
    /\ lastNs' = forward.ns
    /\ state' = StateAfter("OK")
    /\ Sought(forward.ns)
    /\ forward' = NoForward
    /\ UNCHANGED <<upVars, seekVars>>

\* The user's "next" method returns n messages to the fast-forward.
FastForward(n) ==
    /\ failed = "none" /\ Busy /\ ~swapped
    /\ n <= Len(Available)
    /\ LET b == SubSeq(Available, 1, n)
           h == HandleBatch(b)
           chk == CheckBatch(b)
       IN  /\ Require(chk.ok, "post")
           /\ \/ h.gotFirst /\ FinishSeek(h.msgs, h.states)
              \/ /\ ~h.gotFirst
                 /\ autoMsgs' = h.msgs
                 /\ forward' = [forward EXCEPT !.states = h.states]
                 /\ lastNs' = chk.last /\ perStream' = chk.streams
                 /\ UNCHANGED <<upVars, state, swapped, seekVars, sought, delivered>>
    /\ Take(n)

FastForwardEnds ==
    /\ failed = "none" /\ Busy /\ ~swapped
    /\ closed /\ Available = <<>>
    /\ Require(StreamsAreEnded, "post")
    /\ FinishSeek(autoMsgs, forward.states)
    /\ UNCHANGED <<prefix, pos>>

FastForwardFails(status) ==
    /\ failed = "none" /\ Busy /\ ~swapped
    /\ forward' = NoForward
    /\ state' = StateAfter(status)
    /\ UNCHANGED <<upVars, prefix, pos, lastNs, perStream, autoMsgs, swapped,
                   seekVars, sought, delivered, failed>>

\* The fast-forward calls post_auto_seek_next(), which a previous automatic
\* seek installed, on the queue it has just emptied.
FastForwardFromQueue ==
    /\ failed = "none" /\ Busy /\ swapped
    /\ Require(autoMsgs # <<>>, "assert")
    /\ UNCHANGED <<upVars, iterVars, seekVars, sought, delivered>>

-----------------------------------------------------------------------------
Init ==
    /\ content = <<>> /\ closed = FALSE
    /\ phase = [s \in Streams |-> "unborn"]
    /\ packets = [s \in Streams |-> 0]
    /\ prefix = <<>> /\ pos = 1
    /\ state = "ACTIVE"
    /\ lastNs = 0
    /\ perStream = NoExpectation
    /\ autoMsgs = <<>> /\ swapped = FALSE
    /\ forward = NoForward
    /\ seeks = 0 /\ undrained = FALSE /\ sought = Beginning
    /\ delivered = <<>>
    /\ failed = "none"

Next ==
    \/ \E s \in Streams : ProduceMessage(s)
    \/ ProduceInactivity
    \/ Close
    \/ \E n \in 1 .. BatchSize : NextFromUser(n) \/ FastForward(n)
    \/ NextEnds \/ NextFromQueue
    \/ SeekBeginning
    \/ \E status \in SeekFailures :
           \/ SeekBeginningFails(status) \/ CanSeekNsFails(status) \/ FastForwardFails(status)
           \/ \E ns \in Times : SeekNsFails(ns, status)
    \/ \E ns \in Times : SeekNsByItself(ns) \/ AutoSeek(ns)
    \/ FastForwardEnds \/ FastForwardFromQueue

Spec == Init /\ [][Next]_vars

-----------------------------------------------------------------------------
(***************************************************************************)
(* Properties.                                                             *)
(***************************************************************************)
\* Every variable has the type of the C field or local it stands for.
TypeOK ==
    /\ content \in Seq(Message) /\ prefix \in Seq(Message) /\ autoMsgs \in Seq(Message)
    /\ delivered \in Seq(Message)
    /\ phase \in [Streams -> Phases]
    /\ packets \in [Streams -> 0 .. MaxPackets]
    /\ closed \in BOOLEAN /\ swapped \in BOOLEAN
    /\ pos \in Nat \ {0}
    /\ state \in IteratorStates
    /\ lastNs \in Times
    /\ perStream \in [Streams -> StreamState]
    /\ forward \in [on : BOOLEAN, ns : Times, states : [Streams -> SeekState]]
    /\ seeks \in 0 .. MaxSeeks /\ undrained \in BOOLEAN
    /\ sought \in Times \cup {Beginning, Nowhere}
    /\ failed \in {"none", "post", "assert"}

\* The trace has discarded items which last: some time is after their beginning
\* and not after their end.
Straddling ==
    \E i \in DOMAIN content : \E ns \in Times :
        content[i].ts < ns /\ Straddles(content[i], ns)

\* Whatever downstream gets, replayed messages included, passes the iterator's
\* own postconditions on the "next" method: streams and packets begin before
\* anything in them and end once, and clock snapshots do not go back.  Left out
\* are seeks while messages of an automatic seek wait, which a seek leaves in
\* place, and discarded items around the time sought, which are kept even if
\* their stream ends before that time.  Nor does an assertion inside the
\* iterator fail: post_auto_seek_next() always finds a message in its queue,
\* but after such a seek.
NoCheckFails ==
    /\ failed = "post" => undrained \/ Straddling
    /\ failed = "assert" => undrained

Settled == ~Busy /\ state \in {"ACTIVE", "ENDED"}

Queue == IF swapped THEN autoMsgs ELSE <<>>

\* The event messages at or after a time.
Events(msgs, from) ==
    LET e[i \in 0 .. Len(msgs)] ==
            IF i = 0 THEN <<>>
            ELSE IF msgs[i].type = "EV" /\ msgs[i].ts >= from
                 THEN Append(e[i - 1], msgs[i]) ELSE e[i - 1]
    IN  e[Len(msgs)]

\* After a seek of a time, automatic or not, with no message of an earlier
\* automatic seek waiting, downstream gets the events at or
\* after that time, each once and in order, whatever batches they came in: none
\* is lost in the fast-forward and none comes out twice.  Nothing which
\* downstream gets or is about to get from the queue carries an earlier clock
\* snapshot.
SeekIsExact ==
    Settled /\ sought \in Times /\ ~undrained =>
        /\ Events(delivered \o Queue \o Available, 0) = Events(content, sought)
        /\ \A i \in DOMAIN (delivered \o Queue) : (delivered \o Queue)[i].ts >= sought

\* After a seek of the beginning, downstream gets the messages of the trace
\* from the first one, if no message of an automatic seek was waiting.
BeginningIsFirst ==
    Settled /\ sought = Beginning /\ ~undrained =>
        /\ Len(delivered) <= Len(content)
        /\ delivered = SubSeq(content, 1, Len(delivered))

\* The checker of message sequences accepts what the rules of message.h allow
\* and nothing else: once the user's iterator has returned all of the trace so
\* far, the types expected of each stream are those the rules let follow, if no
\* message of an automatic seek was waiting at the last seek.
CheckerIsExact ==
    Settled /\ sought = Beginning /\ ~undrained /\ pos = Len(content) + 1 =>
        \A s \in Streams : perStream[s].expected = LegalTypes(phase[s])
=============================================================================
