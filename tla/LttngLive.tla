------------------------------ MODULE LttngLive -------------------------------
(***************************************************************************)
(* The message iterator of src.ctf.lttng-live (src/plugins/ctf/lttng-live) *)
(* and the relay daemon which it polls through the viewer protocol.        *)
(*                                                                         *)
(* One call of lttng_live_msg_iter_next() is a sequence of requests: the   *)
(* three nested loops over the sessions, their traces and their streams    *)
(* are where `pos` is, and each request is a step of its own, because what *)
(* the relay knows changes between two of them.                            *)
(*                                                                         *)
(* The relay daemon is external: it's modelled by the replies that the     *)
(* client handles and by what the comments of the client say they mean.    *)
(* Its clock tells which streams it knows, which packets are complete and  *)
(* which streams are idle.                                                 *)
(***************************************************************************)
EXTENDS Integers, Sequences, SequencesExt, FiniteSets, FiniteSetsExt

CONSTANTS Sessions,      \* the tracing sessions: integers, in the relay's order
          Traces,        \* the traces
          Streams,       \* the data streams: integers, in the relay's order
          SessionOf,     \* the session of each trace
          TraceOf,       \* the trace of each stream
          KnownAt,       \* when the relay knows each stream
          MetadataAt,    \* when it knows the metadata stream of each trace
          EndAt,         \* when each stream is over
          Packets,       \* the packets of each stream
          MaxTime,       \* bound on the clock of the relay
          Capacity,      \* of the message array
          Actions,       \* values of the session-not-found-action parameter
          MaxRetries,    \* bound on the packet requests which the relay refuses
          Faults         \* what may go wrong: "error", "interrupt", "eof"

\* A packet has the times of its beginning and of its end, those of its
\* events, what was lost before it and the version of the metadata that it
\* needs.
ASSUME LttngLiveAssumption ==
    /\ SessionOf \in [Traces -> Sessions] /\ TraceOf \in [Streams -> Traces]
    /\ MaxTime \in Nat /\ Capacity \in Nat \ {0} /\ MaxRetries \in Nat
    /\ Actions \subseteq {"continue", "fail", "end"}
    /\ Faults \subseteq {"error", "interrupt", "eof"}
    /\ \A i \in Streams :
          /\ \A k \in 1..Len(Packets[i]) :
                /\ KnownAt[i] <= Packets[i][k].begin
                /\ Packets[i][k].begin <= Packets[i][k].end
                /\ Packets[i][k].end <= EndAt[i]
                /\ k > 1 => Packets[i][k - 1].end <= Packets[i][k].begin
          /\ EndAt[i] <= MaxTime

VARIABLES
    now,         \* the clock of the relay
    announced,   \* the data streams that it has sent to the client
    metadata,    \* the traces whose metadata stream it has sent
    given,       \* how many indexes of each it has given
    gone,        \* the streams whose end it has told
    described,   \* the version of the metadata of each trace that it has sent
    refused,     \* how many packet requests it has refused
    action,      \* sess_not_found_act
    sessions,    \* lttng_live_msg_iter::sessions
    session,     \* attached, new_streams_needed and closed of each
    traces,      \* lttng_live_session::traces of each session
    trace,       \* metadata, metadata_stream_state and trace of each trace
    iters,       \* lttng_live_trace::stream_iterators of each trace
    stream,      \* lttng_live_stream_iterator of each stream
    lastTs,      \* last_msg_ts_ns
    interrupted, \* was_interrupted
    pos,         \* where the call is
    youngest,    \* youngest_stream_iter, or 0
    count,       \* how many messages the call has
    sent,        \* how many messages of the decoder of each stream are in them
    fault,       \* "late", an error, or what ended the process
    missed       \* what messages were chosen without: a "stream", a "session"

relay == <<now, announced, metadata, given, gone, described, refused>>
lists == <<sessions, session, traces, trace, iters>>
output == <<lastTs, youngest, count, sent, missed>>
vars == <<relay, lists, output, stream, action, interrupted, pos, fault>>

-----------------------------------------------------------------------------
(***************************************************************************)
(* Messages.  The CTF message iterator makes them from one packet at a     *)
(* time (see CtfMsgIter).                                                  *)
(***************************************************************************)
Message(kind, ts, end) == [kind |-> kind, ts |-> ts, end |-> end]
NoMessage == Message("none", 0, 0)
Untimed == {"streamBegin", "streamEnd"}
Discarded == {"events", "packets"}

\* The messages that packet `k` of stream `i` becomes.
Decoded(i, k) ==
    LET p == Packets[i][k]
        Lost(kind) == Message(kind, Packets[i][k - 1].end,
                              IF kind = "packets" THEN p.begin ELSE p.end)
    IN (IF k = 1 THEN <<Message("streamBegin", 0, 0)>>
        ELSE [n \in 1..Len(p.lost) |-> Lost(p.lost[n])])
       \o <<Message("packetBegin", p.begin, p.begin)>>
       \o [n \in 1..Len(p.events) |-> Message("event", p.events[n], p.events[n])]
       \o <<Message("packetEnd", p.end, p.end)>>

\* All that the decoder of stream `i` makes.
Script(i) ==
    FlattenSeq([k \in 1..Len(Packets[i]) |-> Decoded(i, k)])
    \o <<Message("streamEnd", 0, 0)>>

-----------------------------------------------------------------------------
(***************************************************************************)
(* The relay daemon.                                                       *)
(***************************************************************************)
InOrder(S) == SetToSortSeq(S, <)

InSession(s) == {i \in Streams : SessionOf[TraceOf[i]] = s}

Known(s) == {i \in InSession(s) : KnownAt[i] <= now}

\* Those that a session which the client is attached to has and that the
\* client doesn't know: each index has the flag NEW_STREAM then.
NewStreams == \E s \in Sessions : session[s].attached /\ Known(s) \ announced # {}

NextPacket(i) == given[i] + 1
HasPacket(i) == NextPacket(i) <= Len(Packets[i])
Complete(i) == HasPacket(i) /\ Packets[i][NextPacket(i)].end <= now
Idle(i) == HasPacket(i) => Packets[i][NextPacket(i)].begin > now
Over(i) == ~HasPacket(i) /\ EndAt[i] <= now

\* The metadata of the packets that have begun.
Metadata(t) ==
    Max({0} \union
        UNION {{Packets[i][k].meta : k \in {k \in 1..Len(Packets[i]) : Packets[i][k].begin <= now}} :
               i \in {i \in Streams : TraceOf[i] = t}})

HungUp(s) == InSession(s) \subseteq gone
Listed == {s \in Sessions : Known(s) # {} /\ ~HungUp(s)}

NewSession == [attached |-> FALSE, newStreams |-> FALSE, closed |-> FALSE]
NewTrace == [metadata |-> FALSE, state |-> "NEEDED", version |-> 0]
NewStream ==
    [state |-> "ACTIVE_NO_DATA", hungUp |-> FALSE, last |-> -1, current |-> 0,
     msg |-> NoMessage, ts |-> 0, decoder |-> "none", packet |-> 0, loaded |-> FALSE, todo |-> <<>>]

\* INT64_MIN, before all the times.
MinTime == -1

AtNext == [pc |-> "idle", si |-> 1, ti |-> 1, xi |-> 1, ctx |-> "session", gs |-> 1, mi |-> 1]

\* lttng_live_msg_iter_init() has created the viewer session.
Init ==
    /\ now = 0
    /\ announced = {} /\ metadata = {} /\ gone = {}
    /\ given = [i \in Streams |-> 0]
    /\ described = [t \in Traces |-> 0]
    /\ refused = 0
    /\ action \in Actions
    /\ session = [s \in Sessions |-> NewSession] /\ sessions = <<>>
    /\ traces = [s \in Sessions |-> <<>>]
    /\ trace = [t \in Traces |-> NewTrace]
    /\ iters = [t \in Traces |-> <<>>]
    /\ stream = [i \in Streams |-> NewStream]
    /\ lastTs = MinTime
    /\ interrupted = FALSE
    /\ pos = [AtNext EXCEPT !.pc = "init"]
    /\ youngest = 0 /\ count = 0
    /\ sent = [i \in Streams |-> 0]
    /\ fault = "none" /\ missed = {}

\* Time passes while the client waits for a reply, or between two calls.
Tick ==
    /\ pos.pc \notin {"ended", "failed", "crashed"}
    /\ now < MaxTime
    /\ now' = now + 1
    /\ UNCHANGED <<announced, metadata, given, gone, described, refused, lists, output, stream, action,
                   interrupted, pos, fault>>

-----------------------------------------------------------------------------
(***************************************************************************)
(* Control: the end of a call, a fatal fault, the loops.                   *)
(***************************************************************************)
\* lttng_live_msg_iter_next() returns; an error ends the iterator.
Return(status) ==
    pos' = [AtNext EXCEPT !.pc = IF status = "error" THEN "failed" ELSE "idle"]

\* An assertion, an abort or an access to a null object ends the process.
Crash(what) ==
    /\ pos' = [AtNext EXCEPT !.pc = "crashed"]
    /\ fault' = what

Goto(pc) == pos' = [pos EXCEPT !.pc = pc]

\* A round of the loops which find the next message.
Round == pos' = [AtNext EXCEPT !.pc = "session"]

\* `retry` in lttng_live_iterator_next_msg_on_stream().
Retry == pos' = [pos EXCEPT !.pc = "get", !.ctx = "stream", !.gs = 1, !.mi = 1]

Visited == sessions[pos.si]
Trace == traces[Visited][pos.ti]
Stream == iters[Trace][pos.xi]
Updated == sessions[pos.gs]

FastRemove(list, n) == SubSeq([list EXCEPT ![n] = Last(list)], 1, Len(list) - 1)

\* lttng_live_need_new_streams().
NeedNewStreams ==
    [s \in Sessions |-> [session[s] EXCEPT !.newStreams = @ \/ s \in ToSet(sessions)]]

-----------------------------------------------------------------------------
(***************************************************************************)
(* The beginning of lttng_live_msg_iter_next().                            *)
(***************************************************************************)
NextAfterInterruption ==
    /\ pos.pc = "idle" /\ interrupted
    /\ Return("error")
    /\ UNCHANGED <<relay, lists, output, stream, action, interrupted, fault>>

\* Without sessions the iterator ends, or asks for sessions again.
NextWithoutSession ==
    /\ pos.pc = "idle" /\ ~interrupted /\ sessions = <<>>
    /\ Goto(IF action = "continue" THEN "create" ELSE "ended")
    /\ count' = 0 /\ youngest' = 0
    /\ UNCHANGED <<relay, lists, stream, action, lastTs, sent, missed, interrupted, fault>>

\* Mutant: the client doesn't ask again when it has no stream.
NextCallUnforced ==
    /\ pos.pc = "idle" /\ ~interrupted /\ sessions # <<>>
    /\ Round
    /\ count' = 0 /\ youngest' = 0
    /\ UNCHANGED <<relay, lists, stream, action, lastTs, sent, missed, interrupted, fault>>

\* With no stream at all, the call makes the client ask for everything.
NextCall ==
    /\ pos.pc = "idle" /\ ~interrupted /\ sessions # <<>>
    /\ IF \A t \in Traces : iters[t] = <<>>
       THEN LET all == UNION {ToSet(traces[s]) : s \in ToSet(sessions)} IN
            /\ session' = NeedNewStreams
            /\ trace' = [t \in Traces |->
                            [trace[t] EXCEPT !.state = IF t \in all THEN "NEEDED" ELSE @]]
            /\ IF \E t \in all : trace[t].state = "CLOSED" THEN Crash("closed")
               ELSE Round /\ UNCHANGED fault
       ELSE Round /\ UNCHANGED <<session, trace, fault>>
    /\ count' = 0 /\ youngest' = 0
    /\ UNCHANGED <<relay, sessions, traces, iters, stream, action, lastTs, sent, missed, interrupted>>

\* lttng_live_create_viewer_session(), in the initialization or in a call.
CreateViewerSession ==
    /\ pos.pc \in {"init", "create"}
    /\ sessions' = InOrder(Listed)
    /\ session' = [s \in Sessions |-> [NewSession EXCEPT !.newStreams = s \in Listed]]
    /\ IF pos.pc = "create" THEN Round
       ELSE Return(IF Listed = {} /\ action = "fail" THEN "error" ELSE "ok")
    /\ UNCHANGED <<relay, output, traces, trace, iters, stream, action, interrupted, fault>>

-----------------------------------------------------------------------------
(***************************************************************************)
(* lttng_live_get_session(): attach, new streams, metadata.  It's called   *)
(* before the traces of a session are visited (`pos.ctx` is "session") and *)
(* for all the sessions before a stream is asked for its next message      *)
(* ("stream").                                                             *)
(***************************************************************************)
\* The callers go on: to the traces, to the next session, to the stream, or
\* to the end of the stream if there's no open session.
SessionIsUpdated(closed) ==
    IF pos.ctx = "session" THEN pos' = [pos EXCEPT !.pc = "stream", !.ti = 1, !.xi = 1]
    ELSE IF pos.gs < Len(sessions) THEN pos' = [pos EXCEPT !.pc = "get", !.gs = @ + 1, !.mi = 1]
    ELSE Goto(IF action # "continue" /\ ToSet(sessions) \subseteq closed THEN "remove" ELSE "nodata")

Closed == {s \in Sessions : session[s].closed}

\* receive_streams(): the data and metadata streams which the client doesn't
\* have, and their traces.
Receive(s) ==
    LET new == Known(s) \ announced
        newMetadata == {t \in Traces : SessionOf[t] = s /\ MetadataAt[t] <= now} \ metadata
    IN /\ announced' = announced \union new
       /\ metadata' = metadata \union newMetadata
       /\ traces' = [traces EXCEPT ![s] =
                        @ \o InOrder(({TraceOf[i] : i \in new} \union newMetadata) \ ToSet(@))]
       /\ trace' = [t \in Traces |-> [trace[t] EXCEPT !.metadata = @ \/ t \in newMetadata]]
       /\ iters' = [t \in Traces |-> iters[t] \o InOrder({i \in new : TraceOf[i] = t})]

\* lttng_live_session_attach().
Attach ==
    /\ pos.pc = "get"
    /\ ~session[Updated].attached
    /\ session' = [session EXCEPT ![Updated].attached = TRUE, ![Updated].newStreams = FALSE]
    /\ Receive(Updated)
    /\ UNCHANGED <<now, given, gone, described, refused, sessions, output, stream, action,
                   interrupted, pos, fault>>

\* lttng_live_session_get_new_streams(): a session that is over is closed,
\* and its metadata isn't updated.
GetNewStreams ==
    /\ pos.pc = "get"
    /\ session[Updated].attached /\ session[Updated].newStreams
    /\ session' = [session EXCEPT ![Updated].newStreams = FALSE,
                                  ![Updated].closed = @ \/ HungUp(Updated)]
    /\ IF HungUp(Updated)
       THEN /\ SessionIsUpdated(Closed \union {Updated})
            /\ UNCHANGED <<announced, metadata, traces, trace, iters>>
       ELSE Receive(Updated) /\ UNCHANGED pos
    /\ UNCHANGED <<now, given, gone, described, refused, sessions, output, stream, action,
                   interrupted, fault>>

\* The loop over the traces: where the metadata update is.
InMetadataUpdate ==
    pos.pc = "get" /\ session[Updated].attached /\ ~session[Updated].newStreams

MetadataIsUpdated ==
    /\ InMetadataUpdate
    /\ pos.mi > Len(traces[Updated])
    /\ SessionIsUpdated(Closed)
    /\ UNCHANGED <<relay, lists, output, stream, action, interrupted, fault>>

\* lttng_live_metadata_update() logs with the logger of the metadata before
\* it tests whether there is any.  The model is of a build with the default
\* minimal log level, DEBUG: one without the statement would ask the relay for
\* streams again.
MetadataIsMissing ==
    /\ InMetadataUpdate
    /\ pos.mi <= Len(traces[Updated])
    /\ ~trace[traces[Updated][pos.mi]].metadata
    /\ Crash("noMetadata")
    /\ UNCHANGED <<relay, lists, output, stream, action, interrupted>>

MetadataIsNotNeeded ==
    /\ InMetadataUpdate
    /\ pos.mi <= Len(traces[Updated])
    /\ LET t == trace[traces[Updated][pos.mi]] IN t.metadata /\ t.state # "NEEDED"
    /\ pos' = [pos EXCEPT !.mi = @ + 1]
    /\ UNCHANGED <<relay, lists, output, stream, action, interrupted, fault>>

\* The client asks for packets of metadata until the relay has no more, or
\* no longer has the metadata stream.  Without any metadata at all the call
\* returns.
UpdateMetadata(isGone) ==
    /\ InMetadataUpdate
    /\ pos.mi <= Len(traces[Updated])
    /\ LET t == traces[Updated][pos.mi]
           got == IF isGone THEN described[t] ELSE Metadata(t)
       IN /\ trace[t].metadata /\ trace[t].state = "NEEDED"
          /\ isGone => /\ \A i \in Streams : TraceOf[i] = t => EndAt[i] <= now
                       /\ described[t] \in {0, Metadata(t)}
          /\ described' = [described EXCEPT ![t] = got]
          /\ IF got = 0
             THEN /\ trace' = [trace EXCEPT ![t].state = IF isGone THEN "CLOSED" ELSE @]
                  /\ Return("again")
             ELSE /\ trace' = [trace EXCEPT ![t].state = "NOT_NEEDED", ![t].version = got]
                  /\ pos' = [pos EXCEPT !.mi = @ + 1]
    /\ UNCHANGED <<now, announced, metadata, given, gone, refused, sessions, session, traces, iters,
                   output, stream, action, interrupted, fault>>

-----------------------------------------------------------------------------
(***************************************************************************)
(* The loops over the sessions, the traces and the streams.  The best      *)
(* candidate of a trace is compared with the one of the other traces, and  *)
(* the best one of a session with the one of the other sessions: this is   *)
(* the same as comparing all the streams in the order of the visit.        *)
(***************************************************************************)
\* Messages of the same time: MessageComparator places those that have a
\* stream before inactivity messages, and compares the traces and then the
\* streams (here, their numbers).  Two inactivity messages are equal: the
\* first one remains the candidate.
ComparesLess(i, j) ==
    LET HasStream(k) == stream[k].msg.kind # "inactivity"
    IN \/ HasStream(i) /\ ~HasStream(j)
       \/ /\ HasStream(i) /\ HasStream(j)
          /\ TraceOf[i] < TraceOf[j] \/ (TraceOf[i] = TraceOf[j] /\ i < j)

\* Mutant: the latest message goes first.
BeforeLatest(i, j) ==
    \/ stream[i].ts > stream[j].ts
    \/ stream[i].ts = stream[j].ts /\ ComparesLess(i, j)

Before(i, j) ==
    \/ stream[i].ts < stream[j].ts
    \/ stream[i].ts = stream[j].ts /\ ComparesLess(i, j)

EnterSession ==
    /\ pos.pc = "session" /\ pos.si <= Len(sessions)
    /\ pos' = [pos EXCEPT !.pc = "get", !.ctx = "session", !.gs = pos.si, !.mi = 1]
    /\ UNCHANGED <<relay, lists, output, stream, action, interrupted, fault>>

\* All the traces were visited.  A closed session without traces is removed
\* (and detached).
LeaveSession ==
    /\ pos.pc = "stream"
    /\ pos.ti > Len(traces[Visited])
    /\ IF traces[Visited] = <<>> /\ session[Visited].closed
       THEN /\ sessions' = FastRemove(sessions, pos.si)
            /\ session' = [session EXCEPT ![Visited] = NewSession]
            /\ Goto("session")
       ELSE /\ pos' = [pos EXCEPT !.pc = "session", !.si = @ + 1]
            /\ UNCHANGED <<sessions, session>>
    /\ UNCHANGED <<relay, traces, trace, iters, output, stream, action, interrupted, fault>>

\* All the streams of a trace were visited.  A trace without streams is
\* removed.
LeaveTrace ==
    /\ pos.pc = "stream"
    /\ pos.ti <= Len(traces[Visited])
    /\ pos.xi > Len(iters[Trace])
    /\ IF iters[Trace] = <<>>
       THEN /\ traces' = [traces EXCEPT ![Visited] = FastRemove(@, pos.ti)]
            /\ trace' = [trace EXCEPT ![Trace] = NewTrace]
            /\ pos' = [pos EXCEPT !.xi = 1]
       ELSE /\ pos' = [pos EXCEPT !.ti = @ + 1, !.xi = 1]
            /\ UNCHANGED <<traces, trace>>
    /\ UNCHANGED <<relay, sessions, session, iters, output, stream, action, interrupted, fault>>

AtStream ==
    /\ pos.pc = "stream"
    /\ pos.ti <= Len(traces[Visited])
    /\ pos.xi <= Len(iters[Trace])

\* A stream has a message: it may be the best candidate.
Compare ==
    /\ AtStream
    /\ stream[Stream].msg # NoMessage
    /\ youngest' = IF youngest = 0 \/ Before(Stream, youngest) THEN Stream ELSE youngest
    /\ pos' = [pos EXCEPT !.xi = @ + 1]
    /\ UNCHANGED <<relay, lists, lastTs, count, sent, missed, stream, action, interrupted, fault>>

\* A stream has no message: lttng_live_iterator_next_msg_on_stream().
Ask ==
    /\ AtStream
    /\ stream[Stream].msg = NoMessage
    /\ IF stream[Stream].hungUp THEN Goto("remove") ELSE Retry
    /\ UNCHANGED <<relay, lists, output, stream, action, interrupted, fault>>

\* A stream has ended.
RemoveStream ==
    /\ pos.pc = "remove"
    /\ iters' = [iters EXCEPT ![Trace] = FastRemove(@, pos.xi)]
    /\ Goto("stream")
    /\ UNCHANGED <<relay, sessions, session, traces, trace, output, stream, action, interrupted, fault>>

AllStreams == UNION {ToSet(iters[t]) : t \in UNION {ToSet(traces[s]) : s \in ToSet(sessions)}}

\* The best candidate goes to the message array.  The call returns when the
\* array is full.
Emit ==
    /\ pos.pc = "session" /\ pos.si > Len(sessions)
    /\ youngest # 0
    /\ count' = count + 1
    /\ lastTs' = stream[youngest].ts
    /\ sent' = [sent EXCEPT ![youngest] =
                    IF stream[youngest].msg.kind = "inactivity" THEN @ ELSE @ + 1]
    /\ stream' = [stream EXCEPT ![youngest].msg = NoMessage]
    /\ missed' = missed \union
                    {what \in {"stream", "session"} :
                        \/ what = "stream" /\ \E i \in AllStreams : stream[i].msg = NoMessage
                        \/ what = "session" /\ Listed \ ToSet(sessions) # {}}
    /\ IF count + 1 < Capacity THEN Round ELSE Return("ok")
    /\ youngest' = 0
    /\ UNCHANGED <<relay, lists, action, interrupted, fault>>

\* No stream has a message.
NoCandidate ==
    /\ pos.pc = "session" /\ pos.si > Len(sessions)
    /\ youngest = 0
    /\ Return("again")
    /\ UNCHANGED <<relay, lists, output, stream, action, interrupted, fault>>

-----------------------------------------------------------------------------
(***************************************************************************)
(* lttng_live_iterator_next_msg_on_stream(), after the update of the       *)
(* sessions.                                                               *)
(***************************************************************************)
Here == stream[Stream]

\* The message `m` of the stream becomes its current one.  A late message is
\* an error unless it tells of discarded items within a time of inactivity:
\* it then begins at the end of it.
Late(m) == m.kind \notin Untimed /\ m.ts < lastTs

\* Mutant: only discarded events may be late.
AdjustableEventsOnly(m, st) == m.kind = "events" /\ st.last > m.ts

Adjustable(m, st) == m.kind \in Discarded /\ st.last > m.ts

GotMessage(m, st) ==
    IF Late(m) /\ ~Adjustable(m, st) THEN
        /\ stream' = [stream EXCEPT ![Stream] = st]
        /\ fault' = "late"
        /\ Return("error")
    ELSE
        LET ts == CASE m.kind \in Untimed -> lastTs
                    [] Late(m) -> st.last
                    [] OTHER -> m.ts
        IN /\ stream' = [stream EXCEPT ![Stream] =
                            [st EXCEPT !.ts = ts, !.msg = IF Late(m) THEN [m EXCEPT !.ts = ts] ELSE m]]
           /\ Goto("stream")
           /\ UNCHANGED fault

\* The handler would retry; the update has just been made, so that it doesn't
\* have to: no action goes on from such a state, and TLC finds no deadlock.
NeedsUpdate == trace[Trace].state = "NEEDED" \/ session[Visited].newStreams

AsksForIndex ==
    pos.pc = "nodata" /\ ~NeedsUpdate /\ Here.state \in {"ACTIVE_NO_DATA", "QUIESCENT_NO_DATA"}

\* The flag NEW_STREAM of a reply.
Flags == session' = IF NewStreams THEN NeedNewStreams ELSE session

\* Mutant: the flag NEW_METADATA is ignored.
IndexOkNoMetadata ==
    /\ AsksForIndex /\ Complete(Stream)
    /\ given' = [given EXCEPT ![Stream] = @ + 1]
    /\ Flags
    /\ UNCHANGED trace
    /\ stream' = [stream EXCEPT ![Stream].state = "ACTIVE_DATA",
                                ![Stream].packet = NextPacket(Stream), ![Stream].loaded = FALSE]
    /\ Goto("active")
    /\ UNCHANGED <<now, announced, metadata, gone, described, refused, sessions, traces, iters, output,
                   action, interrupted, fault>>

\* LTTNG_VIEWER_INDEX_OK, with its flag NEW_METADATA.
IndexOk ==
    /\ AsksForIndex /\ Complete(Stream)
    /\ given' = [given EXCEPT ![Stream] = @ + 1]
    /\ Flags
    /\ trace' = [trace EXCEPT ![Trace].state =
                    IF Metadata(Trace) > described[Trace] THEN "NEEDED" ELSE @]
    /\ stream' = [stream EXCEPT ![Stream].state = "ACTIVE_DATA",
                                ![Stream].packet = NextPacket(Stream), ![Stream].loaded = FALSE]
    /\ Goto("active")
    /\ UNCHANGED <<now, announced, metadata, gone, described, refused, sessions, traces, iters, output,
                   action, interrupted, fault>>

\* LTTNG_VIEWER_INDEX_INACTIVE: nothing before now.
IndexInactive ==
    /\ AsksForIndex /\ ~Complete(Stream) /\ ~Over(Stream) /\ Idle(Stream)
    /\ Flags
    /\ stream' = [stream EXCEPT ![Stream].state = "QUIESCENT", ![Stream].current = now]
    /\ IF Here.state = "QUIESCENT_NO_DATA" /\ Here.last = now THEN Return("again") ELSE Retry
    /\ UNCHANGED <<relay, sessions, traces, trace, iters, output, action, interrupted, fault>>

\* LTTNG_VIEWER_INDEX_RETRY.
IndexRetry ==
    /\ AsksForIndex /\ ~Complete(Stream) /\ ~Over(Stream)
    /\ Flags
    /\ stream' = [stream EXCEPT ![Stream].state = "ACTIVE_NO_DATA"]
    /\ Return("again")
    /\ UNCHANGED <<relay, sessions, traces, trace, iters, output, action, interrupted, fault>>

\* Mutant: the stream is removed without its end.
IndexHupAtOnce ==
    /\ AsksForIndex /\ Over(Stream)
    /\ gone' = gone \union {Stream}
    /\ Flags
    /\ stream' = [stream EXCEPT ![Stream].state = "EOF", ![Stream].hungUp = TRUE]
    /\ Goto("remove")
    /\ UNCHANGED fault
    /\ UNCHANGED <<now, announced, metadata, given, described, refused, sessions, traces, trace, iters,
                   output, action, interrupted>>

\* LTTNG_VIEWER_INDEX_HUP and lttng_live_iterator_close_stream().
IndexHup ==
    /\ AsksForIndex /\ Over(Stream)
    /\ gone' = gone \union {Stream}
    /\ Flags
    /\ LET st == [Here EXCEPT !.state = "EOF", !.hungUp = TRUE] IN
       IF Here.decoder = "running" THEN GotMessage(Message("streamEnd", 0, 0), st)
       ELSE Goto("remove") /\ stream' = [stream EXCEPT ![Stream] = st] /\ UNCHANGED fault
    /\ UNCHANGED <<now, announced, metadata, given, described, refused, sessions, traces, trace, iters,
                   output, action, interrupted>>

\* lttng_live_iterator_next_handle_one_quiescent_stream().
Quiescent ==
    /\ pos.pc = "nodata" /\ ~NeedsUpdate /\ Here.state = "QUIESCENT"
    /\ IF Here.last = Here.current
       THEN /\ stream' = [stream EXCEPT ![Stream].state = "QUIESCENT_NO_DATA"]
            /\ Retry
            /\ UNCHANGED fault
       ELSE IF trace[Trace].version = 0 THEN Crash("closed") /\ UNCHANGED stream
       ELSE GotMessage(Message("inactivity", Here.current, Here.current),
                       [Here EXCEPT !.last = Here.current])
    /\ UNCHANGED <<relay, lists, output, action, interrupted>>

NoDataDone ==
    /\ pos.pc = "nodata" /\ ~NeedsUpdate /\ Here.state = "ACTIVE_DATA"
    /\ Goto("active")
    /\ UNCHANGED <<relay, lists, output, stream, action, interrupted, fault>>

-----------------------------------------------------------------------------
(***************************************************************************)
(* lttng_live_iterator_next_handle_one_active_data_stream() and the medium *)
(* of the decoder, CtfLiveMedium, which asks for the data of a packet at   *)
(* once.                                                                   *)
(***************************************************************************)
AnyNeedsUpdate ==
    \E s \in ToSet(sessions) :
        session[s].newStreams \/ \E t \in ToSet(traces[s]) : trace[t].state = "NEEDED"

ActiveRetry ==
    /\ pos.pc = "active" /\ AnyNeedsUpdate
    /\ Retry
    /\ UNCHANGED <<relay, lists, output, stream, action, interrupted, fault>>

IsActive == pos.pc = "active" /\ ~AnyNeedsUpdate

NeedsDecoder == IsActive /\ Here.decoder = "none" /\ trace[Trace].version > 0
NeedsPacket == IsActive /\ Here.decoder = "running" /\ ~Here.loaded

\* The metadata stream was closed before any metadata came: there's no trace
\* class.
NoTraceClass ==
    /\ IsActive /\ Here.decoder = "none" /\ trace[Trace].version = 0
    /\ Crash("closed")
    /\ UNCHANGED <<relay, lists, output, stream, action, interrupted>>

\* lttng_live_stream_iterator_create_msg_iter(): the properties of the first
\* packet are read with a medium of their own.
CreateDecoder ==
    /\ NeedsDecoder
    /\ stream' = [stream EXCEPT ![Stream].decoder = "running"]
    /\ UNCHANGED <<relay, lists, output, action, interrupted, pos, fault>>

LoadPacket ==
    /\ NeedsPacket
    /\ stream' = [stream EXCEPT ![Stream].loaded = TRUE, ![Stream].todo = Decoded(Stream, Here.packet)]
    /\ UNCHANGED <<relay, lists, output, action, interrupted, pos, fault>>

\* The relay asks to try again, possibly after an update.  Nothing catches
\* the exception while the decoder is created.
RefusePacket(flags) ==
    /\ NeedsDecoder \/ NeedsPacket
    /\ refused < MaxRetries
    /\ refused' = refused + 1
    /\ trace' = [trace EXCEPT ![Trace].state = IF "metadata" \in flags THEN "NEEDED" ELSE @]
    /\ session' = IF "stream" \in flags THEN NeedNewStreams ELSE session
    /\ IF NeedsDecoder THEN Crash("retry") ELSE Return("again") /\ UNCHANGED fault
    /\ UNCHANGED <<now, announced, metadata, given, gone, described, sessions, traces, iters, output,
                   stream, action, interrupted>>

\* The relay no longer has the stream: the decoder ends it.  There's no first
\* item if this happens while the decoder is created.
PacketIsGone ==
    /\ "eof" \in Faults
    /\ NeedsDecoder \/ NeedsPacket
    /\ gone' = gone \union {Stream}
    /\ IF NeedsDecoder THEN Crash("eof") /\ UNCHANGED stream
       ELSE GotMessage(Message("streamEnd", 0, 0), [Here EXCEPT !.decoder = "ended"])
    /\ UNCHANGED <<now, announced, metadata, given, described, refused, lists, output, action,
                   interrupted>>

NextMessage ==
    /\ IsActive /\ Here.decoder = "running" /\ Here.loaded /\ Here.todo # <<>>
    /\ GotMessage(Head(Here.todo), [Here EXCEPT !.todo = Tail(@)])
    /\ UNCHANGED <<relay, lists, output, action, interrupted>>

\* The decoder asks for what follows the packet.
PacketEnds ==
    /\ IsActive /\ Here.decoder = "running" /\ Here.loaded /\ Here.todo = <<>>
    /\ stream' = [stream EXCEPT ![Stream].state = "ACTIVE_NO_DATA", ![Stream].packet = 0,
                                ![Stream].loaded = FALSE]
    /\ Return("again")
    /\ UNCHANGED <<relay, lists, output, action, interrupted, fault>>

DecoderEnds ==
    /\ IsActive /\ Here.decoder = "ended"
    /\ Goto("remove")
    /\ UNCHANGED <<relay, lists, output, stream, action, interrupted, fault>>

-----------------------------------------------------------------------------
(***************************************************************************)
(* What may happen instead of a reply.                                     *)
(***************************************************************************)
InMetadataRequest ==
    /\ InMetadataUpdate
    /\ pos.mi <= Len(traces[Updated])
    /\ LET t == trace[traces[Updated][pos.mi]] IN t.metadata /\ t.state = "NEEDED"

Requesting ==
    \/ pos.pc \in {"init", "create"}
    \/ pos.pc = "get" /\ ~InMetadataUpdate
    \/ InMetadataRequest
    \/ AsksForIndex
    \/ NeedsDecoder
    \/ NeedsPacket

\* lttng_live_recv() fails, or the relay replies with an error.
RequestFails ==
    /\ "error" \in Faults
    /\ Requesting
    /\ Return("error")
    /\ UNCHANGED <<relay, lists, output, stream, action, interrupted, fault>>

\* The graph is interrupted while lttng_live_recv() waits.  The metadata
\* update aborts on this status and nothing catches bt2c::TryAgain while the
\* decoder is created.
Interrupt ==
    /\ "interrupt" \in Faults
    /\ Requesting
    /\ interrupted' = TRUE
    /\ IF InMetadataRequest \/ NeedsDecoder THEN Crash("interrupt")
       ELSE /\ Return(IF pos.pc = "init" THEN "error" ELSE "again")
            /\ UNCHANGED fault
    /\ UNCHANGED <<relay, lists, output, stream, action>>

\* lttng_live_msg_iter_finalize(): all the sessions are detached.
Finalize ==
    /\ pos.pc \in {"idle", "ended", "failed"}
    /\ Goto("final")
    /\ sessions' = <<>>
    /\ session' = [s \in Sessions |-> NewSession]
    /\ traces' = [s \in Sessions |-> <<>>]
    /\ trace' = [t \in Traces |-> NewTrace]
    /\ iters' = [t \in Traces |-> <<>>]
    /\ UNCHANGED <<relay, output, stream, action, interrupted, fault>>

Stopped == {"final", "crashed"}

Terminated == pos.pc \in Stopped /\ UNCHANGED vars

-----------------------------------------------------------------------------
Step ==
    \/ NextAfterInterruption \/ NextWithoutSession \/ NextCall \/ CreateViewerSession
    \/ Attach \/ GetNewStreams
    \/ MetadataIsUpdated \/ MetadataIsMissing \/ MetadataIsNotNeeded
    \/ UpdateMetadata(FALSE) \/ UpdateMetadata(TRUE)
    \/ EnterSession \/ LeaveSession \/ LeaveTrace \/ Compare \/ Ask \/ RemoveStream
    \/ Emit \/ NoCandidate
    \/ IndexOk \/ IndexInactive \/ IndexRetry \/ IndexHup
    \/ Quiescent \/ NoDataDone
    \/ ActiveRetry \/ NoTraceClass \/ CreateDecoder \/ LoadPacket
    \/ NextMessage \/ PacketEnds \/ DecoderEnds

Next ==
    \/ Step
    \/ Tick
    \/ \E flags \in SUBSET {"metadata", "stream"} : RefusePacket(flags)
    \/ PacketIsGone \/ RequestFails \/ Interrupt \/ Finalize
    \/ Terminated

\* The graph goes on calling the iterator, the relay goes on replying and its
\* time passes.
Fairness == WF_vars(Step) /\ WF_vars(Tick)

Spec == Init /\ [][Next]_vars /\ Fairness

-----------------------------------------------------------------------------
(***************************************************************************)
(* Properties.                                                             *)
(***************************************************************************)
\* The times of the messages that the iterator returns never decrease (the
\* comment of next_stream_iterator_for_trace(): "We must ensure
\* monotonicity"), whatever the order of the replies, with inactivity
\* messages of idle streams and discarded items that begin before them.  A
\* stream which stays idle doesn't repeat its inactivity message: each has a
\* later time, through any number of calls and replies.
OutputIsMonotonic ==
    [][/\ lastTs' >= lastTs
       /\ \A i \in Streams :
             (stream[i].msg = NoMessage /\ stream'[i].msg.kind = "inactivity") =>
                 stream'[i].msg.ts > stream[i].last]_vars

\* The messages of each stream are those of its decoder, in order and without
\* a gap, although a call may end anywhere: the current message is the next
\* one, and a stream is only removed after its last one.  Only the beginning
\* of discarded items is adjusted, and isn't after their end: the library
\* requires it of the message that handle_late_message() creates.
StreamsAreWhole ==
    /\ \A i \in Streams :
          LET m == stream[i].msg IN
          (m # NoMessage /\ m.kind # "inactivity" /\ stream[i].decoder = "running") =>
              LET expected == Script(i)[sent[i] + 1] IN
              /\ m.kind = expected.kind /\ m.end = expected.end
              /\ m.ts = expected.ts
                 \/ (m.kind \in Discarded /\ expected.ts < m.ts /\ m.ts <= m.end)
    /\ pos.pc \notin Stopped =>
          \A i \in announced \ AllStreams :
              \/ stream[i].decoder = "none" /\ Packets[i] = <<>>
              \/ stream[i].decoder = "running" /\ sent[i] = Len(Script(i))
              \/ stream[i].decoder = "ended"

\* When a message can't be sent because it's late, the iterator has chosen
\* another one before without asking all its streams, or while the relay had
\* a session that it doesn't know ("In a remotely distant future, we could add
\* a "new session" flag to the protocol").
LateIfMissed == fault = "late" => missed # {}

\* The data of a packet is decoded with the metadata that it needs: the flags
\* of the replies make the client update it first.
MetadataIsRecent ==
    \A i \in Streams :
        (stream[i].loaded /\ pos.pc \notin Stopped) =>
            trace[TraceOf[i]].version >= Packets[i][stream[i].packet].meta

\* Once the tracing sessions are over, the iterator has sent everything and
\* has no session left, unless it stopped before.
EverythingIsSent ==
    <>(\/ pos.pc \in {"ended", "failed"} \union Stopped
       \/ sessions = <<>> /\ gone = Streams)

\* "We need to iterate over all the streams of all the traces of all the
\* viewer sessions in order to get the message with the smallest timestamp"
\* (the comment of lttng_live_msg_iter_next()): when a message is chosen, each
\* stream has one.
AllStreamsAreAsked == "stream" \notin missed
=============================================================================
