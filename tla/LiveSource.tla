------------------------------ MODULE LiveSource ------------------------------
(***************************************************************************)
(* The source of the src.ctf.live component class                          *)
(* (src/plugins/ctf/live-src): the thread of the TCP server, which copies  *)
(* each byte that a client sends to the FIFO of each message iterator, and *)
(* the thread of the graph, which creates the message iterators, gets      *)
(* their next messages and destroys the component.                         *)
(*                                                                         *)
(* A byte is its position in what the clients have sent.  What decodes the *)
(* bytes may make any sequence of requests that a medium has to support    *)
(* (see RequestsIncrease in ItemSeqIter).                                  *)
(***************************************************************************)
EXTENDS Integers, Sequences, Functions


CONSTANTS Iterators,    \* the message iterators
          MaxBytes,     \* bound on what the clients send
          MaxRequest,   \* bound on the size of a request
          Capacity,     \* of the message arrays
          Failures      \* whether socket operations may fail by themselves

ASSUME LiveAssumption ==
    /\ MaxBytes \in Nat /\ MaxRequest \in Nat \ {0} /\ Capacity \in Nat \ {0}
    /\ Failures \in BOOLEAN

VARIABLES
    thread,       \* where the server thread is
    keepRunning,  \* _mKeepRunning
    client,       \* what _mClientFd is: "invalid", "open", "shut" or "closed"
    listening,    \* whether _mSocketFd is open
    received,     \* how many bytes the clients have sent
    fifos,        \* _mFifos: the iterators they belong to
    loop,         \* the range of the loop of _pushData(): what remains of it
    dangling,     \* whether it's in memory that _mFifos has left
    queue,        \* _mByteQueue of each
    offset,       \* _mCurrentOffset of each
    base,         \* how many bytes came before each was created
    main,         \* where the graph thread is
    call,         \* its current call of ctf_live_iterator_next()
    asked,        \* the last request of each: offset, end of the last answer
    buf,          \* _mCurrentBuf of each: what the last request returned
    saved,        \* next_saved_error of each: whether it has one
    popped        \* whether a FIFO removed bytes which it didn't have

server == <<thread, keepRunning, client, listening, received, loop, dangling>>
reading == <<call, asked, buf, saved, offset, popped>>
media == <<fifos, queue, base>>
vars == <<server, reading, media, main>>

NoCall == [it |-> 0, step |-> "none", off |-> 0, cnt |-> 0, got |-> 0]

\* The component is initialized, its server listens.
Init ==
    /\ thread = "loop" /\ keepRunning = TRUE /\ client = "invalid" /\ listening = TRUE
    /\ received = 0
    /\ fifos = <<>> /\ loop = <<>> /\ dangling = FALSE
    /\ queue = [i \in Iterators |-> <<>>]
    /\ offset = [i \in Iterators |-> 0]
    /\ base = [i \in Iterators |-> 0]
    /\ main = "run"
    /\ call = NoCall
    /\ asked = [i \in Iterators |-> [off |-> 0, end |-> 0]]
    /\ buf = [i \in Iterators |-> <<>>]
    /\ saved = [i \in Iterators |-> FALSE]
    /\ popped = FALSE

-----------------------------------------------------------------------------
(***************************************************************************)
(* The server thread.  An exception which leaves it ends the process: it   *)
(* is then "terminated".                                                   *)
(***************************************************************************)
Alive == thread # "terminated"

Connected == client \in {"open", "shut"}

CheckRunning ==
    /\ thread = "loop"
    /\ thread' = IF keepRunning THEN "accept" ELSE "ended"
    /\ UNCHANGED <<keepRunning, client, listening, received, loop, dangling, reading, media, main>>

\* accept() returns a connection.
Accept ==
    /\ thread = "accept" /\ listening
    /\ client' = "open"
    /\ thread' = "client"
    /\ UNCHANGED <<keepRunning, listening, received, loop, dangling, reading, media, main>>

\* It fails because of the destructor or of the network.
AcceptFails ==
    /\ thread = "accept"
    /\ ~listening \/ Failures
    /\ client' = "invalid"
    /\ thread' = IF keepRunning THEN "terminated" ELSE "ended"
    /\ UNCHANGED <<keepRunning, listening, received, loop, dangling, reading, media, main>>

\* Mutant: a connection accepted while the destructor runs isn't closed.
CheckClientLeaks ==
    /\ thread = "client"
    /\ thread' = IF keepRunning THEN "recv" ELSE "ended"
    /\ UNCHANGED <<keepRunning, client, listening, received, loop, dangling, reading, media, main>>

CheckClient ==
    /\ thread = "client"
    /\ thread' = IF keepRunning THEN "recv" ELSE "cleanup"
    /\ UNCHANGED <<keepRunning, client, listening, received, loop, dangling, reading, media, main>>

\* bt_socket_recv() returns one byte; _pushData() starts to go through the
\* FIFOs that exist at this point.
RecvByte ==
    /\ thread = "recv"
    /\ Connected
    /\ received < MaxBytes
    /\ received' = received + 1
    /\ loop' = fifos
    /\ thread' = "push"
    /\ UNCHANGED <<keepRunning, client, listening, dangling, reading, media, main>>

\* The client has closed its side, or the destructor shut it down (and may
\* have closed it since).
RecvEnd ==
    /\ thread = "recv"
    /\ client # "invalid"
    /\ thread' = "cleanup"
    /\ UNCHANGED <<keepRunning, client, listening, received, loop, dangling, reading, media, main>>

\* It fails on a descriptor which isn't (or no longer) a connection.
RecvFails ==
    /\ thread = "recv"
    /\ ~Connected \/ Failures
    /\ thread' = "cleanupAndThrow"
    /\ UNCHANGED <<keepRunning, client, listening, received, loop, dangling, reading, media, main>>

\* Mutant: only the first FIFO gets the data.
PushToFirst ==
    /\ thread = "push"
    /\ IF loop = <<>>
       THEN thread' = "client" /\ dangling' = FALSE /\ UNCHANGED <<queue, loop>>
       ELSE /\ queue' = [queue EXCEPT ![Head(loop)] = Append(@, received)]
            /\ loop' = <<>>
            /\ UNCHANGED <<thread, dangling>>
    /\ UNCHANGED <<keepRunning, client, listening, received, reading, fifos, base, main>>

\* CtfLiveSocketFifo::push() on the next FIFO, or the end of the loop.
Push ==
    /\ thread = "push"
    /\ IF loop = <<>>
       THEN thread' = "client" /\ dangling' = FALSE /\ UNCHANGED <<queue, loop>>
       ELSE /\ queue' = [queue EXCEPT ![Head(loop)] = Append(@, received)]
            /\ loop' = Tail(loop)
            /\ UNCHANGED <<thread, dangling>>
    /\ UNCHANGED <<keepRunning, client, listening, received, reading, fifos, base, main>>

\* What the memory of the former array has by now may not be a FIFO.
PushToNowhere ==
    /\ thread = "push" /\ loop # <<>> /\ dangling
    /\ thread' = "terminated"
    /\ UNCHANGED <<keepRunning, client, listening, received, loop, dangling, reading, media,
                   main>>

\* The member keeps the number of the descriptor.
Cleanup ==
    /\ thread \in {"cleanup", "cleanupAndThrow"}
    /\ client' = IF Connected THEN "closed" ELSE client
    /\ thread' = IF thread = "cleanup" THEN "loop" ELSE "terminated"
    /\ UNCHANGED <<keepRunning, listening, received, loop, dangling, reading, media, main>>

Server == CheckRunning \/ Accept \/ AcceptFails \/ CheckClient \/ RecvByte \/ RecvEnd \/ RecvFails
          \/ Push \/ PushToNowhere \/ Cleanup

-----------------------------------------------------------------------------
(***************************************************************************)
(* The graph thread.                                                       *)
(***************************************************************************)
Running == main = "run" /\ Alive

\* The capacity of a vector doubles when it's full.
Reallocates(n) == n \in {0, 1, 2, 4, 8}

\* create_medium(), called by ctf_live_iterator_init().
CreateMedium(i) ==
    /\ Running /\ call = NoCall
    /\ i \notin Range(fifos)
    /\ fifos' = Append(fifos, i)
    /\ base' = [base EXCEPT ![i] = received]
    /\ dangling' = (dangling \/ (loop # <<>> /\ Reallocates(Len(fifos))))
    /\ UNCHANGED <<thread, keepRunning, client, listening, received, loop, reading, queue, main>>

\* ctf_live_iterator_next() starts.
NextCall(i) ==
    /\ Running /\ call = NoCall
    /\ i \in Range(fifos)
    /\ call' = [NoCall EXCEPT !.it = i, !.step = "decode"]
    /\ UNCHANGED <<server, asked, buf, saved, offset, popped, media, main>>

\* It returns: the messages it has so far come first, and an error is saved.
\* The graph can only be destroyed after an error.
Return(status) ==
    LET failure == status = "error"
    IN  /\ call' = NoCall
        /\ saved' = IF failure /\ call.got > 0 THEN [saved EXCEPT ![call.it] = TRUE] ELSE saved
        /\ main' = IF failure /\ call.got = 0 THEN "failed" ELSE main

Decoding == Alive /\ call.step = "decode"

\* MsgIter::next() returns a message.  Nothing reads a saved error.
Message ==
    /\ Decoding
    /\ asked[call.it].end > 0
    /\ IF call.got + 1 < Capacity
       THEN call' = [call EXCEPT !.got = @ + 1] /\ UNCHANGED <<saved, main>>
       ELSE Return("ok")
    /\ UNCHANGED <<server, asked, buf, offset, popped, media>>

\* It throws.  The same happens at the next call when the item can't be decoded;
\* an item which MsgIter refuses is gone, and decoding goes on after it.
DecodingError ==
    /\ Decoding
    /\ asked[call.it].end > 0
    /\ Return("error")
    /\ UNCHANGED <<server, asked, buf, offset, popped, media>>

\* Mutant: the bytes before the offset stay.
AskInPlace(off, cnt) ==
    /\ Decoding
    /\ off \in asked[call.it].off .. asked[call.it].end
    /\ call' = [call EXCEPT !.step = "copy", !.off = off, !.cnt = cnt]
    /\ asked' = [asked EXCEPT ![call.it].off = off]
    /\ UNCHANGED <<server, buf, saved, offset, popped, media, main>>

\* It asks its medium for a buffer: CtfLiveSocketMedium::buf().
Ask(off, cnt) ==
    /\ Decoding
    /\ off \in asked[call.it].off .. asked[call.it].end
    /\ call' = [call EXCEPT !.step = IF off # offset[call.it] THEN "drop" ELSE "copy",
                            !.off = off, !.cnt = cnt]
    /\ asked' = [asked EXCEPT ![call.it].off = off]
    /\ UNCHANGED <<server, buf, saved, offset, popped, media, main>>

(***************************************************************************)
(* CtfLiveSocketFifo::next() has two critical sections; the server thread  *)
(* may push between them.                                                  *)
(***************************************************************************)
Drop ==
    LET i == call.it
        drop == call.off - offset[i]
    IN  /\ Alive /\ call.step = "drop"
        /\ popped' = (popped \/ drop < 0 \/ drop > Len(queue[i]))
        /\ queue' = [queue EXCEPT ![i] = SubSeq(@, drop + 1, Len(@))]
        /\ offset' = [offset EXCEPT ![i] = call.off]
        /\ call' = [call EXCEPT !.step = "copy"]
        /\ UNCHANGED <<server, asked, buf, saved, fifos, base, main>>

Copy ==
    LET i == call.it
    IN  /\ Alive /\ call.step = "copy"
        /\ Len(queue[i]) >= call.cnt
        /\ buf' = [buf EXCEPT ![i] = SubSeq(queue[i], 1, call.cnt)]
        /\ asked' = [asked EXCEPT ![i].end = call.off + call.cnt]
        /\ call' = [call EXCEPT !.step = "decode"]
        /\ UNCHANGED <<server, saved, offset, popped, media, main>>

\* Not enough data: bt2c::TryAgain.
NotEnough ==
    /\ Alive /\ call.step = "copy"
    /\ Len(queue[call.it]) < call.cnt
    /\ Return("again")
    /\ UNCHANGED <<server, asked, buf, offset, popped, media>>

(***************************************************************************)
(* The destructor of the server, called by ctf_live_finalize(), reads      *)
(* _mClientFd anew each time.                                              *)
(***************************************************************************)
\* The destructor starts.
Finalize ==
    /\ main \in {"run", "failed"} /\ Alive /\ call = NoCall
    /\ keepRunning' = FALSE
    /\ main' = IF client # "invalid" THEN "shutClient" ELSE "closeSocket"
    /\ UNCHANGED <<thread, client, listening, received, loop, dangling, reading, media>>

ShutClient ==
    /\ main = "shutClient" /\ Alive
    /\ client' = IF client = "open" THEN "shut" ELSE client
    /\ main' = "closeClient"
    /\ UNCHANGED <<thread, keepRunning, listening, received, loop, dangling, reading, media>>

CloseClient ==
    /\ main = "closeClient" /\ Alive
    /\ client' = IF Connected THEN "closed" ELSE client
    /\ main' = "closeSocket"
    /\ UNCHANGED <<thread, keepRunning, listening, received, loop, dangling, reading, media>>

CloseSocket ==
    /\ main = "closeSocket" /\ Alive
    /\ listening' = FALSE
    /\ main' = "join"
    /\ UNCHANGED <<thread, keepRunning, client, received, loop, dangling, reading, media>>

Join ==
    /\ main = "join" /\ thread = "ended"
    /\ main' = "gone"
    /\ UNCHANGED <<server, reading, media>>

Destructor == ShutClient \/ CloseClient \/ CloseSocket \/ Join

Answer == Drop \/ Copy \/ NotEnough

Decode ==
    \/ Message \/ DecodingError
    \/ \E off \in 0 .. MaxBytes, cnt \in 1 .. MaxRequest : Ask(off, cnt)

GraphThread ==
    \/ \E i \in Iterators : CreateMedium(i) \/ NextCall(i)
    \/ Decode \/ Answer \/ Finalize \/ Destructor

Over == main = "gone" \/ ~Alive
Terminated == Over /\ UNCHANGED vars

Next == Server \/ GraphThread \/ Terminated

(***************************************************************************)
(* Both threads are scheduled.  A client may be silent forever, but recv() *)
(* and accept() return when their descriptor is shut down or closed.       *)
(***************************************************************************)
Interrupted ==
    \/ client \in {"shut", "closed"} /\ (RecvEnd \/ RecvFails)
    \/ ~listening /\ AcceptFails

Fairness ==
    /\ WF_vars(CheckRunning) /\ WF_vars(CheckClient) /\ WF_vars(Push) /\ WF_vars(Cleanup)
    /\ WF_vars(Interrupted)
    /\ WF_vars(Destructor)

Spec == Init /\ [][Next]_vars /\ Fairness

-----------------------------------------------------------------------------
TypeOK ==
    /\ thread \in {"loop", "accept", "client", "recv", "push", "cleanup", "cleanupAndThrow", "ended", "terminated"}
    /\ keepRunning \in BOOLEAN /\ listening \in BOOLEAN
    /\ client \in {"invalid", "open", "shut", "closed"}
    /\ received \in 0 .. MaxBytes
    /\ fifos \in Seq(Iterators) /\ loop \in Seq(Iterators)
    /\ queue \in [Iterators -> Seq(Nat)] /\ buf \in [Iterators -> Seq(Nat)]
    /\ offset \in [Iterators -> Nat] /\ base \in [Iterators -> Nat]
    /\ main \in {"run", "failed", "shutClient", "closeClient", "closeSocket", "join", "gone"}

\* The bytes from the position `from' of the data of an iterator.
Sent(i, from, n) == [k \in 1 .. n |-> base[i] + from + k]

(***************************************************************************)
(* However pushes and requests interleave, a buffer has the bytes that the *)
(* clients sent at the offset requested, counted from the creation of the  *)
(* medium, and no request removes from a FIFO bytes which it doesn't have  *)
(* (the unguarded pop_front() of CtfLiveSocketFifo::next()).               *)
(***************************************************************************)
BuffersAreExact ==
    /\ ~popped
    /\ \A i \in Iterators :
        buf[i] = Sent(i, asked[i].end - Len(buf[i]), Len(buf[i]))

(***************************************************************************)
(* _pushData() gives each byte to each FIFO, once and in order: a FIFO has *)
(* all the bytes from its offset on, but the one that the loop has yet to  *)
(* give it.                                                                *)
(***************************************************************************)
FifosAreComplete ==
    \A i \in Range(fifos) :
        LET awaited == IF i \in Range(loop) THEN 1 ELSE 0
        IN  queue[i] = Sent(i, offset[i], received - awaited - base[i] - offset[i])

(***************************************************************************)
(* The destructor returns: neither accept() nor recv() blocks the thread   *)
(* that it joins.  It leaves no connection open, not even one which was    *)
(* accepted while it ran.                                                  *)
(***************************************************************************)
DestructorReturns == ~keepRunning ~> (~Alive \/ (main = "gone" /\ ~Connected))

(***************************************************************************)
(* An error which comes after some messages isn't forgotten ("Save this    *)
(* error for the next _next call", live-src.cpp): the next call of the     *)
(* iterator's next method returns it.                                      *)
(***************************************************************************)
ErrorsAreReturned ==
    [][\A i \in Iterators :
          saved[i] /\ call.it = i /\ call' = NoCall => main' = "failed"]_vars

(***************************************************************************)
(* "[...] the shutdown from the destructor force-closed the socket and     *)
(* accept returned -1. In this case, return to the destructor that joined  *)
(* here" (socket.cpp): without failures of the network, the server thread  *)
(* doesn't end the process while the destructor runs.                      *)
(***************************************************************************)
ReturnsToDestructor == ~keepRunning => Alive

=============================================================================
