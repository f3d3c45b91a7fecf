------------------------------- MODULE Muxer -------------------------------
(***************************************************************************)
(* The message iterator of the flt.utils.muxer component class             *)
(* (src/plugins/utils/muxer) between its upstream iterators and its        *)
(* downstream user, with the part of bt2::UserMessageIterator              *)
(* (src/cpp-common/bt2/component-class-dev.hpp) which turns an exception   *)
(* thrown after some messages into a success.                              *)
(*                                                                         *)
(* One step is one turn of a loop of _ensureFullHeap() or of _next(); an   *)
(* upstream iterator may answer "try again" or fail at each of them.       *)
(***************************************************************************)
EXTENDS Naturals, Sequences

CONSTANTS Ports,         \* the number of connected input ports
          MaxTime,       \* the bound on timestamps
          Ranks,         \* what MessageComparator sees of a message
          MaxMessages,   \* the bound on the messages of an upstream iterator
          UpBatch,       \* the most messages upstream returns at once
          Capacity,      \* the capacity of the array downstream gives
          Modes,         \* what the `live' parameter of the component may be
          Clocks,        \* the clock classes of the messages
          MaxAgains,     \* the bound on upstream's "try again" answers
          MaxErrors,     \* the bound on upstream's errors
          MaxSeeks       \* the bound on the seek operations

Upstreams == 1 .. Ports
NoClock == "none"
NoTime == MaxTime + 1

ASSUME MuxerAssumption ==
    /\ Ports \in Nat /\ MaxTime \in Nat /\ MaxMessages \in Nat
    /\ Ranks \subseteq Nat
    /\ UpBatch \in Nat \ {0} /\ Capacity \in Nat \ {0}
    /\ Modes \subseteq BOOLEAN
    /\ NoClock \notin Clocks
    /\ MaxAgains \in Nat /\ MaxErrors \in Nat /\ MaxSeeks \in Nat

VARIABLES
    live,         \* isLive
    content,      \* what each upstream iterator contains
    clockOf,      \* the clock class of its messages
    pos,          \* how many of those messages it has returned
    upState,      \* its state for the library
    buf,          \* _mMsgs: its messages the muxer still holds
    mustDiscard,  \* _mDiscardRequired
    heap,         \* _mHeap: how many times each upstream iterator is in it
    toReload,     \* _mUpstreamMsgItersToReload
    reloaded,     \* _mReloadedThisCycle
    clock,        \* the clock class the validator expects
    saved,        \* _mExcToThrowType
    pc,           \* which loop is running
    out,          \* the messages appended to downstream's array
    state,        \* the state of the muxer's iterator for the library
    status,       \* what the last call returned
    delivered,    \* what downstream got since the last seek
    agains, errors, seeks,
    failed        \* the kind of assertion which failed

upVars == <<live, content, clockOf, pos, upState>>
bufVars == <<buf, mustDiscard>>
heapVars == <<heap, toReload, reloaded>>
bounds == <<agains, errors, seeks>>
vars == <<upVars, bufVars, heapVars, clock, saved, pc, out, state, status,
          delivered, bounds, failed>>

-----------------------------------------------------------------------------
\* The messages of an upstream iterator come in the order of their times.
Message == [ts : 0 .. NoTime, rank : Ranks]

InTimeOrder(s) ==
    \A i, j \in DOMAIN s :
        i < j /\ s[i].ts # NoTime /\ s[j].ts # NoTime => s[i].ts <= s[j].ts

Traces ==
    {s \in UNION {[1 .. n -> Message] : n \in 0 .. MaxMessages} : InTimeOrder(s)}

\* Downstream's view of a message says which upstream iterator it is from.
From(u, m) == [up |-> u, ts |-> m.ts, rank |-> m.rank]
MarkedMessage == [up : Upstreams, ts : 0 .. NoTime, rank : Ranks]

UpStates == {"ACTIVE", "ENDED", "SEEK_FAILED"}

TypeOK ==
    /\ live \in Modes
    /\ content \in [Upstreams -> Seq(Message)]
    /\ clockOf \in [Upstreams -> Clocks]
    /\ pos \in [Upstreams -> Nat]
    /\ upState \in [Upstreams -> UpStates]
    /\ buf \in [Upstreams -> Seq(Message)]
    /\ mustDiscard \in [Upstreams -> BOOLEAN]
    /\ heap \in [Upstreams -> Nat]
    /\ toReload \in Seq(Upstreams)
    /\ reloaded \subseteq Upstreams
    /\ clock \in Clocks \cup {NoClock}
    /\ saved \in {"None", "Error"}
    /\ pc \in {"idle", "fill", "refill", "merge"}
    /\ out \in Seq(MarkedMessage)
    /\ state \in UpStates
    /\ status \in {"NONE", "OK", "END", "AGAIN", "ERROR"}
    /\ delivered \in Seq(MarkedMessage)
    /\ agains \in Nat /\ errors \in Nat /\ seeks \in Nat
    /\ failed \in {"no", "assertion", "precondition"}

\* MsgIter::MsgIter(): one upstream iterator per connected port, all of them
\* to reload.
AllUpstreams == [u \in 1 .. Ports |-> u]

Init ==
    /\ live \in Modes
    /\ content \in [Upstreams -> Traces]
    /\ clockOf \in [Upstreams -> Clocks]
    /\ pos = [u \in Upstreams |-> 0]
    /\ upState = [u \in Upstreams |-> "ACTIVE"]
    /\ buf = [u \in Upstreams |-> <<>>]
    /\ mustDiscard = [u \in Upstreams |-> FALSE]
    /\ heap = [u \in Upstreams |-> 0]
    /\ toReload = AllUpstreams
    /\ reloaded = {}
    /\ clock = NoClock
    /\ saved = "None"
    /\ pc = "idle"
    /\ out = <<>>
    /\ state = "ACTIVE"
    /\ status = "NONE"
    /\ delivered = <<>>
    /\ agains = 0 /\ errors = 0 /\ seeks = 0
    /\ failed = "no"
-----------------------------------------------------------------------------
(***************************************************************************)
(* UpstreamMsgIter (upstream-msg-iter.cpp).  buf[u] is what is left of the *)
(* current batch; the code has no batch exactly when this is empty.        *)
(***************************************************************************)

\* discard(): the current message goes, and the batch with its last message.
Discard(b) == Tail(b)

\* reload() with the messages b at hand: the possible outcomes.  Without any
\* it calls bt_message_iterator_next().
Loads(u, b) ==
    LET outcome(what, msgs) == [what |-> what, msgs |-> msgs]
        left == Len(content[u]) - pos[u]
    IN  IF b # <<>>
        THEN {outcome("More", b)}
        ELSE {outcome("More", SubSeq(content[u], pos[u] + 1, pos[u] + n)) :
                n \in {k \in 1 .. UpBatch : k <= left}}
             \cup (IF left = 0 THEN {outcome("NoMore", <<>>)} ELSE {})
             \cup (IF agains < MaxAgains THEN {outcome("TryAgain", <<>>)} ELSE {})
             \cup (IF errors < MaxErrors THEN {outcome("Error", <<>>)} ELSE {})

Throws(load) == load.what \in {"TryAgain", "Error"}

\* The library aborts in developer mode if the iterator is not active.
MayReload(u, b) == b # <<>> \/ upState[u] = "ACTIVE"

Reload(u, b, load) ==
    /\ buf' = [buf EXCEPT ![u] = load.msgs]
    /\ pos' = [pos EXCEPT ![u] = IF b = <<>> THEN @ + Len(load.msgs) ELSE @]
    /\ upState' = [upState EXCEPT ![u] = IF load.what = "NoMore" THEN "ENDED" ELSE @]
    /\ mustDiscard' = [mustDiscard EXCEPT ![u] = load.what = "More"]
    /\ agains' = IF load.what = "TryAgain" THEN agains + 1 ELSE agains
    /\ errors' = IF load.what = "Error" THEN errors + 1 ELSE errors

-----------------------------------------------------------------------------
(***************************************************************************)
(* _HeapComparator: whether the message of A goes before the one of B.     *)
(* Among those which no other one goes before, the heap picks any.         *)
(***************************************************************************)

\* Mutant: a message without timestamp waits for those which have one.
OlderUntimedLast(a, b) ==
    \/ a.ts < b.ts
    \/ a.ts = b.ts /\ a.rank < b.rank

Older(a, b) ==
    \/ a.ts # NoTime /\ b.ts # NoTime /\ a.ts < b.ts
    \/ a.ts = NoTime /\ b.ts # NoTime
    \/ a.ts = b.ts /\ a.rank < b.rank

InHeap == {u \in Upstreams : heap[u] > 0}

\* msg() is valid for each upstream iterator of the heap.
HeapIsReady == \A u \in InHeap : buf[u] # <<>>

Tops == {u \in InHeap : \A v \in InHeap : ~Older(Head(buf[v]), Head(buf[u]))}

Insert(h, u) == [h EXCEPT ![u] = @ + 1]

Remove(h, u) == [h EXCEPT ![u] = @ - 1]

-----------------------------------------------------------------------------
(***************************************************************************)
(* The end of a call of next(): bt2::UserMessageIterator::next() turns an  *)
(* exception into a success when there are messages, the bridge turns an   *)
(* empty array into the end, and the library records the end.              *)
(***************************************************************************)
Running(where) == pc = where /\ failed = "no"

\* Mutant: the messages appended before an exception are dropped.
ReturnNothing(exc, msgs) ==
    /\ pc' = "idle"
    /\ out' = <<>>
    /\ delivered' = IF exc = "None" THEN delivered \o msgs ELSE delivered
    /\ saved' = IF exc = "Error" /\ msgs # <<>> THEN "Error" ELSE saved
    /\ status' = CASE exc = "TryAgain" -> "AGAIN"
                   [] exc = "Error" -> "ERROR"
                   [] OTHER -> IF msgs = <<>> THEN "END" ELSE "OK"
    /\ state' = IF exc = "None" /\ msgs = <<>> THEN "ENDED" ELSE state

Return(exc, msgs) ==
    /\ pc' = "idle"
    /\ out' = <<>>
    /\ delivered' = delivered \o msgs
    /\ saved' = IF exc = "Error" /\ msgs # <<>> THEN "Error" ELSE saved
    /\ status' = CASE msgs # <<>> -> "OK"
                   [] exc = "None" -> "END"
                   [] exc = "TryAgain" -> "AGAIN"
                   [] OTHER -> "ERROR"
    /\ state' = IF exc = "None" /\ msgs = <<>> THEN "ENDED" ELSE state

GoOn(msgs) ==
    /\ out' = msgs
    /\ UNCHANGED <<pc, delivered, saved, status, state>>
-----------------------------------------------------------------------------
(***************************************************************************)
(* next() and _ensureFullHeap().                                           *)
(***************************************************************************)
MayCallNext == Running("idle") /\ state = "ACTIVE" /\ status # "ERROR"

\* The error which an earlier call saved.
NextThrowsSaved ==
    /\ MayCallNext
    /\ saved = "Error"
    /\ status' = "ERROR"
    /\ UNCHANGED <<upVars, bufVars, heapVars, clock, saved, pc, out, state,
                   delivered, bounds, failed>>

NextCall ==
    /\ MayCallNext
    /\ saved = "None"
    /\ pc' = "fill"
    /\ UNCHANGED <<upVars, bufVars, heapVars, clock, saved, out, state, status,
                   delivered, bounds, failed>>

\* What the loop of _ensureFullHeap() has not skipped.  An upstream iterator
\* is in reloaded before reload() is called, so the least one is the next.
Pending == {i \in DOMAIN toReload : toReload[i] \notin reloaded}

FillReload ==
    /\ Running("fill") \/ Running("refill")
    /\ \E first \in Pending :
        /\ \A i \in Pending : first <= i
        /\ LET u == toReload[first]
           IN  \E load \in Loads(u, buf[u]) :
                /\ reloaded' = reloaded \cup {u}
                /\ Reload(u, buf[u], load)
                /\ heap' = IF load.what = "More" THEN Insert(heap, u) ELSE heap
                /\ IF Throws(load) THEN Return(load.what, out) ELSE GoOn(out)
                /\ failed' = CASE mustDiscard[u] -> "assertion"
                               [] ~MayReload(u, buf[u]) -> "precondition"
                               [] OTHER -> failed
    /\ UNCHANGED <<live, content, clockOf, toReload, clock, seeks>>

FillDone ==
    /\ Running("fill")
    /\ Pending = {}
    /\ pc' = "merge"
    /\ UNCHANGED <<upVars, bufVars, heapVars, clock, saved, out, state, status,
                   delivered, bounds, failed>>

\* The end of reset(), which _next() returns after.
RefillDone ==
    /\ Running("refill")
    /\ Pending = {}
    /\ Return("None", out)
    /\ UNCHANGED <<upVars, bufVars, heapVars, clock, bounds, failed>>

-----------------------------------------------------------------------------
(***************************************************************************)
(* The loop of _next().                                                    *)
(***************************************************************************)
MergeFull ==
    /\ Running("merge")
    /\ Len(out) = Capacity
    /\ Return("None", out)
    /\ UNCHANGED <<upVars, bufVars, heapVars, clock, bounds, failed>>

\* The heap is empty: the end, but in live mode a new cycle.
MergeEmpty ==
    /\ Running("merge")
    /\ Len(out) < Capacity
    /\ InHeap = {}
    /\ IF live
       THEN /\ reloaded' = {}
            /\ toReload' = AllUpstreams
            /\ pc' = "refill"
            /\ UNCHANGED <<heap, out, delivered, saved, status, state>>
       ELSE /\ Return("None", out)
            /\ UNCHANGED heapVars
    /\ UNCHANGED <<upVars, bufVars, clock, bounds, failed>>

Selects(u) ==
    /\ Running("merge")
    /\ Len(out) < Capacity
    /\ HeapIsReady
    /\ u \in Tops

\* _validateMsgClkCls(): the first message sets the expectation.
IsCorrelated(u) == clock \in {NoClock, clockOf[u]}

MergeUncorrelated(u) ==
    /\ Selects(u)
    /\ ~IsCorrelated(u)
    /\ Return("Error", out)
    /\ UNCHANGED <<upVars, bufVars, heapVars, clock, bounds, failed>>

\* Mutant: an ended upstream iterator stays in the heap.
MergeHeapKeepsEnded(u, load) ==
    IF load.what = "TryAgain" THEN Remove(heap, u) ELSE heap

\* The upstream iterator which has no message leaves the heap; an error
\* leaves it there.
MergeHeap(u, load) ==
    IF load.what \in {"NoMore", "TryAgain"} THEN Remove(heap, u) ELSE heap

\* Append the oldest message, discard it, and reload its iterator.
MergeOldest(u) ==
    /\ Selects(u)
    /\ IsCorrelated(u)
    /\ clock' = clockOf[u]
    /\ LET rest == Discard(buf[u])
           msgs == Append(out, From(u, Head(buf[u])))
       IN  \E load \in Loads(u, rest) :
            /\ Reload(u, rest, load)
            /\ heap' = MergeHeap(u, load)
            /\ toReload' = IF load.what = "TryAgain" THEN Append(toReload, u)
                           ELSE toReload
            /\ IF Throws(load) THEN Return(load.what, msgs) ELSE GoOn(msgs)
            /\ failed' = CASE ~mustDiscard[u] -> "assertion"
                           [] ~MayReload(u, rest) -> "precondition"
                           [] OTHER -> failed
    /\ UNCHANGED <<live, content, clockOf, reloaded, seeks>>

\* msg() of an upstream iterator which has no message.
MergeStale ==
    /\ Running("merge")
    /\ Len(out) < Capacity
    /\ ~HeapIsReady
    /\ failed' = "assertion"
    /\ UNCHANGED <<upVars, bufVars, heapVars, clock, saved, pc, out, state, status,
                   delivered, bounds>>

-----------------------------------------------------------------------------
(***************************************************************************)
(* Seeking.                                                                *)
(***************************************************************************)

\* canSeekBeginning(): drops the saved error.
CanSeekBeginning ==
    /\ Running("idle")
    /\ saved' = "None"
    /\ UNCHANGED <<upVars, bufVars, heapVars, clock, pc, out, state, status,
                   delivered, bounds, failed>>

\* seekBeginning(): the upstream iterators up to number `done' seek, and the
\* one after it, if any, fails.
SeekBeginning(done) ==
    /\ Running("idle")
    /\ seeks < MaxSeeks
    /\ saved' = "None"
    /\ heap' = [u \in Upstreams |-> 0]
    /\ pos' = [u \in Upstreams |-> IF u <= done THEN 0 ELSE pos[u]]
    /\ buf' = [u \in Upstreams |-> IF u <= done THEN <<>> ELSE buf[u]]
    /\ mustDiscard' = [u \in Upstreams |-> u > done /\ mustDiscard[u]]
    /\ upState' = [u \in Upstreams |->
                    IF u <= done THEN "ACTIVE"
                    ELSE IF u = done + 1 THEN "SEEK_FAILED" ELSE upState[u]]
    /\ IF done = Ports
       THEN /\ toReload' = AllUpstreams
            /\ state' = "ACTIVE" /\ status' = "OK" /\ delivered' = <<>>
       ELSE /\ toReload' = <<>>
            /\ state' = "SEEK_FAILED" /\ status' = "AGAIN" /\ UNCHANGED delivered
    /\ seeks' = seeks + 1
    /\ UNCHANGED <<live, content, clockOf, reloaded, clock, pc, out, agains, errors, failed>>
-----------------------------------------------------------------------------
Next ==
    \/ NextThrowsSaved \/ NextCall
    \/ FillReload \/ FillDone \/ RefillDone
    \/ MergeFull \/ MergeEmpty \/ MergeStale
    \/ \E u \in Upstreams : MergeUncorrelated(u) \/ MergeOldest(u)
    \/ CanSeekBeginning
    \/ \E done \in 0 .. Ports : SeekBeginning(done)

Spec == Init /\ [][Next]_vars

\* Downstream calls next() as long as it may, and a call goes on by itself.
FairSpec ==
    /\ Spec
    /\ WF_vars(NextCall) /\ WF_vars(FillReload) /\ WF_vars(FillDone)
    /\ WF_vars(RefillDone) /\ WF_vars(MergeFull) /\ WF_vars(MergeEmpty)
    /\ WF_vars(\E u \in Upstreams : MergeOldest(u))

-----------------------------------------------------------------------------
\* Everything downstream has or is about to get.
Merged == delivered \o out

Taken(u) == pos[u] - Len(buf[u])

\* The messages msgs have the first n messages of an upstream iterator which
\* contains trace, each once and in order: place gives where each of them is.
HasFirst(msgs, u, trace, n) ==
    \E place \in [1 .. n -> 1 .. Len(msgs)] :
        /\ \A i, j \in 1 .. n : i < j => place[i] < place[j]
        /\ \A i \in 1 .. n : msgs[place[i]] = From(u, trace[i])
        /\ \A k \in 1 .. Len(msgs) : msgs[k].up = u => \E i \in 1 .. n : place[i] = k

(***************************************************************************)
(* Since the last seek, downstream got from each upstream iterator exactly *)
(* the messages which it returned and the muxer does not hold any more, in *)
(* order: _next() neither loses nor repeats a message, whatever the        *)
(* upstream iterators answer, "try again" and errors after some messages   *)
(* of the same call included.                                              *)
(***************************************************************************)
NothingLostOrRepeated ==
    state # "SEEK_FAILED" =>
        \A u \in Upstreams : HasFirst(Merged, u, content[u], Taken(u))

(***************************************************************************)
(* As long as no upstream iterator failed, an upstream iterator is in the  *)
(* heap at most once, and is there exactly while the muxer holds its       *)
(* current message and must discard it: msg(), discard() and reload() are  *)
(* called in the order which upstream-msg-iter.hpp asks for.               *)
(***************************************************************************)
HeapIsSound ==
    errors = 0 /\ state # "SEEK_FAILED" =>
        \A u \in Upstreams :
            /\ heap[u] = IF mustDiscard[u] THEN 1 ELSE 0
            /\ mustDiscard[u] <=> buf[u] # <<>>

(***************************************************************************)
(* The timestamps downstream sees never go back (man page of               *)
(* flt.utils.muxer: "a linear sequence of messages ordered by time"), but  *)
(* in live mode, which does not wait for an upstream iterator without      *)
(* message.                                                                *)
(***************************************************************************)
DeliversInTimeOrder == ~live => InTimeOrder(Merged)

(***************************************************************************)
(* Downstream is told of the end only when it got every message of each    *)
(* upstream iterator: _ensureFullHeap() "makes sure                        *)
(* `_mUpstreamMsgItersToReload` is empty" (msg-iter.hpp) before _next()    *)
(* takes an empty heap for the end.                                        *)
(***************************************************************************)
EndsWhenExhausted ==
    state = "ENDED" => \A u \in Upstreams : Taken(u) = Len(content[u])

(***************************************************************************)
(* As long as no upstream iterator failed, no assertion of UpstreamMsgIter *)
(* fails: msg() and discard() have a message, reload() has none to         *)
(* discard.                                                                *)
(***************************************************************************)
NoAssertionFails == errors = 0 => failed # "assertion"

(***************************************************************************)
(* reload() is not called again on an upstream iterator which ended: "you  *)
(* may not call msg(), msgTs(), or reload() again" (upstream-msg-iter.hpp).*)
(***************************************************************************)
EndedIsNotReloaded == failed # "precondition"

(***************************************************************************)
(* The muxer implements the ordered merge of its upstream iterators.       *)
(***************************************************************************)
MarkedTraces ==
    UNION {{[i \in DOMAIN s |-> From(u, s[i])] : s \in Traces} : u \in Upstreams}

Left ==
    [u \in Upstreams |->
        [i \in 1 .. Len(content[u]) - Taken(u) |-> From(u, content[u][Taken(u) + i])]]

Merge == INSTANCE OrderedMerge
         WITH Traces <- MarkedTraces, left <- Left, merged <- Merged, ended <- state = "ENDED"

ImplementsMerge == Merge!Spec

(***************************************************************************)
(* Downstream eventually gets every message of every upstream iterator,    *)
(* and then the end.                                                       *)
(***************************************************************************)
EverythingIsDelivered ==
    <>(/\ state = "ENDED"
       /\ \A u \in Upstreams : Taken(u) = Len(content[u]))
=============================================================================
