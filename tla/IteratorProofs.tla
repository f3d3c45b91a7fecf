-------------------------- MODULE IteratorProofs --------------------------
(***************************************************************************)
(* Proofs about message iterators (MessageIterator.tla) for any streams,   *)
(* any trace, any batches and any seeks.                                   *)
(***************************************************************************)
EXTENDS IteratorSteps

---------------------------------------------------------------------------
(* Seeking a time *)

\* Where no discarded-items message straddles a time, the fast-forward cuts none.
LEMMA NoneKept ==
    ASSUME Types, NEW ns \in Times, ~Straddling
    PROVE  Kept(Said, ns) = {}
<1>1. DOMAIN content = 1 .. Len(content)
  BY DEF Types
<1>2. Lasting(Said, ns) = {}
  BY <1>1 DEF Lasting, Said, Straddling
<1> QED
  BY <1>2 DEF Kept

\* The messages up to the place k of the trace are before the time ns.
LEMMA AllEarly ==
    ASSUME NEW t \in Seq(Sent), NEW k \in Nat, 1 <= k, k <= Len(t) + 1, NEW ns \in Times,
           \A i \in 1 .. k - 1 : ~Reached(t[i], ns)
    PROVE  SubSeq(t, 1, k - 1) \in Seq(Early(ns))
<1>1. PICK j \in Nat : j = k - 1
  OBVIOUS
<1>2. ASSUME NEW i \in 1 .. j PROVE t[i] \in Early(ns)
  <2>1. i \in 1 .. Len(t) /\ i \in 1 .. k - 1
    BY <1>1, LenProperties
  <2>2. t[i] \in Sent
    BY <2>1, ElementOfSeq
  <2> QED
    BY <2>1, <2>2 DEF Early
<1>3. SubSeq(t, 1, j) \in Seq(Early(ns))
  BY <1>2, SubSeqProperties
<1> QED
  BY <1>1, <1>3

\* A seek which the component does by itself preserves the invariant.
LEMMA TimeSoughtByItself ==
    ASSUME IterInv, NEW ns \in Times, SeekNsByItself(ns)
    PROVE  IterInv'
<1>1. /\ failed = "none" /\ ~Busy /\ seeks < MaxSeeks /\ undrained' = swapped
      /\ UserSeeksNs(ns)
      /\ perStream' = NoExpectation /\ lastNs' = ns /\ state' = "ACTIVE"
      /\ seeks' = seeks + 1 /\ sought' = ns /\ delivered' = <<>>
      /\ UNCHANGED <<upVars, autoMsgs, swapped, forward, failed>>
  BY Bounds DEF SeekNsByItself, MaySeek, MayCall, Sought
<1>2. PICK t \in Seq(Sent) : t = content
  BY DEF IterInv, Types
<1>3. PICK k \in Nat : /\ k = FirstAt(ns) /\ 1 <= k /\ k <= Len(t) + 1
                       /\ k <= Len(t) => Reached(t[k], ns)
                       /\ \A i \in 1 .. k - 1 : ~Reached(t[i], ns)
  BY <1>2, FirstAtFound, LenProperties
<1>4. PICK e \in Seq(Sent), r \in Seq(Sent) : e = SubSeq(t, 1, k - 1) /\ r = SubSeq(t, k, Len(t))
  BY <1>3, Halves, ZenonT(30)
<1>5. PICK states : states = [s \in Streams |-> StateAfterAll(e, s)]
  BY ZenonT(30)
<1>6. /\ k <= Len(t) \/ closed
      /\ pos' = k
      /\ \E order \in Orders({s \in Streams : states[s].open}) : prefix' = Replay(order, states, ns)
  BY <1>1, <1>2, <1>3, <1>4, <1>5, Zenon DEF UserSeeksNs
<1>7. PICK order \in Orders({s \in Streams : states[s].open}) : prefix' = Replay(order, states, ns)
  BY <1>6, Zenon
<1>8. t = e \o r /\ (k <= Len(t) => r[1] = t[k]) /\ Len(r) = Len(t) - k + 1
  BY <1>3, <1>4, Halves, ZenonT(30)
<1>9. (r # <<>> => Reached(r[1], ns)) /\ (r = <<>> => closed)
  <2>1. Len(t) \in Nat /\ (r # <<>> => Len(r) # 0) /\ (r = <<>> => Len(r) = 0)
    BY LenProperties, EmptySeq
  <2>2. r # <<>> => k <= Len(t)
    BY <1>3, <1>8, <2>1, SMTT(30)
  <2>3. r = <<>> => ~(k <= Len(t))
    BY <1>3, <1>8, <2>1
  <2> QED
    BY <1>3, <1>6, <1>8, <2>2, <2>3
<1>10. CheckFrom(Start, e \o r).ok /\ CheckFrom(Start, e).ok
  <2>1. CheckFrom(Start, e \o r).ok
    BY <1>2, <1>8 DEF IterInv, TraceInv
  <2>2. CheckFrom(Start, e \o r) = CheckFrom(CheckFrom(Start, e), r) /\ CheckFrom(Start, e) \in Checks
    BY CheckConcat, CheckType, StartIsSound
  <2> QED
    BY <2>1, <2>2, CheckOkBefore
<1>11. e \in Seq(Early(ns))
  BY <1>3, <1>4, AllEarly, SMTT(30)
<1>12. states \in SeekStates /\ AllTracked(states, CheckFrom(Start, e))
  BY <1>5, <1>10, StatesTracked, ZenonT(30)
<1>13. PICK c : c = [ok |-> TRUE, last |-> ns, streams |-> NoExpectation]
  BY ZenonT(30)
<1>14. PICK quiet \in BOOLEAN, over \in BOOLEAN, V \in SUBSET Sent, q \in Seq(Sent) :
           /\ q \in Seq(Kept(V, ns)) /\ quiet = ~Straddling /\ over = closed /\ (r = <<>> => over)
           /\ V = {} /\ q = <<>> /\ (quiet => Kept(V, ns) = {})
  <2>1. Straddling \in BOOLEAN /\ closed \in BOOLEAN
    BY StateFacts DEF IterInv, Types
  <2>2. <<>> \in Seq(Sent) /\ <<>> \in Seq(Kept({}, ns)) /\ Kept({}, ns) = {}
    BY EmptySeq DEF Kept, Lasting
  <2> QED
    BY <1>9, <2>1, <2>2, ZenonT(30)
<1>15. /\ Replay(order, states, ns) \in Seq(Sent)
       /\ FromTime(ns, <<>>, (Replay(order, states, ns) \o q) \o r, c, e \o r, quiet, over)
  <2>1. Seekable(ns, V, e, q, r, states, order, quiet, over)
    BY <1>7, <1>9, <1>10, <1>11, <1>12, <1>14, Zenon DEF Seekable
  <2>2. SoughtWith(ns, Replay(order, states, ns), q, r, e \o r, quiet, over)
    BY <2>1, SeekableIsSought, ZenonT(30)
  <2> QED
    BY <1>13, <2>2, Zenon DEF SoughtWith
<1>16. Types'
  <2>1. <<>> \in Seq(Sent)
    BY EmptySeq
  <2>2. seeks' \in 0 .. MaxSeeks
    BY <1>1, IteratorAssumption DEF IterInv, Types
  <2>3. /\ prefix' \in Seq(Sent) /\ pos' \in Nat /\ 1 <= pos' /\ pos' <= Len(content) + 1
        /\ content' = content
    BY <1>1, <1>2, <1>3, <1>6, <1>7, <1>15, ZenonT(30) DEF upVars
  <2> QED
    BY <1>1, <2>1, <2>2, <2>3, Bounds, ZenonT(30) DEF IterInv, Types, upVars, IteratorStates
<1>17. TraceInv' /\ Straddling' = Straddling
  BY <1>1, TraceStays
<1>18. ~Busy'
  BY <1>1 DEF Busy
<1>19. BusyInv' /\ SettledInv' /\ QueueInv' /\ NoCheckFails' /\ BeginningInv'
  BY <1>1, <1>18, Bounds DEF BusyInv, SettledInv, QueueInv, NoCheckFails, BeginningInv
<1>20. SeekInv'
  <2>1. ASSUME ~swapped PROVE Rest' = (Replay(order, states, ns) \o q) \o r
    <3>1. PICK p \in Seq(Sent) : p = Replay(order, states, ns)
      BY <1>15, ZenonT(30)
    <3>2. p \o <<>> = p /\ <<>> \o (p \o r) = p \o r
      BY ConcatEmptySeq, ConcatProperties, ZenonT(30)
    <3>3. Queue' = <<>> /\ Available' = p \o r
      BY <1>1, <1>2, <1>4, <1>6, <1>7, <2>1, <3>1, ZenonT(30) DEF Queue, Available, upVars
    <3> QED
      BY <1>14, <3>1, <3>2, <3>3, Zenon DEF Rest
  <2>2. Checker' = c /\ content' = e \o r /\ closed' = over /\ (~Straddling)' = quiet
    BY <1>1, <1>2, <1>8, <1>13, <1>14, <1>17 DEF Checker, upVars
  <2> QED
    BY <1>1, <1>15, <2>1, <2>2, Zenon DEF SeekInv
<1> QED
  BY <1>16, <1>17, <1>19, <1>20 DEF IterInv

\* The fast-forward is over: its queue is what downstream gets next.
LEMMA SeekFinished ==
    ASSUME IterInv, Busy, ~swapped, NEW msgs, NEW states, FinishSeek(msgs, states),
           NEW e, NEW q, NEW r, NEW z, msgs = q \o r, content = e \o (r \o z),
           Settles(forward.ns, Said, e, q, r, z, states, ~Straddling, closed),
           prefix' = <<>>, Available' = z, pos' \in Nat, 1 <= pos', pos' <= Len(content) + 1,
           failed' = "none"
    PROVE  IterInv'
<1>1. PICK ns : ns = forward.ns
  OBVIOUS
<1>2. /\ swapped' = (autoMsgs' # <<>>) /\ perStream' = NoExpectation /\ lastNs' = ns
      /\ state' = "ACTIVE" /\ sought' = ns /\ delivered' = <<>> /\ forward' = NoForward
      /\ UNCHANGED <<upVars, seekVars>>
      /\ \E order \in Orders({s \in Streams : states[s].open}) :
             autoMsgs' = Replay(order, states, ns) \o msgs
  BY <1>1, Bounds, Zenon DEF FinishSeek, Sought
<1>3. PICK order \in Orders({s \in Streams : states[s].open}) :
          autoMsgs' = Replay(order, states, ns) \o msgs
  BY <1>2, Zenon
<1>4. PICK a : a = autoMsgs'
  OBVIOUS
<1>5. PICK quiet, over : quiet = ~Straddling /\ over = closed
  OBVIOUS
<1>6. /\ a \in Seq(Sent)
      /\ FromTime(ns, <<>>, a \o z, [ok |-> TRUE, last |-> ns, streams |-> NoExpectation],
                  e \o (r \o z), quiet, over)
  <2>1. Settles(ns, Said, e, q, r, z, states, quiet, over)
    BY <1>1, <1>5, Zenon
  <2>2. a = Replay(order, states, ns) \o (q \o r)
    BY <1>3, <1>4, Zenon
  <2> QED
    BY <1>3, <2>1, <2>2, SettledQueue, ZenonT(30)
<1>7. ns \in Times
  BY <1>1 DEF IterInv, Types
<1>8. Types'
  <2>1. <<>> \in Seq(Sent) /\ content' = content
    BY <1>2, EmptySeq DEF upVars
  <2>2. autoMsgs' \in Seq(Sent) /\ swapped' \in BOOLEAN
    BY <1>2, <1>4, <1>6, Zenon
  <2> QED
    BY <1>2, <1>7, <2>1, <2>2, Bounds, ZenonT(30) DEF IterInv, Types, upVars, seekVars, IteratorStates
<1>9. TraceInv' /\ Straddling' = Straddling
  BY <1>2, TraceStays
<1>10. ~Busy' /\ ~undrained /\ undrained' = undrained
  BY <1>2, Bounds DEF Busy, IterInv, BusyInv, seekVars
<1>11. BusyInv' /\ SettledInv' /\ QueueInv' /\ NoCheckFails' /\ BeginningInv'
  BY <1>2, <1>7, <1>10, Bounds DEF BusyInv, SettledInv, QueueInv, NoCheckFails, BeginningInv
<1>12. SeekInv'
  <2>1. Queue' = a
    BY <1>2, <1>4, ZenonT(30) DEF Queue
  <2>2. Checker' = [ok |-> TRUE, last |-> ns, streams |-> NoExpectation] /\ content' = content /\ closed' = closed
    BY <1>2, Zenon DEF Checker, upVars
  <2> QED
    BY <1>2, <1>5, <1>6, <1>9, <2>1, <2>2, Zenon DEF SeekInv, Rest
<1> QED
  BY <1>8, <1>9, <1>11, <1>12 DEF IterInv

\* A fast-forward which meets the end preserves the invariant.
LEMMA ForwardEnds ==
    ASSUME IterInv, FastForwardEnds
    PROVE  IterInv'
<1>1. /\ failed = "none" /\ Busy /\ ~swapped /\ closed /\ Available = <<>>
      /\ failed' = (IF StreamsAreEnded THEN failed ELSE "post")
      /\ FinishSeek(autoMsgs, forward.states) /\ UNCHANGED <<prefix, pos, upVars>>
  BY ZenonT(30) DEF FastForwardEnds, Require, FinishSeek
<1>2. Forwarding /\ prefix = <<>>
  BY <1>1 DEF IterInv, BusyInv
<1>3. PICK t \in Seq(Sent), z \in Seq(Sent), p \in Seq(Sent) :
          t = content /\ z = SubSeq(content, pos, Len(content)) /\ p = Passed /\ t = p \o z
  BY StateFacts, ZenonT(30) DEF IterInv, Types
<1>4. z = <<>>
  <2>1. <<>> \o z = z
    BY ConcatEmptySeq
  <2> QED
    BY <1>1, <1>2, <1>3, <2>1, Zenon DEF Available
<1>5. p \o <<>> = p /\ <<>> \in Seq(Sent) /\ autoMsgs \o <<>> = autoMsgs /\ <<>> \o <<>> = <<>>
  BY EmptySeq, ConcatEmptySeq DEF IterInv, Types
<1>6. t = p
  BY <1>3, <1>4, <1>5, Zenon
<1>7. Checker = CheckFrom(Start, content)
  BY <1>2, <1>3, <1>6, Zenon DEF Forwarding
<1>8. StreamsAreEnded
  BY <1>1, <1>7, NoneOpen DEF IterInv, Resumes
<1>9. Settles(forward.ns, Said, t, autoMsgs, <<>>, <<>>, forward.states, ~Straddling, closed)
  <2>1. forward.ns \in Times /\ forward.states \in SeekStates /\ closed \in BOOLEAN
    BY DEF IterInv, Types
  <2>2. (~Straddling) \in BOOLEAN /\ (~Straddling => Kept(Said, forward.ns) = {}) /\ Said \in SUBSET Sent
    <3>1. Types /\ Straddling \in BOOLEAN /\ Said \in SUBSET Sent
      BY StateFacts DEF IterInv
    <3> QED
      BY <2>1, <3>1, NoneKept
  <2>3. t \in Seq(Early(forward.ns)) /\ autoMsgs \in Seq(Kept(Said, forward.ns))
    BY <1>2, <1>3, <1>6, Zenon DEF Forwarding
  <2>4. AllTracked(forward.states, CheckFrom(Start, t))
    BY <1>2, <1>3, <1>7, Zenon DEF Forwarding
  <2>5. t \o <<>> = t /\ CheckFrom(Start, t).ok
    BY <1>3, <1>5, <1>6 DEF IterInv, TraceInv
  <2> QED
    BY <1>1, <1>5, <2>1, <2>2, <2>3, <2>4, <2>5, Zenon DEF Settles
<1>10. Available' = <<>> /\ prefix' = <<>> /\ content = t \o (<<>> \o <<>>) /\ autoMsgs = autoMsgs \o <<>>
  BY <1>1, <1>2, <1>3, <1>5, <1>6, Zenon DEF Available, upVars
<1>11. pos' \in Nat /\ 1 <= pos' /\ pos' <= Len(content) + 1 /\ failed' = "none"
  BY <1>1, <1>8 DEF IterInv, Types
<1> QED
  BY <1>1, <1>9, <1>10, <1>11, SeekFinished, ZenonT(30)

\* A batch of the fast-forward preserves the invariant, found or not.
LEMMA ForwardGoesOn ==
    ASSUME IterInv, NEW n \in 1 .. BatchSize, FastForward(n)
    PROVE  IterInv'
<1>1. PICK b, h, y : b = SubSeq(Available, 1, n) /\ h = HandleBatch(b) /\ y = CheckBatch(b)
  BY ZenonT(30)
<1>2. /\ failed = "none" /\ Busy /\ ~swapped /\ n <= Len(Available)
      /\ failed' = (IF y.ok THEN failed ELSE "post")
      /\ prefix' = SubSeq(prefix, n + 1, Len(prefix))
      /\ pos' = (IF n > Len(prefix) THEN pos + n - Len(prefix) ELSE pos)
      /\ \/ h.gotFirst /\ FinishSeek(h.msgs, h.states)
         \/ /\ ~h.gotFirst
            /\ autoMsgs' = h.msgs
            /\ forward' = [forward EXCEPT !.states = h.states]
            /\ lastNs' = y.last /\ perStream' = y.streams
            /\ UNCHANGED <<upVars, state, swapped, seekVars, sought, delivered>>
  BY <1>1, Zenon DEF FastForward, Require, Take
<1>3. UNCHANGED upVars
  BY <1>2, Zenon DEF FinishSeek
<1>4. Types /\ TraceInv /\ Forwarding /\ prefix = <<>> /\ ~undrained /\ sought = Nowhere /\ state = "ACTIVE"
  BY <1>2 DEF IterInv, BusyInv
<1>5. PICK t \in Seq(Said), p \in Seq(Said), k \in Nat, j \in Nat, V \in SUBSET Sent :
          /\ p = <<>> /\ t = content /\ k = pos /\ 1 <= k /\ k <= Len(t) + 1 /\ j = n /\ V = Said
  <2>1. content \in Seq(Said) /\ Said \in SUBSET Sent
    BY <1>4, StateFacts
  <2>2. <<>> \in Seq(Said) /\ n \in Nat
    BY EmptySeq, IteratorAssumption
  <2> QED
    BY <1>4, <2>1, <2>2, ZenonT(30) DEF Types
<1>6. PICK k1 : k1 = pos'
  OBVIOUS
<1>7. PICK z, w : z = SubSeq(t, k1, Len(t)) /\ w = Passed
  BY ZenonT(30)
<1>8. /\ b \in Seq(V) /\ k1 \in Nat /\ 1 <= k1 /\ k1 <= Len(t) + 1
      /\ prefix' = <<>> /\ SubSeq(t, 1, k1 - 1) = w \o b
  <2>1. Available = p \o SubSeq(t, k, Len(t)) /\ prefix = p
    BY <1>4, <1>5, Zenon DEF Available
  <2>2. j <= Len(p \o SubSeq(t, k, Len(t)))
    BY <1>2, <1>5, <2>1, Zenon
  <2>3. k1 = IF j > Len(p) THEN k + j - Len(p) ELSE k
    BY <1>2, <1>5, <1>6, <2>1, Zenon
  <2>4. TakenFrom(Said, p, t, k, j, k1)
    BY <1>5, <2>2, <2>3, Taken, Zenon
  <2> QED
    BY <1>1, <1>2, <1>5, <1>7, <2>1, <2>4, Zenon DEF TakenFrom, Passed
<1>9. /\ t \in Seq(Sent) /\ b \in Seq(Sent) /\ w \in Seq(Sent) /\ z \in Seq(Sent)
      /\ t = (w \o b) \o z
  <2>1. t \in Seq(Sent) /\ b \in Seq(Sent) /\ w \in Seq(Sent)
    BY <1>4, <1>5, <1>7, <1>8, StateFacts, SeqMonotonic, SMTT(30)
  <2>2. z \in Seq(Sent) /\ t = SubSeq(t, 1, k1 - 1) \o z
    BY <1>7, <1>8, <2>1, Halves, ZenonT(30)
  <2> QED
    BY <1>8, <2>1, <2>2, Zenon
<1>10. PICK c \in Checks : c = Checker /\ c = CheckFrom(Start, w) /\ y = CheckFrom(c, b)
  BY <1>1, <1>4, <1>7, StateFacts, ZenonT(30) DEF Forwarding, CheckBatch, Checker
<1>11. CheckFrom(Start, (w \o b) \o z).ok /\ CheckFrom(Start, w \o b) = y /\ y.ok /\ Sound(c)
  <2>1. CheckFrom(Start, (w \o b) \o z).ok
    BY <1>4, <1>5, <1>9, Zenon DEF TraceInv
  <2>2. w \o b \in Seq(Sent)
    BY <1>9, ConcatProperties
  <2>3. PICK x \in Checks : x = CheckFrom(Start, w \o b)
    BY <2>2, CheckType, StartIsSound, ZenonT(30)
  <2>4. CheckFrom(x, z).ok
    BY <1>9, <2>1, <2>2, <2>3, CheckConcat, StartIsSound, ZenonT(30)
  <2>5. x = y
    BY <1>9, <1>10, <2>3, CheckConcat, StartIsSound
  <2>6. x.ok
    BY <1>9, <2>4, CheckOkBefore
  <2>7. c.ok
    BY <1>9, <1>10, <2>5, <2>6, CheckOkBefore
  <2>8. Sound(c)
    BY <1>9, <1>10, <2>7, SoundAfter, StartIsSound
  <2> QED
    BY <2>1, <2>3, <2>5, <2>6, <2>8
<1>12. PICK ns \in Times : ns = forward.ns /\ w \in Seq(Early(ns)) /\ autoMsgs \in Seq(Kept(V, ns))
                           /\ AllTracked(forward.states, c) /\ forward.states \in SeekStates
  BY <1>4, <1>5, <1>7, <1>10 DEF Forwarding, Types
<1>13. h \in Handles /\ (Skipped(h, b, c, ns, V) \/ Found(h, b, c, ns, V))
  <2>1. PICK g \in Handles : g = [gotFirst |-> FALSE, msgs |-> autoMsgs, states |-> forward.states]
    BY <1>4, <1>12, ZenonT(30) DEF Handles, Types
  <2>2. h = HandleFrom(g, b, ns)
    BY <1>1, <1>12, <2>1, Zenon DEF HandleBatch
  <2>3. Skipped(g, <<>>, c, ns, V)
    <3>1. CheckFrom(c, <<>>) = c /\ <<>> \in Seq(Early(ns))
      BY CheckNone, EmptySeq
    <3> QED
      BY <1>12, <2>1, <3>1 DEF Skipped
  <2>4. h \in Handles
    BY <1>9, <2>2, HandleType
  <2> QED
    BY <1>8, <1>10, <1>11, <2>2, <2>3, <2>4, HandleSplit, SMTT(30)
<1>14. CASE h.gotFirst
  <2>1. FinishSeek(h.msgs, h.states)
    BY <1>2, <1>14
  <2>2. PICK a \in Seq(Sent), q \in Seq(Kept(V, ns)), r \in Seq(Sent) :
            b = a \o r /\ SplitAt(h, a, q, r, c, ns)
    BY <1>13, <1>14, ZenonT(30) DEF Skipped, Found
  <2>3. PICK quiet \in BOOLEAN, over \in BOOLEAN :
            quiet = ~Straddling /\ over = closed /\ (quiet => Kept(V, ns) = {})
    BY <1>4, <1>5, StateFacts, NoneKept, ZenonT(30) DEF Types
  <2>4. /\ Settles(ns, V, w \o a, q, r, z, h.states, quiet, over)
        /\ (w \o b) \o z = (w \o a) \o (r \o z) /\ h.msgs = q \o r
    <3>1. Finds(ns, V, w, z, b, a, q, r, c, h, quiet, over)
      BY <1>9, <1>10, <1>11, <1>12, <1>13, <2>2, <2>3, Zenon DEF Finds
    <3>2. FoundAs(ns, V, w, z, b, a, q, r, h, quiet, over)
      BY <3>1, FoundSettles
    <3> QED
      BY <3>2, Zenon DEF FoundAs
  <2>5. Available' = z
    <3>1. <<>> \o z = z
      BY <1>9, ConcatEmptySeq
    <3> QED
      BY <1>3, <1>5, <1>6, <1>7, <1>8, <3>1, Zenon DEF Available, upVars
  <2>6. Settles(forward.ns, Said, w \o a, q, r, z, h.states, ~Straddling, closed)
    BY <1>5, <1>12, <2>3, <2>4, Zenon
  <2>7. content = (w \o a) \o (r \o z)
    BY <1>5, <1>9, <2>4, Zenon
  <2>8. failed' = "none" /\ pos' \in Nat /\ 1 <= pos' /\ pos' <= Len(content) + 1
    BY <1>2, <1>5, <1>6, <1>8, <1>11
  <2> QED
    BY <1>2, <1>8, <2>1, <2>4, <2>5, <2>6, <2>7, <2>8, SeekFinished, ZenonT(30)
<1>15. CASE ~h.gotFirst
  <2>1. /\ autoMsgs' = h.msgs /\ forward' = [forward EXCEPT !.states = h.states]
        /\ lastNs' = y.last /\ perStream' = y.streams /\ failed' = "none"
        /\ UNCHANGED <<upVars, state, swapped, seekVars, sought, delivered>>
    BY <1>2, <1>11, <1>15, SMTT(30)
  <2>2. Skipped(h, b, c, ns, V)
    BY <1>13, <1>15 DEF Found
  <2>3. y \in Checks /\ Checker' = y
    <3>1. y \in Checks
      BY <1>9, <1>10, CheckType
    <3> QED
      BY <1>11, <2>1, <3>1 DEF Checker, Checks
  <2>4. h.states \in SeekStates /\ h.msgs \in Seq(Sent)
    BY <1>13 DEF Handles
  <2>5. forward' \in [on : BOOLEAN, ns : Times, states : SeekStates]
        /\ forward'.on = forward.on /\ forward'.ns = ns /\ forward'.states = h.states
    BY <1>4, <1>12, <2>1, <2>4, ZenonT(30) DEF Types
  <2>6. Types'
    <3>1. y.last \in Times /\ y.streams \in [Streams -> StreamState] /\ <<>> \in Seq(Sent)
      BY <2>3, EmptySeq DEF Checks
    <3> QED
      BY <1>4, <1>5, <1>6, <1>8, <2>1, <2>4, <2>5, <3>1, SMTT(30) DEF Types, upVars, seekVars
  <2>7. TraceInv' /\ Straddling' = Straddling /\ Said' = Said
    BY <1>3, TraceStays
  <2>8. Forwarding'
    <3>1. Passed' = w \o b
      BY <1>3, <1>5, <1>6, <1>8, Zenon DEF Passed, upVars
    <3>2. w \o b \in Seq(Early(ns))
      BY <1>12, <2>2, ConcatProperties DEF Skipped
    <3>3. AllTracked(h.states, y) /\ h.msgs \in Seq(Kept(V, ns))
      BY <1>10, <2>2 DEF Skipped
    <3> QED
      BY <1>5, <1>11, <2>1, <2>3, <2>5, <2>7, <3>1, <3>2, <3>3, Zenon DEF Forwarding
  <2>9. Busy'
    BY <1>2, <2>5 DEF Busy
  <2>10. BusyInv' /\ SettledInv' /\ QueueInv' /\ NoCheckFails' /\ BeginningInv' /\ SeekInv'
    BY <1>2, <1>4, <1>8, <2>1, <2>8, <2>9, Bounds
       DEF IterInv, BusyInv, SettledInv, QueueInv, NoCheckFails, BeginningInv, SeekInv, Settled, seekVars
  <2> QED
    BY <2>6, <2>7, <2>10 DEF IterInv
<1> QED
  BY <1>14, <1>15

---------------------------------------------------------------------------
(* The theorems *)

\* Every step preserves the invariant.
LEMMA IterNext ==
    ASSUME IterInv, [Next]_vars
    PROVE  IterInv'
<1>1. CASE UNCHANGED vars
  <2>1. UNCHANGED <<content, phase, packets, closed, prefix, pos, state, lastNs, perStream, autoMsgs, swapped>>
    BY <1>1 DEF vars, upVars, iterVars
  <2>2. UNCHANGED <<forward, seeks, undrained, sought, delivered, failed>>
    BY <1>1 DEF vars, iterVars, seekVars
  <2> USE <2>1, <2>2
  <2>3. Types' /\ TraceInv'
    BY DEF IterInv, Types, TraceInv
  <2>4. UNCHANGED <<Busy, Settled, Rest, Checker, Passed, Said, Straddling>>
    BY DEF Busy, Settled, Rest, Queue, Available, Checker, Passed, Said, Straddling
  <2>5. BusyInv' /\ SettledInv' /\ QueueInv'
    BY <2>4 DEF IterInv, BusyInv, SettledInv, QueueInv, Forwarding
  <2>6. BeginningInv' /\ SeekInv' /\ NoCheckFails'
    BY <2>4 DEF IterInv, BeginningInv, SeekInv, NoCheckFails
  <2> QED
    BY <2>3, <2>5, <2>6 DEF IterInv
<1>2. ASSUME NEW s \in Streams, ProduceMessage(s) PROVE IterInv'
  BY <1>2, Produced, ZenonT(30)
<1>3. CASE ProduceInactivity
  BY <1>3, ProducedInactivity, ZenonT(30)
<1>4. CASE Close
  BY <1>4, Closed, ZenonT(30)
<1>5. ASSUME NEW n \in 1 .. BatchSize, NextFromUser(n) PROVE IterInv'
  BY <1>5, NextByUser, ZenonT(30)
<1>6. ASSUME NEW n \in 1 .. BatchSize, FastForward(n) PROVE IterInv'
  BY <1>6, ForwardGoesOn, ZenonT(30)
<1>7. CASE NextEnds
  BY <1>7, NextByEnd, ZenonT(30)
<1>8. CASE NextFromQueue
  BY <1>8, NextByQueue, ZenonT(30)
<1>9. CASE SeekBeginning
  BY <1>9, BeginningSought, ZenonT(30)
<1>10. ASSUME NEW status \in SeekFailures,
              \/ SeekBeginningFails(status) \/ CanSeekNsFails(status)
              \/ \E ns \in Times : SeekNsFails(ns, status)
       PROVE  IterInv'
  BY <1>10, SeekFailed, ZenonT(30)
<1>11. ASSUME NEW status \in SeekFailures, FastForwardFails(status) PROVE IterInv'
  BY <1>11, ForwardFailed, ZenonT(30)
<1>12. ASSUME NEW ns \in Times, SeekNsByItself(ns) PROVE IterInv'
  BY <1>12, TimeSoughtByItself, ZenonT(30)
<1>13. ASSUME NEW ns \in Times, AutoSeek(ns) PROVE IterInv'
  BY <1>13, AutoSeekBegins, ZenonT(30)
<1>14. CASE FastForwardEnds
  BY <1>14, ForwardEnds, ZenonT(30)
<1>15. CASE FastForwardFromQueue
  BY <1>15, ForwardFromQueue, ZenonT(30)
<1> QED
  BY <1>1, <1>2, <1>3, <1>4, <1>5, <1>6, <1>7, <1>8, <1>9, <1>10, <1>11, <1>12, <1>13, <1>14, <1>15,
     ZenonT(30) DEF Next

\* The invariant holds in every reachable state.
LEMMA IterInvariant == Spec => []IterInv
<1>1. Init => IterInv
  BY IterInit
<1>2. IterInv /\ [Next]_vars => IterInv'
  BY IterNext
<1> QED
  BY <1>1, <1>2, PTL DEF Spec

\* Every variable of a message iterator keeps its type.
THEOREM IteratorTypes == Spec => []TypeOK
<1>1. IterInv => TypeOK
  <2>1. Sent \subseteq Message
    BY DEF Sent
  <2>2. Seq(Sent) \subseteq Seq(Message)
    BY <2>1, SeqMonotonic
  <2> QED
    BY <2>2 DEF IterInv, Types, TypeOK, SeekStates
<1> QED
  BY <1>1, IterInvariant, PTL

\* Whatever a seek replays, what bt_message_iterator_next() returns passes the
\* postconditions of call_iterator_next_method(), and the queue of an automatic
\* seek is never empty when post_auto_seek_next() is called, but after a seek
\* while messages of an automatic one wait, or around discarded items which last.
THEOREM ChecksHold == Spec => []NoCheckFails
<1>1. IterInv => NoCheckFails
  BY DEF IterInv
<1> QED
  BY <1>1, IterInvariant, PTL

\* After bt_message_iterator_seek_beginning() downstream gets the messages of
\* the trace from the first one on.
THEOREM BeginningComesFirst == Spec => []BeginningIsFirst
<1>1. IterInv => BeginningIsFirst
  <2> SUFFICES ASSUME IterInv, sought = Beginning, ~undrained
               PROVE  Len(delivered) <= Len(content) /\ delivered = SubSeq(content, 1, Len(delivered))
    BY DEF BeginningIsFirst
  <2>1. PICK d \in Seq(Sent), r \in Seq(Sent), t \in Seq(Sent) : d = delivered /\ r = Rest /\ t = content
    BY StateFacts DEF IterInv, Types
  <2>2. t = d \o r
    BY <2>1 DEF IterInv, BeginningInv, FromBeginning
  <2>3. SubSeq(t, 1, Len(d)) = d /\ Len(t) = Len(d) + Len(r)
    BY <2>2, Joined
  <2>4. Len(d) \in Nat /\ Len(r) \in Nat
    BY LenProperties
  <2>5. Len(d) <= Len(t)
    BY <2>3, <2>4
  <2> QED
    BY <2>1, <2>3, <2>5
<1> QED
  BY <1>1, IterInvariant, PTL

\* After bt_message_iterator_seek_ns_from_origin(), with the user's method or
\* with a fast-forward, downstream gets the events at or after the time sought,
\* each once and in order, and nothing with an earlier clock snapshot.
THEOREM SeekReachesItsTime == Spec => []SeekIsExact
<1>1. IterInv => SeekIsExact
  <2> SUFFICES ASSUME IterInv, Settled, sought \in Times, ~undrained
               PROVE  /\ Events(delivered \o Queue \o Available, 0) = Events(content, sought)
                      /\ \A i \in DOMAIN (delivered \o Queue) : (delivered \o Queue)[i].ts >= sought
    BY DEF SeekIsExact
  <2>1. PICK d \in Seq(Sent), u \in Seq(Sent), a \in Seq(Sent) : d = delivered /\ u = Queue /\ a = Available
    BY StateFacts DEF IterInv, Types
  <2>2. FromTime(sought, d, u \o a, Checker, content, ~Straddling, closed)
    BY <2>1, Zenon DEF IterInv, SeekInv, Rest
  <2>3. (d \o u) \o a = d \o (u \o a)
    <3>1. Regrouped(d, u, a)
      BY Regroup
    <3> QED
      BY <3>1, Zenon DEF Regrouped
  <2>4. (d \o u) \o a \in Seq(Late(sought)) /\ Events((d \o u) \o a, 0) = Events(content, sought)
    BY <2>2, <2>3, Zenon DEF FromTime
  <2>5. PICK v \in Seq(Sent) : v = d \o u
    BY ConcatProperties, ZenonT(30)
  <2>6. ASSUME NEW i \in DOMAIN v PROVE v[i].ts >= sought
    <3>1. i \in 1 .. Len(v) /\ Len(v) \in Nat /\ Len(a) \in Nat
      BY <2>6, LenProperties
    <3>2. Len(v \o a) = Len(v) + Len(a) /\ (v \o a)[i] = v[i]
      BY <3>1, ConcatProperties
    <3>3. i \in 1 .. Len(v \o a)
      BY <3>1, <3>2
    <3>4. v \o a \in Seq(Late(sought))
      BY <2>4, <2>5, Zenon
    <3>5. v[i] \in Late(sought)
      BY <3>2, <3>3, <3>4, ElementOfSeq
    <3> QED
      BY <3>5 DEF Late
  <2> QED
    BY <2>1, <2>4, <2>5, <2>6, Zenon
<1> QED
  BY <1>1, IterInvariant, PTL

\* Once the user's iterator has returned all of the trace so far, the checker of
\* message sequences expects of each stream what the rules of message.h let
\* follow, if the last seek found no message of an automatic seek waiting.
THEOREM CheckerFollowsTheRules == Spec => []CheckerIsExact
<1>1. IterInv => CheckerIsExact
  <2> SUFFICES ASSUME IterInv, ~undrained, sought = Beginning, pos = Len(content) + 1, NEW s \in Streams
               PROVE  perStream[s].expected = LegalTypes(phase[s])
    BY ZenonT(30) DEF CheckerIsExact
  <2>1. /\ FromBeginning(delivered, Rest, Checker, content) /\ ~swapped /\ prefix = <<>>
    BY DEF IterInv, BeginningInv
  <2>2. PICK t \in Seq(Sent), n \in Nat : t = content /\ n = Len(t) /\ pos = n + 1
    BY LenProperties DEF IterInv, Types
  <2>3. Rest = <<>>
    <3>1. SubSeq(t, n + 1, n) = <<>> /\ <<>> \o <<>> = <<>>
      BY SubSeqEmpty, EmptySeq, ConcatEmptySeq
    <3> QED
      BY <2>1, <2>2, <3>1, Zenon DEF Rest, Queue, Available
  <2>4. CheckFrom(Checker, <<>>) = Checker
    BY StateFacts, CheckNone DEF IterInv
  <2>5. Checker = CheckFrom(Start, content)
    BY <2>1, <2>3, <2>4 DEF FromBeginning
  <2>6. InPhase(Checker.streams[s], phase[s], packets[s])
    BY <2>5 DEF IterInv, TraceInv
  <2> QED
    BY <2>6, ZenonT(30) DEF InPhase, Checker
<1> QED
  BY <1>1, IterInvariant, PTL
===========================================================================
