--------------------------- MODULE IteratorSeeks ---------------------------
(***************************************************************************)
(* What a seek of a time finds and replays (MessageIterator.tla), for      *)
(* message sequences of any length: lemmas for IteratorProofs.             *)
(***************************************************************************)
EXTENDS IteratorLemmas

---------------------------------------------------------------------------
(* The first message at or after the time sought *)

\* The messages before it, and those the fast-forward keeps of them: the
\* discarded items of V which begin before the time ns and last until it.
Early(ns) == {m \in Sent : ~Reached(m, ns)}

Lasting(V, ns) == {m \in V : m.ts < ns /\ Straddles(m, ns)}

Kept(V, ns) == {Trimmed(m, ns) : m \in Lasting(V, ns)}

Skipped(h, b, c, ns, V) ==
    /\ ~h.gotFirst
    /\ h.msgs \in Seq(Kept(V, ns))
    /\ b \in Seq(Early(ns))
    /\ AllTracked(h.states, CheckFrom(c, b))

\* The messages are a and then r, of which the first is the one sought.
SplitAt(h, a, q, r, c, ns) ==
    /\ r # <<>> /\ Reached(r[1], ns)
    /\ h.msgs = q \o r
    /\ a \in Seq(Early(ns))
    /\ AllTracked(h.states, CheckFrom(c, a))

Found(h, b, c, ns, V) ==
    /\ h.gotFirst
    /\ \E a \in Seq(Sent), q \in Seq(Kept(V, ns)), r \in Seq(Sent) :
           b = a \o r /\ SplitAt(h, a, q, r, c, ns)

\* What the fast-forward cuts and keeps is late enough, is no event, and begins no packet.
LEMMA KeptType ==
    ASSUME NEW V \in SUBSET Sent, NEW ns \in Times
    PROVE  /\ Kept(V, ns) \subseteq Late(ns) \cap Other(0)
           /\ \A k \in Kept(V, ns) : \E m \in V : k.stream = m.stream /\ k.type = m.type /\ k.type # "PB"
           /\ Seq(Kept(V, ns)) \subseteq Seq(Sent)
<1>1. ASSUME NEW m \in Lasting(V, ns)
      PROVE  /\ Trimmed(m, ns) \in Late(ns) /\ Trimmed(m, ns) \in Other(0)
             /\ Trimmed(m, ns).stream = m.stream /\ Trimmed(m, ns).type = m.type /\ m.type # "PB"
  <2>1. m \in Sent /\ Straddles(m, ns) /\ ns \in Nat
    BY SequenceAssumption DEF Lasting, Times
  <2>2. Trimmed(m, ns) \in Sent
    BY <2>1, TrimmedType
  <2>3. /\ Trimmed(m, ns).ts = ns /\ Trimmed(m, ns).type = m.type
        /\ Trimmed(m, ns).stream = m.stream /\ m.type \in {"DE", "DP"}
    BY <2>1 DEF Trimmed, Straddles, Sent, Message
  <2> QED
    BY <2>1, <2>2, <2>3 DEF Late, Other, Wanted
<1>2. Kept(V, ns) \subseteq Late(ns) \cap Other(0)
  BY <1>1 DEF Kept
<1>3. Kept(V, ns) \subseteq Sent
  BY <1>2 DEF Late
<1> QED
  BY <1>1, <1>2, <1>3, SeqMonotonic DEF Kept, Lasting

\* A message before the one sought is skipped, or kept.
LEMMA SkippedOn ==
    ASSUME NEW c \in Checks, NEW ns \in Times, NEW h \in Handles, NEW b \in Seq(Sent),
           NEW V \in SUBSET Sent, NEW m \in V, Sound(CheckFrom(c, b)), Skipped(h, b, c, ns, V),
           CheckFrom(c, Append(b, m)).ok, ~Reached(m, ns)
    PROVE  Skipped(HandleMessage(h, m, ns), Append(b, m), c, ns, V)
<1>1. PICK x : x = CheckFrom(c, b)
  OBVIOUS
<1>2. m \in Sent /\ x \in Checks /\ CheckFrom(c, Append(b, m)) = CheckMessage(x, m)
  BY <1>1, CheckType, CheckAppend
<1>3. /\ ~h.gotFirst /\ h.msgs \in Seq(Kept(V, ns)) /\ b \in Seq(Early(ns))
      /\ AllTracked(h.states, x) /\ h.states \in SeekStates
  BY <1>1 DEF Skipped, Handles
<1>4. AllTracked(SkipMessage(h.states, m), CheckMessage(x, m))
  BY <1>1, <1>2, <1>3, SkipTracks
<1>5. Append(b, m) \in Seq(Early(ns))
  <2>1. m \in Early(ns)
    BY <1>2 DEF Early
  <2> QED
    BY <1>3, <2>1, AppendProperties
<1>6. CASE ~Straddles(m, ns)
  <2>1. /\ ~HandleMessage(h, m, ns).gotFirst
        /\ HandleMessage(h, m, ns).msgs = h.msgs
        /\ HandleMessage(h, m, ns).states = SkipMessage(h.states, m)
    BY <1>2, <1>3, <1>6, HandleStep
  <2> QED
    BY <1>2, <1>3, <1>4, <1>5, <2>1 DEF Skipped
<1>7. CASE Straddles(m, ns)
  <2>1. /\ ~HandleMessage(h, m, ns).gotFirst
        /\ HandleMessage(h, m, ns).msgs = Append(h.msgs, Trimmed(m, ns))
        /\ HandleMessage(h, m, ns).states = h.states
    BY <1>2, <1>3, <1>7, HandleStep
  <2>2. Trimmed(m, ns) \in Kept(V, ns)
    <3>1. m.ts < ns
      BY <1>2, <1>7, SequenceAssumption DEF Straddles, Reached, Sent, Message, Times, NoTime
    <3> QED
      BY <1>7, <3>1 DEF Kept, Lasting
  <2>3. Append(h.msgs, Trimmed(m, ns)) \in Seq(Kept(V, ns))
    BY <1>3, <2>2, AppendProperties
  <2>4. AllTracked(h.states, CheckMessage(x, m))
    <3>1. m.type \in {"DE", "DP"}
      BY <1>7 DEF Straddles
    <3>2. ASSUME NEW s \in Streams
          PROVE  /\ SkipMessage(h.states, m)[s].open = h.states[s].open
                 /\ SkipMessage(h.states, m)[s].packet = h.states[s].packet
      <4>1. SkipMessage(h.states, m)[s] = IF s = m.stream THEN SkipOne(h.states[s], m) ELSE h.states[s]
        BY <1>2, <1>3, SkipStep
      <4>2. h.states[s] \in SeekState
        BY <1>3 DEF SeekStates
      <4>3. /\ SkipOne(h.states[s], m).open = h.states[s].open
            /\ SkipOne(h.states[s], m).packet = h.states[s].packet
        BY <3>1, <4>2 DEF SkipOne, SeekState
      <4> QED
        BY <4>1, <4>3
    <3> QED
      BY <1>4, <3>2, ZenonT(30) DEF AllTracked, Tracks
  <2> QED
    BY <1>2, <1>5, <2>1, <2>3, <2>4 DEF Skipped
<1> QED
  BY <1>6, <1>7

\* The message sought, and those which come after it.
LEMMA FoundOn ==
    ASSUME NEW c \in Checks, NEW ns \in Times, NEW h \in Handles, NEW b \in Seq(Sent),
           NEW V \in SUBSET Sent, NEW m \in Sent,
           (Skipped(h, b, c, ns, V) /\ Reached(m, ns)) \/ Found(h, b, c, ns, V)
    PROVE  Found(HandleMessage(h, m, ns), Append(b, m), c, ns, V)
<1>1. CASE Skipped(h, b, c, ns, V) /\ Reached(m, ns)
  <2>0. <<m>> \in Seq(Sent)
    OBVIOUS
  <2>1. PICK r \in Seq(Sent), q \in Seq(Kept(V, ns)) : r = <<m>> /\ q = h.msgs
    BY <1>1, <2>0, Zenon DEF Skipped
  <2>2. Append(b, m) = b \o r /\ Append(q, m) = q \o r /\ r # <<>> /\ r[1] = m
    BY <2>1, AppendIsConcat
  <2>3. /\ HandleMessage(h, m, ns).gotFirst
        /\ HandleMessage(h, m, ns).msgs = Append(q, m)
        /\ HandleMessage(h, m, ns).states = h.states
    BY <1>1, <2>1, HandleStep
  <2>4. SplitAt(HandleMessage(h, m, ns), b, q, r, c, ns)
    BY <1>1, <2>2, <2>3, Zenon DEF SplitAt, Skipped
  <2> QED
    BY <2>2, <2>3, <2>4, Zenon DEF Found
<1>2. CASE Found(h, b, c, ns, V)
  <2>1. PICK a \in Seq(Sent), q \in Seq(Kept(V, ns)), r \in Seq(Sent) :
            b = a \o r /\ SplitAt(h, a, q, r, c, ns)
    BY <1>2, ZenonT(30) DEF Found
  <2>2. PICK t \in Seq(Sent) : t = Append(r, m)
    BY AppendProperties, ZenonT(30)
  <2>3. Append(b, m) = a \o t /\ Append(q \o r, m) = q \o t
    <3>1. a \o Append(r, m) = Append(a \o r, m)
      BY ConcatAppend, SMTT(30)
    <3>2. q \in Seq(Sent)
      BY KeptType
    <3>3. q \o Append(r, m) = Append(q \o r, m)
      BY <3>2, ConcatAppend
    <3> QED
      BY <2>1, <2>2, <3>1, <3>3, Zenon
  <2>4. t # <<>> /\ t[1] = r[1]
    BY <2>1, <2>2, SMTT(30) DEF SplitAt
  <2>5. /\ HandleMessage(h, m, ns).gotFirst
        /\ HandleMessage(h, m, ns).msgs = Append(h.msgs, m)
        /\ HandleMessage(h, m, ns).states = h.states
    BY <1>2, HandleStep DEF Found
  <2>6. SplitAt(HandleMessage(h, m, ns), a, q, t, c, ns)
    BY <2>1, <2>3, <2>4, <2>5, Zenon DEF SplitAt
  <2> QED
    BY <2>3, <2>5, <2>6, Zenon DEF Found
<1> QED
  BY <1>1, <1>2

\* After a batch which the checker accepts, the fast-forward either still skips or has found the
\* time sought.
LEMMA HandleSplit ==
    ASSUME NEW c \in Checks, Sound(c), NEW ns \in Times, NEW h \in Handles, NEW V \in SUBSET Sent,
           Skipped(h, <<>>, c, ns, V), NEW b \in Seq(V), CheckFrom(c, b).ok
    PROVE  \/ Skipped(HandleFrom(h, b, ns), b, c, ns, V)
           \/ Found(HandleFrom(h, b, ns), b, c, ns, V)
<1> DEFINE P(q) == \/ Skipped(HandleFrom(h, q, ns), q, c, ns, V)
                   \/ Found(HandleFrom(h, q, ns), q, c, ns, V)
<1> HIDE DEF P
<1>0. Seq(V) \subseteq Seq(Sent)
  BY SeqMonotonic
<1>1. PICK S : S = {q \in Seq(Sent) : CheckFrom(c, q).ok => P(q)}
  BY ZenonT(30)
<1>2. <<>> \in S
  <2>1. <<>> \in Seq(Sent) /\ HandleFrom(h, <<>>, ns) = h
    BY EmptySeq, HandleNone
  <2>2. P(<<>>)
    BY <2>1 DEF P
  <2> QED
    BY <1>1, <2>1, <2>2
<1>3. ASSUME NEW q \in Seq(V), NEW e \in V, q \in S PROVE Append(q, e) \in S
  <2>1. q \in Seq(Sent) /\ e \in Sent
    BY <1>0
  <2>2. /\ CheckFrom(c, q) \in Checks /\ CheckFrom(c, Append(q, e)) = CheckMessage(CheckFrom(c, q), e)
        /\ Append(q, e) \in Seq(Sent)
    BY <2>1, CheckAppend, AppendProperties
  <2>3. CheckMessage(CheckFrom(c, q), e).ok => CheckFrom(c, q).ok
    BY <2>1, <2>2, CheckStep
  <2>4. PICK g : g = HandleFrom(h, q, ns)
    OBVIOUS
  <2>5. g \in Handles /\ HandleFrom(h, Append(q, e), ns) = HandleMessage(g, e, ns)
    BY <2>1, <2>4, HandleAppend
  <2>6. ASSUME CheckFrom(c, Append(q, e)).ok PROVE P(Append(q, e))
    <3>1. CheckFrom(c, q).ok /\ Sound(CheckFrom(c, q))
      BY <2>1, <2>2, <2>3, <2>6, SoundAfter
    <3>2. Skipped(g, q, c, ns, V) \/ Found(g, q, c, ns, V)
      BY <1>1, <1>3, <2>4, <3>1 DEF P
    <3>3. CASE Skipped(g, q, c, ns, V) /\ ~Reached(e, ns)
      <4>1. Skipped(HandleMessage(g, e, ns), Append(q, e), c, ns, V)
        BY <2>1, <2>5, <2>6, <3>1, <3>3, SkippedOn
      <4> QED
        BY <2>5, <4>1 DEF P
    <3>4. CASE (Skipped(g, q, c, ns, V) /\ Reached(e, ns)) \/ Found(g, q, c, ns, V)
      <4>1. Found(HandleMessage(g, e, ns), Append(q, e), c, ns, V)
        BY <2>1, <2>5, <3>4, FoundOn
      <4> QED
        BY <2>5, <4>1 DEF P
    <3> QED
      BY <3>2, <3>3, <3>4
  <2> QED
    BY <1>1, <2>2, <2>6
<1>4. b \in S
  BY <1>2, <1>3, AppendInduction
<1> QED
  BY <1>1, <1>4 DEF P

---------------------------------------------------------------------------
(* The messages which are replayed *)

\* The streams of an order are those of S, each once.
LEMMA OrderOf ==
    ASSUME NEW S \in SUBSET Streams, NEW order \in Orders(S)
    PROVE  /\ order \in Seq(S)
           /\ \A s \in S : \E i \in 1 .. Len(order) : order[i] = s
           /\ \A i, j \in 1 .. Len(order) : order[i] = order[j] => i = j
<1>1. PICK n \in 0 .. Cardinality(S) : order \in Bijection(1 .. n, S)
  BY DEF Orders
<1>2. n \in Nat
  OBVIOUS
<1>3. /\ order \in [1 .. n -> S]
      /\ \A s \in S : \E i \in 1 .. n : order[i] = s
      /\ \A i, j \in 1 .. n : order[i] = order[j] => i = j
  BY <1>1 DEF Bijection, Injection, Surjection, IsInjective
<1>4. order \in Seq(S) /\ Len(order) = n
  BY <1>2, <1>3
<1> QED
  BY <1>3, <1>4

\* The messages which are replayed for the stream s.
Opening(s, st, ns) ==
    {m \in Sent : /\ m.stream = s /\ m.type \in {"SB", "PB"} /\ m.ts >= ns
                  /\ m.type = "PB" => st.packet # NoPacket}

\* What is replayed for a stream are messages which open it at the time sought.
LEMMA ReplayOneType ==
    ASSUME NEW s \in Streams, NEW st \in SeekState, NEW ns \in Times
    PROVE  /\ ReplayOne(s, st, ns) \in Seq(Opening(s, st, ns))
           /\ ReplayOne(s, st, ns) \in Seq(Sent)
<1>1. ns \in 0 .. NoTime /\ NoTime \in 0 .. NoTime /\ NoPacket \in 0 .. MaxPackets /\ s # NoStream
  BY SequenceAssumption DEF Times, NoTime, NoPacket, NoStream
<1>2. PICK t \in 0 .. NoTime : t = IF st.seen THEN ns ELSE NoTime
  BY <1>1
<1>3. PICK u \in 0 .. NoTime : u = IF Class.beginCs THEN ns ELSE NoTime
  BY <1>1
<1>0. t >= ns /\ u >= ns
  BY <1>2, <1>3, SequenceAssumption DEF Times, NoTime
<1>4. PICK m \in Opening(s, st, ns) : m = Msg("SB", s, NoPacket, t)
  <2>1. Msg("SB", s, NoPacket, t) \in Sent
    BY <1>1, ZenonT(30) DEF Sent, Message, Msg, MessageTypes, StreamTypes
  <2> QED
    BY <1>0, <2>1 DEF Msg, Opening
<1>5. <<m>> \in Seq(Opening(s, st, ns))
  OBVIOUS
<1>6. ASSUME st.packet = NoPacket PROVE ReplayOne(s, st, ns) \in Seq(Opening(s, st, ns))
  <2>1. ReplayOne(s, st, ns) = <<m>> \o <<>>
    BY <1>2, <1>4, <1>6, Zenon DEF ReplayOne
  <2>2. PICK q \in Seq(Opening(s, st, ns)) : q = <<m>>
    BY <1>5, Zenon
  <2>3. q \o <<>> = q
    BY ConcatEmptySeq
  <2> QED
    BY <2>1, <2>2, <2>3, Zenon
<1>7. ASSUME st.packet # NoPacket PROVE ReplayOne(s, st, ns) \in Seq(Opening(s, st, ns))
  <2>1. st.packet \in 0 .. MaxPackets
    BY DEF SeekState
  <2>2. PICK p \in Opening(s, st, ns) : p = Msg("PB", s, st.packet, u)
    <3>1. Msg("PB", s, st.packet, u) \in Sent
      BY <1>1, <1>7, <2>1, ZenonT(30) DEF Sent, Message, Msg, MessageTypes, StreamTypes
    <3> QED
      BY <1>0, <1>7, <3>1 DEF Msg, Opening
  <2>3. <<p>> \in Seq(Opening(s, st, ns))
    OBVIOUS
  <2>4. ReplayOne(s, st, ns) = <<m>> \o <<p>>
    BY <1>2, <1>3, <1>4, <1>7, <2>2, Zenon DEF ReplayOne
  <2>5. PICK q \in Seq(Opening(s, st, ns)), r \in Seq(Opening(s, st, ns)) : q = <<m>> /\ r = <<p>>
    BY <1>5, <2>3, Zenon
  <2>6. q \o r \in Seq(Opening(s, st, ns))
    BY ConcatProperties
  <2> QED
    BY <2>4, <2>5, <2>6, Zenon
<1>8. Opening(s, st, ns) \subseteq Sent
  BY DEF Opening
<1> QED
  BY <1>6, <1>7, <1>8, SeqMonotonic

\* What the checker expects of a stream whose beginning was replayed.
Replayed(ss) ==
    [expected |-> LegalTypes(IF ss.packet = NoPacket THEN "open" ELSE "packet"),
     packet |-> ss.packet]

\* One stream is replayed: the checker lets its messages pass.
LEMMA ReplayOneChecked ==
    ASSUME NEW s \in Streams, NEW st \in SeekState, NEW ns \in Times, NEW c \in Checks,
           c.ok, c.last = ns, c.streams[s] = NewStreamState,
           st.packet # NoPacket => Class.packets
    PROVE  /\ CheckFrom(c, ReplayOne(s, st, ns)).ok
           /\ CheckFrom(c, ReplayOne(s, st, ns)).last = ns
           /\ \A t \in Streams : CheckFrom(c, ReplayOne(s, st, ns)).streams[t] =
                  IF t = s THEN Replayed(st) ELSE c.streams[t]
<1>1. ns \in 0 .. NoTime /\ NoTime \in 0 .. NoTime /\ NoPacket \in 0 .. MaxPackets /\ s # NoStream
  BY SequenceAssumption DEF Times, NoTime, NoPacket, NoStream
<1>2. PICK t \in 0 .. NoTime : t = IF st.seen THEN ns ELSE NoTime
  BY <1>1
<1>3. PICK u \in 0 .. NoTime : u = IF Class.beginCs THEN ns ELSE NoTime
  BY <1>1
<1>4. PICK m \in Sent : m = Msg("SB", s, NoPacket, t)
  BY <1>1, ZenonT(30) DEF Sent, Message, Msg, MessageTypes, StreamTypes
<1>5. <<m>> \in Seq(Sent) /\ <<m>> = Append(<<>>, m) /\ <<>> \in Seq(Sent)
  OBVIOUS
<1>6. PICK x : x = CheckMessage(c, m)
  OBVIOUS
<1>7. x \in Checks /\ CheckFrom(c, <<m>>) = x
  <2>1. PICK e \in Seq(Sent) : e = <<>> /\ CheckFrom(c, e) = c
    BY <1>5, CheckNone, Zenon
  <2>2. CheckFrom(c, Append(e, m)) = CheckMessage(CheckFrom(c, e), m)
    BY CheckAppend
  <2>3. x \in Checks
    BY <1>6, CheckStep
  <2> QED
    BY <1>5, <1>6, <2>1, <2>2, <2>3, Zenon
<1>8. m.type = "SB" /\ m.stream = s /\ m.ts = t
  BY <1>4 DEF Msg
<1>9. PICK st1 : st1 = AfterMessage(NewStreamState, m)
  OBVIOUS
<1>10. st1 = [expected |-> LegalTypes("open"), packet |-> NoPacket]
  <2>1. ExpectedAfter("SB", FALSE) = LegalTypes("open")
    BY DEF ExpectedAfter, LegalTypes
  <2> QED
    BY <1>8, <1>9, <2>1, ZenonT(30) DEF AfterMessage, NewStreamState
<1>11. /\ x.ok /\ x.last = ns
       /\ \A v \in Streams : x.streams[v] = IF v = s THEN st1 ELSE c.streams[v]
  <2>1. IsExpected(c.streams[s], m)
    BY <1>8 DEF IsExpected, NewStreamState
  <2>2. t = NoTime \/ t >= ns
    BY <1>1, <1>2
  <2> QED
    BY <1>2, <1>6, <1>8, <1>9, <2>1, <2>2, CheckStep, SMTT(30)
<1>12. CASE st.packet = NoPacket
  <2>1. ReplayOne(s, st, ns) = <<m>> \o <<>>
    BY <1>2, <1>4, <1>12, Zenon DEF ReplayOne
  <2>2. CheckFrom(c, ReplayOne(s, st, ns)) = x
    BY <1>5, <1>7, <2>1, ConcatEmptySeq
  <2> QED
    BY <1>10, <1>11, <1>12, <2>2 DEF Replayed
<1>13. CASE st.packet # NoPacket
  <2>1. st.packet \in 0 .. MaxPackets
    BY DEF SeekState
  <2>2. PICK p \in Sent : p = Msg("PB", s, st.packet, u)
    BY <1>1, <1>13, <2>1, ZenonT(30) DEF Sent, Message, Msg, MessageTypes, StreamTypes
  <2>3. ReplayOne(s, st, ns) = <<m>> \o <<p>> /\ <<m>> \o <<p>> = Append(<<m>>, p)
    <3>1. ReplayOne(s, st, ns) = <<m>> \o <<p>>
      BY <1>2, <1>3, <1>4, <1>13, <2>2, Zenon DEF ReplayOne
    <3> QED
      BY <1>5, <3>1, AppendIsConcat
  <2>4. CheckFrom(c, ReplayOne(s, st, ns)) = CheckMessage(x, p)
    <3>1. PICK q \in Seq(Sent) : q = <<m>>
      BY <1>5, Zenon
    <3>2. CheckFrom(c, Append(q, p)) = CheckMessage(CheckFrom(c, q), p)
      BY CheckAppend
    <3> QED
      BY <1>7, <2>3, <3>1, <3>2, Zenon
  <2>5. p.type = "PB" /\ p.stream = s /\ p.ts = u /\ p.packet = st.packet
    BY <2>2 DEF Msg
  <2>6. IsExpected(st1, p) /\ AfterMessage(st1, p) = Replayed(st)
    <3>1. "PB" \in LegalTypes("open")
      BY <1>13 DEF LegalTypes
    <3>2. ExpectedAfter("PB", FALSE) = LegalTypes("packet")
      BY DEF ExpectedAfter, LegalTypes
    <3> QED
      BY <1>10, <1>13, <2>5, <3>1, <3>2, ZenonT(30) DEF IsExpected, AfterMessage, Replayed
  <2>7. u = NoTime \/ u >= ns
    BY <1>1, <1>3
  <2>8. /\ CheckMessage(x, p).ok /\ CheckMessage(x, p).last = ns
        /\ \A v \in Streams : CheckMessage(x, p).streams[v] = IF v = s THEN Replayed(st) ELSE x.streams[v]
    <3>1. p.ts = NoTime \/ p.ts >= x.last
      BY <1>11, <2>5, <2>7
    <3>2. IsExpected(x.streams[p.stream], p)
      BY <1>11, <2>5, <2>6
    <3>3. CheckMessage(x, p).ok /\ CheckMessage(x, p).last = ns
      <4>1. CheckMessage(x, p).ok
        BY <1>7, <1>11, <3>1, <3>2, CheckStep, SMTT(30)
      <4>2. CheckMessage(x, p).last = IF p.ts = NoTime THEN x.last ELSE p.ts
        BY <1>7, CheckStep
      <4> QED
        BY <1>3, <1>11, <2>5, <4>1, <4>2
    <3>4. \A v \in Streams : CheckMessage(x, p).streams[v] =
              IF v = p.stream THEN AfterMessage(x.streams[v], p) ELSE x.streams[v]
      BY <1>7, CheckStep
    <3> QED
      BY <1>11, <2>5, <2>6, <3>3, <3>4
  <2> QED
    BY <1>11, <2>4, <2>8
<1> QED
  BY <1>12, <1>13

\* What Replay() computes, by its turns.
ReplayedBy(order, states, ns, n) ==
    \E f \in [0 .. n -> Seq(Sent)] :
        /\ f[0] = <<>>
        /\ \A i \in 1 .. n : f[i] = f[i - 1] \o ReplayOne(order[i], states[order[i]], ns)
        /\ Replay(order, states, ns) = f[n]

\* Replaying the open streams is a recursive function with one step per stream.
LEMMA ReplayTurns ==
    ASSUME NEW order \in Seq(Streams), NEW states \in SeekStates, NEW ns \in Times,
           NEW n \in Nat, n = Len(order)
    PROVE  ReplayedBy(order, states, ns, n)
<1> DEFINE T(x, i) == x \o ReplayOne(order[i], states[order[i]], ns)
<1> DEFINE h[i \in 0 .. Len(order)] == IF i = 0 THEN <<>> ELSE T(h[i - 1], i)
<1>1. PICK g : g = [i \in 1 .. n |->
                       [x \in Seq(Sent) |-> x \o ReplayOne(order[i], states[order[i]], ns)]]
  BY ZenonT(30)
<1>2. \A i \in 1 .. n : ReplayOne(order[i], states[order[i]], ns) \in Seq(Sent)
  <2>1. \A i \in 1 .. n : order[i] \in Streams /\ states[order[i]] \in SeekState
    BY ElementOfSeq DEF SeekStates
  <2> QED
    BY <2>1, ReplayOneType
<1>3. g \in [1 .. n -> [Seq(Sent) -> Seq(Sent)]]
  <2>1. ASSUME NEW i \in 1 .. n
        PROVE  [x \in Seq(Sent) |-> x \o ReplayOne(order[i], states[order[i]], ns)]
                   \in [Seq(Sent) -> Seq(Sent)]
    <3>1. PICK r \in Seq(Sent) : r = ReplayOne(order[i], states[order[i]], ns)
      BY <1>2
    <3>2. \A x \in Seq(Sent) : x \o r \in Seq(Sent)
      BY ConcatProperties
    <3> QED
      BY <3>1, <3>2
  <2> QED
    BY <1>1, <2>1
<1> HIDE DEF h, T
<1>4. PICK f \in [0 .. n -> Seq(Sent)] : f[0] = <<>> /\ \A i \in 1 .. n : f[i] = g[i][f[i - 1]]
  <2>1. <<>> \in Seq(Sent)
    BY EmptySeq
  <2>2. Iterates(n, Seq(Sent), <<>>, g)
    BY <1>3, <2>1, Recursion, ZenonT(30)
  <2> QED
    BY <2>2, ZenonT(30) DEF Iterates
<1>5. ASSUME NEW i \in 1 .. n PROVE f[i] = T(f[i - 1], i)
  <2>1. f[i - 1] \in Seq(Sent) /\ f[i] = g[i][f[i - 1]]
    BY <1>4, SMTT(30)
  <2> QED
    BY <1>1, <2>1, ZenonT(30) DEF T
<1>6. f = [i \in 0 .. Len(order) |-> IF i = 0 THEN <<>> ELSE T(f[i - 1], i)]
  BY <1>4, <1>5
<1>7. h = [i \in 0 .. Len(order) |-> IF i = 0 THEN <<>> ELSE T(h[i - 1], i)]
  BY <1>6, SMTT(30) DEF h
<1>8. h[0] = f[0]
  BY <1>4, <1>7
<1>9. ASSUME NEW i \in 1 .. n, h[i - 1] = f[i - 1] PROVE h[i] = f[i]
  BY <1>5, <1>7, <1>9
<1>10. h[n] = f[n]
  <2>1. StepwiseAgree(h, f, n)
    BY <1>8, <1>9 DEF StepwiseAgree
  <2> QED
    BY <2>1, Agreement DEF Agree
<1>11. Replay(order, states, ns) = h[n]
  BY DEF Replay, h, T
<1> QED
  BY <1>4, <1>5, <1>10, <1>11, ZenonT(30) DEF ReplayedBy, T

\* No stream, nothing to replay.
LEMMA ReplayNone ==
    ASSUME NEW states \in SeekStates, NEW ns \in Times
    PROVE  Replay(<<>>, states, ns) = <<>>
<1>1. PICK o \in Seq(Streams), n \in Nat : o = <<>> /\ n = 0 /\ n = Len(o)
  BY EmptySeq, ZenonT(30)
<1>2. n = Len(o)
  BY <1>1
<1>3. ReplayedBy(o, states, ns, n)
  BY <1>2, ReplayTurns
<1>4. PICK f \in [0 .. n -> Seq(Sent)] : f[0] = <<>> /\ Replay(o, states, ns) = f[n]
  BY <1>3, ZenonT(30) DEF ReplayedBy
<1> QED
  BY <1>1, <1>4

\* The open streams are replayed one after the other.
LEMMA ReplayAppend ==
    ASSUME NEW order \in Seq(Streams), NEW s \in Streams, NEW states \in SeekStates, NEW ns \in Times
    PROVE  /\ Replay(order, states, ns) \in Seq(Sent)
           /\ Replay(Append(order, s), states, ns) =
                  Replay(order, states, ns) \o ReplayOne(s, states[s], ns)
<1>1. PICK n \in Nat : n = Len(order)
  BY LenProperties
<1>2. PICK a : a = Append(order, s)
  BY ZenonT(30)
<1>3. /\ a \in Seq(Streams) /\ Len(a) = n + 1
      /\ \A i \in 1 .. n : a[i] = order[i]
      /\ a[n + 1] = s
  BY <1>1, <1>2, AppendProperties
<1> DEFINE T(x, v) == x \o ReplayOne(v, states[v], ns)
<1>4. PICK f \in [0 .. n -> Seq(Sent)] :
          /\ f[0] = <<>>
          /\ \A i \in 1 .. n : f[i] = T(f[i - 1], order[i])
          /\ Replay(order, states, ns) = f[n]
  <2>1. ReplayedBy(order, states, ns, n)
    BY <1>1, ReplayTurns
  <2> QED
    BY <2>1, ZenonT(30) DEF ReplayedBy
<1>5. PICK k \in Nat : k = n + 1
  OBVIOUS
<1>6. PICK g \in [0 .. k -> Seq(Sent)] :
          /\ g[0] = <<>>
          /\ \A i \in 1 .. k : g[i] = T(g[i - 1], a[i])
          /\ Replay(a, states, ns) = g[k]
  <2>1. ReplayedBy(a, states, ns, k)
    BY <1>3, <1>5, ReplayTurns
  <2> QED
    BY <2>1, ZenonT(30) DEF ReplayedBy
<1> HIDE DEF T
<1>7. f[0] = g[0]
  BY <1>4, <1>6
<1>8. ASSUME NEW i \in 1 .. n, f[i - 1] = g[i - 1] PROVE f[i] = g[i]
  BY <1>3, <1>4, <1>5, <1>6, <1>8
<1>9. f[n] = g[n]
  <2>1. StepwiseAgree(f, g, n)
    BY <1>7, <1>8 DEF StepwiseAgree
  <2>2. Agree(f, g, n)
    BY <2>1, Agreement
  <2> QED
    BY <2>2 DEF Agree
<1>10. g[k] = T(g[n], s)
  BY <1>3, <1>5, <1>6
<1>11. f[n] \in Seq(Sent)
  BY <1>4
<1> QED
  BY <1>2, <1>4, <1>6, <1>9, <1>10, <1>11 DEF T

\* The open streams are replayed: the checker lets them pass, and expects what
\* it expected of these streams.
Injective(o) == \A i, j \in 1 .. Len(o) : o[i] = o[j] => i = j

Has(o, s) == \E i \in 1 .. Len(o) : o[i] = s

ReplayPasses(c, order, states, ns) ==
    /\ CheckFrom(c, Replay(order, states, ns)).ok
    /\ CheckFrom(c, Replay(order, states, ns)).last = ns
    /\ \A t \in Streams : CheckFrom(c, Replay(order, states, ns)).streams[t] =
           IF Has(order, t) THEN Replayed(states[t]) ELSE NewStreamState

\* The checker accepts the replay whatever the order of the streams, and then expects of each
\* stream what it would had it seen the messages skipped.
LEMMA ReplayChecked ==
    ASSUME NEW states \in SeekStates, \A s \in Streams : states[s].packet # NoPacket => Class.packets,
           NEW ns \in Times, NEW c \in Checks, c.ok, c.last = ns,
           \A s \in Streams : c.streams[s] = NewStreamState,
           NEW order \in Seq(Streams), Injective(order)
    PROVE  ReplayPasses(c, order, states, ns)
<1>1. PICK S : S = {o \in Seq(Streams) : Injective(o) => ReplayPasses(c, o, states, ns)}
  BY ZenonT(30)
<1>2. <<>> \in S
  <2>1. PICK o \in Seq(Streams) : o = <<>> /\ Len(o) = 0
    BY EmptySeq, ZenonT(30)
  <2>2. CheckFrom(c, Replay(o, states, ns)) = c
    BY <2>1, ReplayNone, CheckNone
  <2>3. \A t \in Streams : ~Has(o, t)
    BY <2>1 DEF Has
  <2>4. ReplayPasses(c, o, states, ns)
    BY <2>2, <2>3 DEF ReplayPasses
  <2> QED
    BY <1>1, <2>1, <2>4
<1>3. ASSUME NEW o \in Seq(Streams), NEW s \in Streams, o \in S PROVE Append(o, s) \in S
  <2>1. PICK a : a = Append(o, s)
    BY ZenonT(30)
  <2>2. PICK n \in Nat : n = Len(o)
    BY LenProperties
  <2>3. /\ a \in Seq(Streams) /\ Len(a) = n + 1
        /\ \A i \in 1 .. n : a[i] = o[i]
        /\ a[n + 1] = s
    BY <2>1, <2>2, AppendProperties
  <2>4. ASSUME Injective(a) PROVE Injective(o) /\ ~Has(o, s)
    BY <2>2, <2>3, <2>4 DEF Injective, Has
  <2>5. \A t \in Streams : Has(a, t) <=> (Has(o, t) \/ t = s)
    BY <2>2, <2>3, SMTT(30) DEF Has
  <2>6. ASSUME Injective(a) PROVE ReplayPasses(c, a, states, ns)
    <3>1. ReplayPasses(c, o, states, ns)
      BY <1>1, <1>3, <2>4, <2>6
    <3>2. PICK q \in Seq(Sent), r \in Seq(Sent) :
              q = Replay(o, states, ns) /\ r = ReplayOne(s, states[s], ns)
      BY ReplayAppend, ReplayOneType, ZenonT(30) DEF SeekStates
    <3>3. Replay(a, states, ns) = q \o r
      BY <2>1, <3>2, ReplayAppend, ZenonT(30)
    <3>4. PICK x \in Checks : x = CheckFrom(c, q)
      BY CheckType
    <3>5. CheckFrom(c, Replay(a, states, ns)) = CheckFrom(x, r)
      BY <3>3, <3>4, CheckConcat
    <3>6. /\ x.ok /\ x.last = ns
          /\ \A t \in Streams : x.streams[t] = IF Has(o, t) THEN Replayed(states[t]) ELSE NewStreamState
      BY <3>1, <3>2, <3>4 DEF ReplayPasses
    <3>7. x.streams[s] = NewStreamState /\ states[s] \in SeekState
      BY <2>4, <2>6, <3>6 DEF SeekStates
    <3>8. /\ CheckFrom(x, r).ok /\ CheckFrom(x, r).last = ns
          /\ \A t \in Streams : CheckFrom(x, r).streams[t] =
                 IF t = s THEN Replayed(states[s]) ELSE x.streams[t]
      BY <3>2, <3>6, <3>7, ReplayOneChecked, SMTT(30)
    <3> QED
      BY <2>5, <3>5, <3>6, <3>8, SMTT(30) DEF ReplayPasses
  <2> QED
    BY <1>1, <2>1, <2>3, <2>6
<1>4. order \in S
  BY <1>2, <1>3, AppendInduction
<1> QED
  BY <1>1, <1>4

---------------------------------------------------------------------------
(* Going on after the replayed messages *)

\* The checker y, which has seen what was replayed, expects what the checker x,
\* which has seen everything, expects; but it doesn't know the ended streams.
Resumes(y, x) ==
    \A s \in Streams : \/ y.streams[s] = x.streams[s]
                       \/ x.streams[s].expected = {} /\ y.streams[s] = NewStreamState

\* A checker which resumes another accepts the messages the other one accepts, and resumes it still.
LEMMA ResumeStep ==
    ASSUME NEW x \in Checks, NEW y \in Checks, NEW m \in Sent, Resumes(y, x), y.ok,
           m.ts = NoTime \/ m.ts >= y.last, CheckMessage(x, m).ok
    PROVE  /\ CheckMessage(y, m).ok
           /\ Resumes(CheckMessage(y, m), CheckMessage(x, m))
           /\ m.ts # NoTime \/ y.last = x.last => CheckMessage(y, m).last = CheckMessage(x, m).last
<1>1. m.stream \in Streams \cup {NoStream}
  BY DEF Sent, Message
<1>2. ASSUME m.stream # NoStream PROVE y.streams[m.stream] = x.streams[m.stream]
  <2>1. IsExpected(x.streams[m.stream], m)
    BY <1>2, CheckStep
  <2>2. x.streams[m.stream].expected # {}
    BY <2>1 DEF IsExpected
  <2> QED
    BY <1>1, <1>2, <2>2 DEF Resumes
<1>3. CheckMessage(y, m).ok
  BY <1>2, CheckStep
<1>4. Resumes(CheckMessage(y, m), CheckMessage(x, m))
  <2> SUFFICES ASSUME NEW s \in Streams
               PROVE  \/ CheckMessage(y, m).streams[s] = CheckMessage(x, m).streams[s]
                      \/ /\ CheckMessage(x, m).streams[s].expected = {}
                         /\ CheckMessage(y, m).streams[s] = NewStreamState
    BY ZenonT(30) DEF Resumes
  <2>1. /\ CheckMessage(x, m).streams[s] =
               IF s = m.stream THEN AfterMessage(x.streams[s], m) ELSE x.streams[s]
        /\ CheckMessage(y, m).streams[s] =
               IF s = m.stream THEN AfterMessage(y.streams[s], m) ELSE y.streams[s]
    BY CheckStep
  <2>2. s # NoStream
    BY SequenceAssumption DEF NoStream
  <2> QED
    BY <1>2, <2>1, <2>2 DEF Resumes
<1>5. /\ CheckMessage(x, m).last = IF m.ts = NoTime THEN x.last ELSE m.ts
      /\ CheckMessage(y, m).last = IF m.ts = NoTime THEN y.last ELSE m.ts
  BY CheckStep
<1> QED
  BY <1>3, <1>4, <1>5

ResumesOn(y, x, q) ==
    /\ CheckFrom(y, q).ok
    /\ CheckFrom(y, q).last = CheckFrom(x, q).last
    /\ Resumes(CheckFrom(y, q), CheckFrom(x, q))

\* The messages from the one sought on pass after the replayed ones.
LEMMA Resume ==
    ASSUME NEW x \in Checks, NEW y \in Checks, NEW ns \in Times, Resumes(y, x), y.ok, y.last = ns,
           NEW r \in Seq(Sent), r # <<>>, Reached(r[1], ns), CheckFrom(x, r).ok
    PROVE  ResumesOn(y, x, r)
<1>1. PICK S : S = {q \in Seq(Sent) :
                      q # <<>> /\ Reached(q[1], ns) /\ CheckFrom(x, q).ok => ResumesOn(y, x, q)}
  BY ZenonT(30)
<1>2. <<>> \in S
  BY <1>1, EmptySeq
<1>3. ASSUME NEW q \in Seq(Sent), NEW m \in Sent, q \in S PROVE Append(q, m) \in S
  <2>1. PICK a \in Seq(Sent) : a = Append(q, m)
    BY AppendProperties, ZenonT(30)
  <2>2. PICK x1 \in Checks, y1 \in Checks : x1 = CheckFrom(x, q) /\ y1 = CheckFrom(y, q)
    BY CheckType
  <2>3. CheckFrom(x, a) = CheckMessage(x1, m) /\ CheckFrom(y, a) = CheckMessage(y1, m)
    BY <2>1, <2>2, CheckAppend
  <2>4. ASSUME Reached(a[1], ns), CheckFrom(x, a).ok PROVE ResumesOn(y, x, a)
    <3>1. CASE q = <<>>
      <4>1. x1 = x /\ y1 = y
        BY <2>2, <3>1, CheckNone
      <4>2. a[1] = m
        BY <2>1, <3>1
      <4>3. m.ts # NoTime /\ m.ts >= y.last
        BY <2>4, <4>2 DEF Reached
      <4>4. /\ CheckMessage(y, m).ok
            /\ Resumes(CheckMessage(y, m), CheckMessage(x, m))
            /\ CheckMessage(y, m).last = CheckMessage(x, m).last
        BY <2>3, <2>4, <4>1, <4>3, ResumeStep
      <4> QED
        BY <2>3, <4>1, <4>4 DEF ResumesOn
    <3>2. CASE q # <<>>
      <4>1. a[1] = q[1]
        BY <2>1, <3>2
      <4>2. x1.ok /\ (m.ts = NoTime \/ m.ts >= x1.last)
        <5>1. CheckMessage(x1, m).ok
          BY <2>3, <2>4
        <5> QED
          BY <5>1, CheckStep, ZenonT(30)
      <4>3. y1.ok /\ y1.last = x1.last /\ Resumes(y1, x1)
        BY <1>1, <1>3, <2>2, <2>4, <3>2, <4>1, <4>2 DEF ResumesOn
      <4>4. /\ CheckMessage(y1, m).ok
            /\ Resumes(CheckMessage(y1, m), CheckMessage(x1, m))
            /\ CheckMessage(y1, m).last = CheckMessage(x1, m).last
        BY <2>3, <2>4, <4>2, <4>3, ResumeStep
      <4> QED
        BY <2>3, <4>4 DEF ResumesOn
    <3> QED
      BY <3>1, <3>2
  <2> QED
    BY <1>1, <2>1, <2>4, ZenonT(30)
<1>4. r \in S
  BY <1>2, <1>3, AppendInduction
<1> QED
  BY <1>1, <1>4

\* The replayed messages bring the checker where it was.
LEMMA ReplayResumes ==
    ASSUME NEW x \in Checks, Sound(x), NEW states \in SeekStates, AllTracked(states, x),
           NEW ns \in Times, NEW c \in Checks, c.ok, c.last = ns,
           \A s \in Streams : c.streams[s] = NewStreamState,
           NEW order \in Orders({s \in Streams : states[s].open})
    PROVE  /\ Replay(order, states, ns) \in Seq(Sent)
           /\ CheckFrom(c, Replay(order, states, ns)).ok
           /\ CheckFrom(c, Replay(order, states, ns)).last = ns
           /\ Resumes(CheckFrom(c, Replay(order, states, ns)), x)
<1>1. PICK O \in SUBSET Streams : O = {s \in Streams : states[s].open}
  OBVIOUS
<1>2. order \in Seq(O) /\ (\A s \in O : Has(order, s)) /\ Injective(order)
  <2>1. order \in Orders(O)
    BY <1>1
  <2>2. /\ order \in Seq(O)
        /\ \A s \in O : \E i \in 1 .. Len(order) : order[i] = s
        /\ \A i, j \in 1 .. Len(order) : order[i] = order[j] => i = j
    BY <2>1, OrderOf
  <2> QED
    BY <2>2, SMTT(30) DEF Has, Injective
<1>3. order \in Seq(Streams)
  BY <1>1, <1>2, SeqMonotonic
<1>4. \A s \in Streams : Has(order, s) <=> states[s].open
  <2>1. \A i \in 1 .. Len(order) : order[i] \in O
    BY <1>2, ElementOfSeq
  <2> QED
    BY <1>1, <1>2, <2>1, ZenonT(30) DEF Has
<1>5. ASSUME NEW s \in Streams
      PROVE  /\ states[s].packet # NoPacket => Class.packets
             /\ states[s].open => Replayed(states[s]) = x.streams[s]
             /\ ~states[s].open => x.streams[s].expected = {} \/ x.streams[s] = NewStreamState
  <2>1. PICK st \in StreamState, ss \in SeekState : st = x.streams[s] /\ ss = states[s]
    BY DEF Checks, SeekStates
  <2>2. PICK ph \in Phases : InPhase(st, ph, st.packet)
    BY <2>1 DEF Sound
  <2>3. (ss.open <=> ph \in {"open", "packet"}) /\ ss.packet = st.packet
    BY <2>1, <2>2, OpenPhases DEF AllTracked, Tracks
  <2>4. st = [expected |-> st.expected, packet |-> st.packet]
    BY DEF StreamState
  <2>5. st.expected = LegalTypes(ph) /\ (st.packet # NoPacket <=> ph = "packet") /\ (ph = "packet" => Class.packets)
    BY <2>2 DEF InPhase
  <2>6. ss.open => Replayed(ss) = st
    BY <2>3, <2>4, <2>5 DEF Replayed
  <2>7. ~ss.open => st.expected = {} \/ st = NewStreamState
    BY <2>3, <2>4, <2>5 DEF Phases, LegalTypes, NewStreamState
  <2> QED
    BY <2>1, <2>3, <2>5, <2>6, <2>7
<1>6. ReplayPasses(c, order, states, ns)
  BY <1>2, <1>3, <1>5, ReplayChecked
<1>7. Replay(order, states, ns) \in Seq(Sent)
  <2>1. CASE Streams = {}
    <3>1. Len(order) = 0
      BY <1>3, <2>1, ElementOfSeq, LenProperties
    <3> QED
      BY <1>3, <3>1, ReplayNone, EmptySeq, ZenonT(30)
  <2>2. CASE Streams # {}
    BY <1>3, <2>2, ReplayAppend
  <2> QED
    BY <2>1, <2>2
<1> QED
  BY <1>4, <1>5, <1>6, <1>7 DEF ReplayPasses, Resumes

\* The messages which are replayed carry no earlier clock snapshot than that of
\* the time sought, and belong to open streams and their open packets.
AllOpening(states, ns) ==
    {m \in Sent : m.stream \in Streams /\ states[m.stream].open /\ m \in Opening(m.stream, states[m.stream], ns)}

\* All that is replayed opens streams and packets at the time sought.
LEMMA ReplayOpens ==
    ASSUME NEW states \in SeekStates, NEW ns \in Times,
           NEW order \in Orders({s \in Streams : states[s].open})
    PROVE  Replay(order, states, ns) \in Seq(AllOpening(states, ns))
<1>1. PICK O \in SUBSET Streams : O = {s \in Streams : states[s].open}
  OBVIOUS
<1>2. order \in Seq(O)
  <2>1. order \in Orders(O)
    BY <1>1
  <2> QED
    BY <2>1, OrderOf
<1>3. PICK S : S = {o \in Seq(O) : Replay(o, states, ns) \in Seq(AllOpening(states, ns))}
  BY ZenonT(30)
<1>4. <<>> \in S
  BY <1>3, ReplayNone, EmptySeq, ZenonT(30)
<1>5. ASSUME NEW o \in Seq(O), NEW s \in O, o \in S PROVE Append(o, s) \in S
  <2>1. o \in Seq(Streams) /\ s \in Streams /\ Append(o, s) \in Seq(O)
    BY SeqMonotonic, AppendProperties
  <2>2. Replay(Append(o, s), states, ns) = Replay(o, states, ns) \o ReplayOne(s, states[s], ns)
    BY <2>1, ReplayAppend
  <2>3. states[s] \in SeekState /\ states[s].open
    BY <1>1, <2>1 DEF SeekStates
  <2>4. Opening(s, states[s], ns) \subseteq AllOpening(states, ns)
    BY <2>1, <2>3 DEF Opening, AllOpening
  <2>5. ReplayOne(s, states[s], ns) \in Seq(AllOpening(states, ns))
    BY <2>1, <2>3, <2>4, ReplayOneType, SeqMonotonic
  <2>6. Replay(o, states, ns) \in Seq(AllOpening(states, ns))
    BY <1>3, <1>5
  <2> QED
    BY <1>3, <2>1, <2>2, <2>5, <2>6, ConcatProperties, ZenonT(30)
<1>6. order \in S
  BY <1>2, <1>4, <1>5, AppendInduction
<1> QED
  BY <1>3, <1>6

\* What the checker finds after a seek of the time ns, automatic or not, to the
\* messages r of the trace, which the checker x would find ahead.
LEMMA SeekDone ==
    ASSUME NEW x \in Checks, Sound(x), NEW states \in SeekStates, AllTracked(states, x),
           NEW ns \in Times, NEW c \in Checks, c.ok, c.last = ns,
           \A s \in Streams : c.streams[s] = NewStreamState,
           NEW order \in Orders({s \in Streams : states[s].open}),
           NEW r \in Seq(Sent), CheckFrom(x, r).ok, r # <<>> => Reached(r[1], ns)
    PROVE  /\ CheckFrom(c, Replay(order, states, ns) \o r).ok
           /\ r # <<>> => CheckFrom(c, Replay(order, states, ns) \o r).last = CheckFrom(x, r).last
           /\ Resumes(CheckFrom(c, Replay(order, states, ns) \o r), CheckFrom(x, r))
<1>1. PICK p : p = Replay(order, states, ns)
  OBVIOUS
<1>2. p \in Seq(Sent) /\ CheckFrom(c, p).ok /\ CheckFrom(c, p).last = ns /\ Resumes(CheckFrom(c, p), x)
  BY <1>1, ReplayResumes, ZenonT(30)
<1>3. PICK y \in Checks : y = CheckFrom(c, p)
  BY <1>2, CheckType
<1>4. CheckFrom(c, p \o r) = CheckFrom(y, r)
  BY <1>2, <1>3, CheckConcat
<1>5. CASE r = <<>>
  <2>1. CheckFrom(y, r) = y /\ CheckFrom(x, r) = x
    BY <1>5, CheckNone
  <2> QED
    BY <1>1, <1>2, <1>3, <1>4, <1>5, <2>1
<1>6. CASE r # <<>>
  <2>1. ResumesOn(y, x, r)
    BY <1>2, <1>3, <1>6, Resume
  <2> QED
    BY <1>1, <1>4, <2>1 DEF ResumesOn
<1> QED
  BY <1>5, <1>6, ZenonT(30)

---------------------------------------------------------------------------
(* What the messages up to a place of the trace leave open *)

\* The places of the messages b say of the stream s that it is in the phase ph,
\* in its packet p.
Recorded(b, s, ph, p) ==
    /\ Places(b, s, "SB") = {} <=> ph = "unborn"
    /\ Places(b, s, "SE") # {} <=> ph = "ended"
    /\ ph # "packet" => Begun(b, s) = {}
    /\ ph = "packet" => \E i \in 1 .. Len(b) : Begun(b, s) = {i} /\ b[i].packet = p

\* Where the messages of a stream and a type are, one message later.
LEMMA PlacesAppend ==
    ASSUME NEW b \in Seq(Sent), NEW m \in Sent, NEW n \in Nat, n = Len(b), NEW s, NEW type
    PROVE  /\ Places(Append(b, m), s, type) =
                  IF m.stream = s /\ m.type = type THEN Places(b, s, type) \cup {n + 1}
                  ELSE Places(b, s, type)
           /\ Places(b, s, type) \subseteq 1 .. n
           /\ Len(Append(b, m)) = n + 1
           /\ Append(b, m)[n + 1] = m
           /\ \A i \in 1 .. n : Append(b, m)[i] = b[i]
<1>1. PICK a : a = Append(b, m)
  BY ZenonT(30)
<1>2. Len(a) = n + 1 /\ a[n + 1] = m /\ \A i \in 1 .. n : a[i] = b[i]
  BY <1>1, AppendProperties
<1>3. 1 .. Len(a) = (1 .. n) \cup {n + 1}
  BY <1>2
<1>4. Places(b, s, type) = {i \in 1 .. n : b[i].stream = s /\ b[i].type = type}
  BY DEF Places
<1>5. Places(a, s, type) = {i \in (1 .. n) \cup {n + 1} : a[i].stream = s /\ a[i].type = type}
  BY <1>3 DEF Places
<1>6. Places(a, s, type) = IF m.stream = s /\ m.type = type THEN Places(b, s, type) \cup {n + 1}
                           ELSE Places(b, s, type)
  BY <1>2, <1>4, <1>5
<1> QED
  BY <1>1, <1>2, <1>4, <1>6

\* Where the packet of a stream began, one message later.
LEMMA BegunAppend ==
    ASSUME NEW b \in Seq(Sent), NEW m \in Sent, NEW n \in Nat, n = Len(b), NEW s \in Streams
    PROVE  /\ m.stream # s \/ m.type \notin {"PB", "PE"} => Begun(Append(b, m), s) = Begun(b, s)
           /\ m.stream = s /\ m.type = "PE" => Begun(Append(b, m), s) = {}
           /\ m.stream = s /\ m.type = "PB" => Begun(Append(b, m), s) = Begun(b, s) \cup {n + 1}
<1>1. PICK PB, PE : PB = Places(b, s, "PB") /\ PE = Places(b, s, "PE")
  OBVIOUS
<1>2. PICK PB1, PE1 : PB1 = Places(Append(b, m), s, "PB") /\ PE1 = Places(Append(b, m), s, "PE")
  OBVIOUS
<1>3. /\ PB \subseteq 1 .. n /\ PE \subseteq 1 .. n
      /\ PB1 = IF m.stream = s /\ m.type = "PB" THEN PB \cup {n + 1} ELSE PB
      /\ PE1 = IF m.stream = s /\ m.type = "PE" THEN PE \cup {n + 1} ELSE PE
  BY <1>1, <1>2, PlacesAppend
<1>4. /\ Begun(b, s) = {i \in PB : \A j \in PE : j < i}
      /\ Begun(Append(b, m), s) = {i \in PB1 : \A j \in PE1 : j < i}
  BY <1>1, <1>2 DEF Begun
<1>5. CASE m.stream # s \/ m.type \notin {"PB", "PE"}
  BY <1>3, <1>4, <1>5
<1>6. CASE m.stream = s /\ m.type = "PE"
  <2>1. PB1 = PB /\ n + 1 \in PE1
    BY <1>3, <1>6
  <2>2. \A i \in PB : ~(n + 1 < i)
    BY <1>3
  <2> QED
    BY <1>4, <1>6, <2>1, <2>2
<1>7. CASE m.stream = s /\ m.type = "PB"
  <2>1. \A j \in PE : j < n + 1
    BY <1>3
  <2>2. {i \in PB \cup {n + 1} : \A j \in PE : j < i} = {i \in PB : \A j \in PE : j < i} \cup {n + 1}
    BY <2>1
  <2> QED
    BY <1>3, <1>4, <1>7, <2>2
<1> QED
  BY <1>5, <1>6, <1>7

\* The record of a stream's phase and packet follows the content message by message.
LEMMA RecordedStep ==
    ASSUME NEW b \in Seq(Sent), NEW m \in Sent, NEW s \in Streams, NEW ph \in Phases,
           NEW p \in 0 .. MaxPackets, Recorded(b, s, ph, p),
           m.stream = s => m.type \in LegalTypes(ph)
    PROVE  Recorded(Append(b, m), s, IF m.stream = s THEN PhaseAfter(ph, m.type) ELSE ph,
                    IF m.stream = s /\ m.type = "PB" THEN m.packet ELSE p)
<1>1. PICK n \in Nat : n = Len(b)
  BY LenProperties
<1>2. PICK a : a = Append(b, m)
  BY ZenonT(30)
<1>3. /\ Len(a) = n + 1 /\ a[n + 1] = m /\ \A i \in 1 .. n : a[i] = b[i]
      /\ \A type : Places(a, s, type) = IF m.stream = s /\ m.type = type
                                        THEN Places(b, s, type) \cup {n + 1}
                                        ELSE Places(b, s, type)
  BY <1>1, <1>2, PlacesAppend
<1>4. /\ m.stream # s \/ m.type \notin {"PB", "PE"} => Begun(a, s) = Begun(b, s)
      /\ m.stream = s /\ m.type = "PE" => Begun(a, s) = {}
      /\ m.stream = s /\ m.type = "PB" => Begun(a, s) = Begun(b, s) \cup {n + 1}
  <2>1. /\ m.stream # s \/ m.type \notin {"PB", "PE"} => Begun(Append(b, m), s) = Begun(b, s)
        /\ m.stream = s /\ m.type = "PE" => Begun(Append(b, m), s) = {}
        /\ m.stream = s /\ m.type = "PB" => Begun(Append(b, m), s) = Begun(b, s) \cup {n + 1}
    BY <1>1, BegunAppend, SMTT(60)
  <2> QED
    BY <1>2, <2>1, Zenon
<1>5. ASSUME NEW i \in 1 .. n PROVE i \in 1 .. Len(a) /\ a[i] = b[i]
  BY <1>3
<1>6. CASE m.stream # s
  <2>1. Places(a, s, "SB") = Places(b, s, "SB") /\ Places(a, s, "SE") = Places(b, s, "SE")
    BY <1>3, <1>6
  <2> QED
    BY <1>1, <1>2, <1>4, <1>5, <1>6, <2>1 DEF Recorded
<1>7. CASE m.stream = s
  <2>1. PICK ph1 : ph1 = PhaseAfter(ph, m.type)
    OBVIOUS
  <2>2. /\ m.type = "SB" => ph = "unborn"
        /\ m.type # "SB" => ph \in {"open", "packet"}
        /\ m.type \in {"PB", "SE"} => ph = "open"
    BY <1>7 DEF LegalTypes, Phases, Supported
  <2>3. /\ ph1 # "unborn"
        /\ ph1 = "ended" <=> m.type = "SE"
        /\ ph1 = "packet" <=> m.type = "PB" \/ (ph = "packet" /\ m.type # "PE")
    BY <2>1, <2>2 DEF PhaseAfter
  <2>4. Places(a, s, "SB") # {}
    BY <1>3, <1>7, <2>2, SMTT(30) DEF Recorded
  <2>5. Places(a, s, "SE") # {} <=> ph1 = "ended"
    BY <1>3, <1>7, <2>2, <2>3 DEF Recorded
  <2>6. ph1 # "packet" => Begun(a, s) = {}
    BY <1>4, <1>7, <2>3 DEF Recorded
  <2>7. ASSUME ph1 = "packet", m.type = "PB"
        PROVE  Begun(a, s) = {n + 1} /\ a[n + 1].packet = m.packet /\ n + 1 \in 1 .. Len(a)
    BY <1>3, <1>4, <1>7, <2>2, <2>7 DEF Recorded
  <2>8. ASSUME ph1 = "packet", m.type # "PB"
        PROVE  \E i \in 1 .. Len(a) : Begun(a, s) = {i} /\ a[i].packet = p
    <3>1. m.type # "PE" /\ ph = "packet"
      BY <2>3, <2>8
    <3>2. PICK i \in 1 .. n : Begun(b, s) = {i} /\ b[i].packet = p
      BY <1>1, <3>1 DEF Recorded
    <3> QED
      BY <1>4, <1>5, <2>8, <3>1, <3>2
  <2> QED
    BY <1>2, <1>7, <2>1, <2>3, <2>4, <2>5, <2>6, <2>7, <2>8, SMTT(30) DEF Recorded
<1> QED
  BY <1>6, <1>7

RecordsAll(b) ==
    \A s \in Streams : \E ph \in Phases :
        LET st == CheckFrom(Start, b).streams[s]
        IN  InPhase(st, ph, st.packet) /\ Recorded(b, s, ph, st.packet)

\* The checker's record of every stream tells the phase and the packet the content leaves it in.
LEMMA RecordedAll ==
    ASSUME NEW b \in Seq(Sent), CheckFrom(Start, b).ok
    PROVE  RecordsAll(b)
<1>1. PICK S : S = {q \in Seq(Sent) : CheckFrom(Start, q).ok => RecordsAll(q)}
  BY ZenonT(30)
<1>2. <<>> \in S
  <2>1. PICK e \in Seq(Sent) : e = <<>>
    BY EmptySeq, ZenonT(30)
  <2>2. CheckFrom(Start, e) = Start /\ Len(e) = 0
    BY <2>1, CheckNone, StartIsSound
  <2>3. ASSUME NEW s \in Streams, NEW type PROVE Places(e, s, type) = {}
    BY <2>2 DEF Places
  <2>4. ASSUME NEW s \in Streams
        PROVE  /\ InPhase(NewStreamState, "unborn", NewStreamState.packet)
               /\ Recorded(e, s, "unborn", NewStreamState.packet)
    BY <2>3 DEF InPhase, NewStreamState, LegalTypes, Recorded, Begun
  <2>5. RecordsAll(e)
    BY <2>2, <2>4, StartIsSound, ZenonT(30) DEF RecordsAll, Phases
  <2> QED
    BY <1>1, <2>1, <2>5
<1>3. ASSUME NEW q \in Seq(Sent), NEW m \in Sent, q \in S PROVE Append(q, m) \in S
  <2>1. PICK x \in Checks : x = CheckFrom(Start, q)
    BY CheckType, StartIsSound
  <2>2. PICK a \in Seq(Sent) : a = Append(q, m)
    BY AppendProperties, ZenonT(30)
  <2>3. CheckFrom(Start, a) = CheckMessage(x, m)
    BY <2>1, <2>2, CheckAppend, StartIsSound
  <2>4. ASSUME CheckMessage(x, m).ok, NEW s \in Streams
        PROVE  \E ph \in Phases :
                 /\ InPhase(CheckMessage(x, m).streams[s], ph, CheckMessage(x, m).streams[s].packet)
                 /\ Recorded(a, s, ph, CheckMessage(x, m).streams[s].packet)
    <3>1. x.ok /\ s # NoStream
      BY <2>4, CheckStep, SequenceAssumption DEF NoStream
    <3>2. PICK st \in StreamState : st = x.streams[s]
      BY DEF Checks
    <3>3. PICK ph \in Phases : InPhase(st, ph, st.packet) /\ Recorded(q, s, ph, st.packet)
      BY <1>1, <1>3, <2>1, <3>1, <3>2 DEF RecordsAll
    <3>4. st.packet \in 0 .. MaxPackets
      BY DEF StreamState
    <3>5. CASE m.stream # s
      <4>1. CheckMessage(x, m).streams[s] = st
        BY <3>2, <3>5, CheckStep
      <4>2. Recorded(a, s, ph, st.packet)
        BY <2>2, <3>3, <3>4, <3>5, RecordedStep
      <4> QED
        BY <3>3, <4>1, <4>2
    <3>6. CASE m.stream = s
      <4>1. IsExpected(st, m) /\ CheckMessage(x, m).streams[s] = AfterMessage(st, m)
        BY <2>4, <3>1, <3>2, <3>6, CheckStep
      <4>2. m.type \in LegalTypes(ph) /\ (m.type \in {"EV", "PE"} => m.packet = st.packet)
        BY <3>3, <4>1 DEF IsExpected, InPhase
      <4>3. PICK p : p = IF m.type = "PB" THEN m.packet ELSE st.packet
        OBVIOUS
      <4>4. PICK ph1 \in Phases : ph1 = PhaseAfter(ph, m.type)
        BY DEF PhaseAfter, Phases
      <4>5. InPhase(AfterMessage(st, m), ph1, p)
        BY <3>1, <3>3, <3>4, <3>6, <4>2, <4>3, <4>4, PhaseStep
      <4>6. Recorded(a, s, ph1, p)
        BY <2>2, <3>3, <3>4, <3>6, <4>2, <4>3, <4>4, RecordedStep
      <4>7. /\ InPhase(AfterMessage(st, m), ph1, AfterMessage(st, m).packet)
            /\ Recorded(a, s, ph1, AfterMessage(st, m).packet)
        BY <4>5, <4>6, ZenonT(30) DEF InPhase, Recorded
      <4> QED
        BY <4>1, <4>7
    <3> QED
      BY <3>5, <3>6
  <2>5. CheckFrom(Start, a).ok => RecordsAll(a)
    BY <2>3, <2>4, ZenonT(30) DEF RecordsAll
  <2> QED
    BY <1>1, <2>2, <2>5
<1>4. b \in S
  BY <1>2, <1>3, AppendInduction
<1> QED
  BY <1>1, <1>4

\* A user's iterator which looks at the messages knows what the checker knows.
LEMMA StatesTracked ==
    ASSUME NEW b \in Seq(Sent), CheckFrom(Start, b).ok
    PROVE  /\ [s \in Streams |-> StateAfterAll(b, s)] \in SeekStates
           /\ AllTracked([s \in Streams |-> StateAfterAll(b, s)], CheckFrom(Start, b))
<1>1. ASSUME NEW s \in Streams
      PROVE  /\ StateAfterAll(b, s) \in SeekState
             /\ Tracks(StateAfterAll(b, s), CheckFrom(Start, b).streams[s])
  <2>1. PICK st \in StreamState : st = CheckFrom(Start, b).streams[s]
    BY CheckType, StartIsSound DEF Checks
  <2>2. PICK ph \in Phases : InPhase(st, ph, st.packet) /\ Recorded(b, s, ph, st.packet)
    BY <2>1, RecordedAll DEF RecordsAll
  <2>3. PICK ss : ss = StateAfterAll(b, s)
    OBVIOUS
  <2>4. ss.packet = st.packet
    <3>1. CASE ph = "packet"
      BY <2>2, <2>3, <3>1, ZenonT(30) DEF StateAfterAll, Recorded
    <3>2. CASE ph # "packet"
      BY <2>2, <2>3, <3>2 DEF StateAfterAll, Recorded, InPhase
    <3> QED
      BY <3>1, <3>2
  <2>5. ss.open <=> ph \in {"open", "packet"}
    BY <2>2, <2>3, ZenonT(30) DEF StateAfterAll, Recorded, Phases
  <2>6. ss \in SeekState
    <3>1. st.packet \in 0 .. MaxPackets
      BY DEF StreamState
    <3>2. PICK o \in BOOLEAN : o <=> (Places(b, s, "SB") # {} /\ Places(b, s, "SE") = {})
      BY Zenon
    <3>3. PICK v \in BOOLEAN : v <=> \E i \in 1 .. Len(b) : b[i].stream = s /\ b[i].ts # NoTime
      BY Zenon
    <3>4. ss = [open |-> o, packet |-> st.packet, seen |-> v]
      BY <2>3, <2>4, <3>2, <3>3, ZenonT(30) DEF StateAfterAll
    <3> QED
      BY <3>1, <3>4 DEF SeekState
  <2> QED
    BY <2>1, <2>2, <2>3, <2>4, <2>5, <2>6, OpenPhases DEF Tracks
<1> QED
  BY <1>1 DEF SeekStates, AllTracked

---------------------------------------------------------------------------
(* What downstream got and what it will get *)

\* After a seek of the beginning: d was delivered, r comes next, c is what the
\* checker has and t is the trace.
FromBeginning(d, r, c, t) == d \o r = t /\ CheckFrom(c, r) = CheckFrom(Start, t)

\* Delivering a batch after a seek to the beginning: the checker accepts it, and what was delivered
\* and what is left still make up the content.
LEMMA BeginningDelivers ==
    ASSUME NEW d \in Seq(Sent), NEW b \in Seq(Sent), NEW r \in Seq(Sent), NEW t \in Seq(Sent),
           NEW c \in Checks, CheckFrom(Start, t).ok, FromBeginning(d, b \o r, c, t)
    PROVE  CheckFrom(c, b).ok /\ FromBeginning(d \o b, r, CheckFrom(c, b), t)
<1>1. Regrouped(d, b, r)
  BY Regroup
<1>2. CheckFrom(c, b \o r) = CheckFrom(CheckFrom(c, b), r)
  BY CheckConcat
<1>3. CheckFrom(c, b) \in Checks
  BY CheckType
<1>4. CheckFrom(CheckFrom(c, b), r) = CheckFrom(Start, t)
  BY <1>2, Zenon DEF FromBeginning
<1>5. CheckFrom(c, b).ok
  BY <1>3, <1>4, CheckOkBefore
<1>6. (d \o b) \o r = t
  BY <1>1, Zenon DEF Regrouped, FromBeginning
<1> QED
  BY <1>4, <1>5, <1>6, Zenon DEF FromBeginning

\* The same, when the upstream component sends one more message.
LEMMA BeginningGrows ==
    ASSUME NEW d \in Seq(Sent), NEW r \in Seq(Sent), NEW t \in Seq(Sent), NEW m \in Sent,
           NEW c \in Checks, FromBeginning(d, r, c, t)
    PROVE  FromBeginning(d, Append(r, m), c, Append(t, m))
<1>1. d \o Append(r, m) = Append(d \o r, m)
  BY ConcatAppend
<1>2. CheckFrom(c, Append(r, m)) = CheckMessage(CheckFrom(c, r), m)
  BY CheckAppend
<1>3. CheckFrom(Start, Append(t, m)) = CheckMessage(CheckFrom(Start, t), m)
  BY CheckAppend, StartIsSound
<1> QED
  BY <1>1, <1>2, <1>3, Zenon DEF FromBeginning

\* After a seek of the time ns: quiet says that no discarded items of the trace
\* last, closed that it has no more messages.
Passes(y, t, over) ==
    /\ y.ok /\ Resumes(y, CheckFrom(Start, t))
    /\ over \/ y.last = CheckFrom(Start, t).last

FromTime(ns, d, r, c, t, quiet, over) ==
    /\ quiet => Passes(CheckFrom(c, r), t, over)
    /\ d \o r \in Seq(Late(ns))
    /\ Events(d \o r, 0) = Events(t, ns)
    /\ over \/ CheckFrom(Start, t).last >= ns

\* Delivering a batch after a seek to a time: the checker accepts it where nothing was cut, and
\* what was delivered and what is left are still what the seek promised.
LEMMA TimeDelivers ==
    ASSUME NEW ns \in Times, NEW d \in Seq(Sent), NEW b \in Seq(Sent), NEW r \in Seq(Sent),
           NEW t \in Seq(Sent), NEW c \in Checks, NEW quiet \in BOOLEAN, NEW over \in BOOLEAN,
           FromTime(ns, d, b \o r, c, t, quiet, over), NEW c1,
           quiet /\ CheckFrom(c, b).ok => c1 = CheckFrom(c, b)
    PROVE  /\ quiet => CheckFrom(c, b).ok
           /\ FromTime(ns, d \o b, r, c1, t, quiet, over)
<1>1. Regrouped(d, b, r)
  BY Regroup
<1>2. CheckFrom(c, b \o r) = CheckFrom(CheckFrom(c, b), r)
  BY CheckConcat
<1>3. CheckFrom(c, b) \in Checks
  BY CheckType
<1>4. ASSUME quiet PROVE CheckFrom(c, b).ok /\ Passes(CheckFrom(c1, r), t, over)
  <2>1. Passes(CheckFrom(CheckFrom(c, b), r), t, over)
    BY <1>2, <1>4, Zenon DEF FromTime
  <2>2. CheckFrom(CheckFrom(c, b), r).ok
    BY <2>1 DEF Passes
  <2>3. CheckFrom(c, b).ok
    BY <1>3, <2>2, CheckOkBefore
  <2> QED
    BY <1>4, <2>1, <2>3, Zenon
<1>5. (d \o b) \o r = d \o (b \o r)
  BY <1>1 DEF Regrouped
<1> QED
  BY <1>4, <1>5, Zenon DEF FromTime

\* The same, when the upstream component sends one more message.
LEMMA TimeGrows ==
    ASSUME NEW ns \in Times, NEW d \in Seq(Sent), NEW r \in Seq(Sent),
           NEW t \in Seq(Sent), NEW m \in Sent, NEW c \in Checks,
           NEW quiet \in BOOLEAN, NEW quiet1 \in BOOLEAN, quiet1 => quiet,
           FromTime(ns, d, r, c, t, quiet, FALSE), CheckFrom(Start, Append(t, m)).ok
    PROVE  FromTime(ns, d, Append(r, m), c, Append(t, m), quiet1, FALSE)
<1>1. PICK x \in Checks, x1 \in Checks : x = CheckFrom(Start, t) /\ x1 = CheckFrom(Start, Append(t, m))
  BY CheckType, StartIsSound, AppendProperties, ZenonT(30)
<1>2. x1 = CheckMessage(x, m)
  BY <1>1, CheckAppend, StartIsSound
<1>3. x1.ok /\ (m.ts = NoTime \/ m.ts >= x.last) /\ x1.last = IF m.ts = NoTime THEN x.last ELSE m.ts
  <2>1. /\ CheckMessage(x, m).ok => m.ts = NoTime \/ m.ts >= x.last
        /\ CheckMessage(x, m).last = IF m.ts = NoTime THEN x.last ELSE m.ts
    BY CheckStep
  <2> QED
    BY <1>1, <1>2, <2>1
<1>4. x.last \in Times /\ x.last >= ns /\ m.ts \in Nat /\ NoTime > ns /\ NoTime \in Nat
  BY <1>1, SequenceAssumption DEF Checks, FromTime, Times, NoTime, Sent, Message
<1>5. m.ts >= ns /\ x1.last >= ns
  BY <1>3, <1>4 DEF Times
<1>6. ASSUME quiet1 PROVE Passes(CheckFrom(c, Append(r, m)), Append(t, m), FALSE)
  <2>1. PICK y \in Checks : y = CheckFrom(c, r)
    BY CheckType
  <2>2. y.ok /\ Resumes(y, x) /\ y.last = x.last
    BY <1>1, <1>6, <2>1 DEF FromTime, Passes
  <2>3. CheckFrom(c, Append(r, m)) = CheckMessage(y, m)
    BY <2>1, CheckAppend
  <2>4. /\ CheckMessage(y, m).ok /\ Resumes(CheckMessage(y, m), x1)
        /\ CheckMessage(y, m).last = x1.last
    BY <1>2, <1>3, <2>2, ResumeStep
  <2> QED
    BY <1>1, <2>3, <2>4 DEF Passes
<1>7. d \o Append(r, m) = Append(d \o r, m) /\ d \o r \in Seq(Sent)
  BY ConcatAppend, SMTT(30)
<1>8. d \o Append(r, m) \in Seq(Late(ns))
  <2>1. m \in Late(ns)
    BY <1>5 DEF Late
  <2> QED
    BY <1>7, <2>1, AppendProperties DEF FromTime
<1>9. Events(d \o Append(r, m), 0) = Events(Append(t, m), ns)
  <2>1. 0 \in Times
    BY SequenceAssumption DEF Times
  <2>2. Events(Append(d \o r, m), 0) = AddWanted(Events(d \o r, 0), m, 0)
    BY <1>7, <2>1, EventsAppend, ZenonT(30)
  <2>3. Events(Append(t, m), ns) = AddWanted(Events(t, ns), m, ns)
    BY EventsAppend
  <2>4. Wanted(m, 0) <=> Wanted(m, ns)
    BY <1>4, <1>5 DEF Wanted
  <2> QED
    BY <1>7, <2>2, <2>3, <2>4, Zenon DEF AddWanted, FromTime
<1> QED
  BY <1>1, <1>5, <1>6, <1>8, <1>9, Zenon DEF FromTime

\* What a seek promised before the content was complete, it promises after.
LEMMA TimeClosed ==
    ASSUME NEW ns, NEW d, NEW r, NEW c, NEW t, NEW quiet, NEW over,
           FromTime(ns, d, r, c, t, quiet, over)
    PROVE  FromTime(ns, d, r, c, t, quiet, TRUE)
  BY DEF FromTime, Passes

\* The messages before the one sought have no wanted event, and neither have
\* those which a seek replays or keeps.
LEMMA SoughtEvents ==
    ASSUME NEW ns \in Times, NEW e \in Seq(Early(ns)), NEW p \in Seq(Late(ns) \cap Other(0)),
           NEW r \in Seq(Late(ns))
    PROVE  /\ p \o r \in Seq(Late(ns))
           /\ Events(p \o r, 0) = Events(e \o r, ns)
<1>1. 0 \in Times
  BY SequenceAssumption DEF Times
<1>2. Early(ns) \subseteq Other(ns)
  BY DEF Early, Other, Wanted, Reached, Sent
<1>3. e \in Seq(Other(ns)) /\ p \in Seq(Late(ns)) /\ p \in Seq(Other(0))
  BY <1>2, SeqMonotonic
<1>4. e \in Seq(Sent) /\ p \in Seq(Sent) /\ r \in Seq(Sent)
  <2>1. Late(ns) \subseteq Sent /\ Other(ns) \subseteq Sent
    BY DEF Late, Other
  <2> QED
    BY <1>3, <2>1, SeqMonotonic
<1>5. Events(e, ns) = <<>> /\ Events(p, 0) = <<>>
  BY <1>1, <1>3, EventsOther
<1>6. PICK w \in Seq(Sent) : w = Events(r, 0) /\ w = Events(r, ns)
  <2>1. Events(r, 0) = Events(r, ns)
    BY EventsLate
  <2>2. \A m \in Sent : Events(r, 0) \in Seq(Sent)
    BY <1>1, <1>4, EventsAppend
  <2>3. Sent # {} \/ r = <<>>
    <3>1. ASSUME Sent = {} PROVE r = <<>>
      BY <1>4, <3>1, LenProperties, ElementOfSeq, EmptySeq
    <3> QED
      BY <3>1
  <2>4. ASSUME r = <<>> PROVE Events(r, 0) \in Seq(Sent)
    BY <1>1, <2>4, EventsNone, EmptySeq, ZenonT(30)
  <2> QED
    BY <2>1, <2>2, <2>3, <2>4, Zenon
<1>7. Events(p \o r, 0) = <<>> \o w
  <2>1. Events(p \o r, 0) = Events(p, 0) \o Events(r, 0)
    BY <1>1, <1>4, EventsConcat, ZenonT(30)
  <2> QED
    BY <1>5, <1>6, <2>1, Zenon
<1>8. Events(e \o r, ns) = <<>> \o w
  <2>1. Events(e \o r, ns) = Events(e, ns) \o Events(r, ns)
    BY <1>4, EventsConcat, SMTT(30)
  <2> QED
    BY <1>5, <1>6, <2>1, Zenon
<1> QED
  BY <1>3, <1>7, <1>8, ConcatProperties

\* A seek of the time ns went over the messages e of the trace, keeps q of them
\* and goes on with r.
Seekable(ns, V, e, q, r, states, order, quiet, over) ==
    /\ ns \in Times /\ V \in SUBSET Sent /\ e \in Seq(Early(ns)) /\ q \in Seq(Kept(V, ns))
    /\ r \in Seq(Sent) /\ (r # <<>> => Reached(r[1], ns)) /\ CheckFrom(Start, e \o r).ok
    /\ states \in SeekStates /\ AllTracked(states, CheckFrom(Start, e))
    /\ order \in Orders({s \in Streams : states[s].open})
    /\ quiet \in BOOLEAN /\ (quiet => Kept(V, ns) = {})
    /\ over \in BOOLEAN /\ (r = <<>> => over)

\* It puts p before them.
SoughtWith(ns, p, q, r, t, quiet, over) ==
    /\ p \in Seq(Sent) /\ q \in Seq(Sent)
    /\ FromTime(ns, <<>>, (p \o q) \o r, [ok |-> TRUE, last |-> ns, streams |-> NoExpectation],
                t, quiet, over)

\* The queue built from the replay, the kept messages and the rest of the batch is one from
\* which the time sought is reached.
LEMMA SeekableIsSought ==
    ASSUME NEW ns, NEW V, NEW e, NEW q, NEW r, NEW states, NEW order, NEW quiet, NEW over,
           Seekable(ns, V, e, q, r, states, order, quiet, over)
    PROVE  SoughtWith(ns, Replay(order, states, ns), q, r, e \o r, quiet, over)
<1>a. PICK c : c = [ok |-> TRUE, last |-> ns, streams |-> NoExpectation]
  BY ZenonT(30)
<1>b. /\ ns \in Times /\ V \in SUBSET Sent /\ e \in Seq(Early(ns)) /\ q \in Seq(Kept(V, ns))
      /\ r \in Seq(Sent) /\ (r # <<>> => Reached(r[1], ns)) /\ CheckFrom(Start, e \o r).ok
      /\ states \in SeekStates /\ AllTracked(states, CheckFrom(Start, e))
      /\ order \in Orders({s \in Streams : states[s].open})
      /\ quiet \in BOOLEAN /\ (quiet => Kept(V, ns) = {})
      /\ over \in BOOLEAN /\ (r = <<>> => over)
  BY Zenon DEF Seekable
<1> USE <1>a, <1>b
<1>1. e \in Seq(Sent) /\ q \in Seq(Sent) /\ Kept(V, ns) \subseteq Late(ns) \cap Other(0)
  <2>1. Early(ns) \subseteq Sent
    BY DEF Early
  <2> QED
    BY <2>1, KeptType, SeqMonotonic, ZenonT(30)
<1>2. PICK x \in Checks : x = CheckFrom(Start, e)
  BY <1>1, CheckType, StartIsSound, ZenonT(30)
<1>3. CheckFrom(x, r) = CheckFrom(Start, e \o r) /\ CheckFrom(x, r).ok
  BY <1>1, <1>2, CheckConcat, StartIsSound, ZenonT(30)
<1>4. Sound(x)
  <2>1. x.ok
    BY <1>3, CheckOkBefore
  <2> QED
    BY <1>1, <1>2, <2>1, SoundAfter, StartIsSound, ZenonT(30)
<1>5. c \in Checks /\ c.ok /\ c.last = ns /\ \A s \in Streams : c.streams[s] = NewStreamState
  BY SequenceAssumption DEF Checks, NoExpectation, NewStreamState, StreamState, StreamTypes, NoPacket
<1>6. PICK p \in Seq(Sent) : p = Replay(order, states, ns) /\ p \in Seq(AllOpening(states, ns))
  <2>1. AllOpening(states, ns) \subseteq Sent
    BY ZenonT(30) DEF AllOpening
  <2>2. Replay(order, states, ns) \in Seq(AllOpening(states, ns))
    BY ReplayOpens, ZenonT(30)
  <2>3. Replay(order, states, ns) \in Seq(Sent)
    BY <2>1, <2>2, SeqMonotonic
  <2> QED
    BY <2>2, <2>3, Zenon
<1>7. /\ CheckFrom(c, p \o r).ok
      /\ r # <<>> => CheckFrom(c, p \o r).last = CheckFrom(x, r).last
      /\ Resumes(CheckFrom(c, p \o r), CheckFrom(x, r))
  <2>1. AllTracked(states, x)
    BY <1>2
  <2>2. /\ CheckFrom(c, Replay(order, states, ns) \o r).ok
        /\ r # <<>> => CheckFrom(c, Replay(order, states, ns) \o r).last = CheckFrom(x, r).last
        /\ Resumes(CheckFrom(c, Replay(order, states, ns) \o r), CheckFrom(x, r))
    BY <1>3, <1>4, <1>5, <2>1, SeekDone, Zenon
  <2> QED
    BY <1>6, <2>2, Zenon
<1>8. r \in Seq(Late(ns)) /\ (r # <<>> => CheckFrom(x, r).last >= ns)
  BY <1>3, LateAfter
<1>9. PICK k \in Seq(Late(ns) \cap Other(0)) : k = p \o q
  <2>1. AllOpening(states, ns) \subseteq Late(ns) \cap Other(0)
    BY ZenonT(30) DEF AllOpening, Opening, Late, Other, Wanted
  <2>2. p \in Seq(Late(ns) \cap Other(0)) /\ q \in Seq(Late(ns) \cap Other(0))
    BY <1>1, <1>6, <2>1, SeqMonotonic
  <2> QED
    BY <2>2, ConcatProperties, ZenonT(30)
<1>10. k \o r \in Seq(Late(ns)) /\ Events(k \o r, 0) = Events(e \o r, ns)
  BY <1>8, SoughtEvents, ZenonT(30)
<1>11. <<>> \o (k \o r) = k \o r
  BY <1>10, ConcatEmptySeq
<1>12. ASSUME quiet PROVE Passes(CheckFrom(c, k \o r), e \o r, over)
  <2>1. q = <<>>
    <3>1. q \in Seq({})
      BY <1>12
    <3> QED
      BY <3>1, LenProperties, ElementOfSeq, EmptySeq
  <2>2. k = p
    BY <1>9, <2>1, ConcatEmptySeq
  <2> QED
    BY <1>3, <1>7, <2>2 DEF Passes
<1>13. over \/ CheckFrom(Start, e \o r).last >= ns
  BY <1>3, <1>8
<1>14. FromTime(ns, <<>>, k \o r, c, e \o r, quiet, over)
  BY <1>10, <1>11, <1>12, <1>13, Zenon DEF FromTime
<1> QED
  BY <1>1, <1>6, <1>9, <1>14, Zenon DEF SoughtWith

\* The fast-forward has gone over e, and has q and r in its queue; z is what the
\* user's iterator still has.
Settles(ns, V, e, q, r, z, states, quiet, over) ==
    /\ ns \in Times /\ V \in SUBSET Sent /\ e \in Seq(Early(ns)) /\ q \in Seq(Kept(V, ns))
    /\ r \in Seq(Sent) /\ z \in Seq(Sent)
    /\ (r \o z # <<>> => Reached((r \o z)[1], ns)) /\ CheckFrom(Start, e \o (r \o z)).ok
    /\ states \in SeekStates /\ AllTracked(states, CheckFrom(Start, e))
    /\ quiet \in BOOLEAN /\ (quiet => Kept(V, ns) = {})
    /\ over \in BOOLEAN /\ (r \o z = <<>> => over)

\* The queue a fast-forward leaves behind is well-typed and starts what the seek promised.
LEMMA SettledQueue ==
    ASSUME NEW ns, NEW V, NEW e, NEW q, NEW r, NEW z, NEW states, NEW quiet, NEW over,
           Settles(ns, V, e, q, r, z, states, quiet, over),
           NEW order \in Orders({s \in Streams : states[s].open}),
           NEW msgs, msgs = Replay(order, states, ns) \o (q \o r)
    PROVE  /\ msgs \in Seq(Sent)
           /\ FromTime(ns, <<>>, msgs \o z, [ok |-> TRUE, last |-> ns, streams |-> NoExpectation],
                       e \o (r \o z), quiet, over)
<1>1. r \o z \in Seq(Sent)
  BY ConcatProperties DEF Settles
<1>2. Seekable(ns, V, e, q, r \o z, states, order, quiet, over)
  BY <1>1, Zenon DEF Settles, Seekable
<1>3. PICK p : p = Replay(order, states, ns)
  OBVIOUS
<1>4. SoughtWith(ns, p, q, r \o z, e \o (r \o z), quiet, over)
  BY <1>2, <1>3, SeekableIsSought
<1>5. p \in Seq(Sent) /\ q \in Seq(Sent) /\ r \in Seq(Sent) /\ z \in Seq(Sent)
  BY <1>4 DEF SoughtWith, Settles
<1>6. Regroup4(p, q, r, z)
  BY <1>5, RegroupsFour
<1>7. msgs \o z = (p \o q) \o (r \o z)
  BY <1>3, <1>6, Zenon DEF Regroup4
<1>8. q \o r \in Seq(Sent) /\ p \o (q \o r) \in Seq(Sent)
  BY <1>5, ConcatProperties
<1> QED
  BY <1>3, <1>4, <1>7, <1>8, Zenon DEF SoughtWith

\* The batch b, which comes after w and before z, has the message sought, at
\* the beginning of r.
Finds(ns, V, w, z, b, a, q, r, c, h, quiet, over) ==
    /\ ns \in Times /\ V \in SUBSET Sent /\ w \in Seq(Early(ns)) /\ z \in Seq(Sent)
    /\ b \in Seq(Sent) /\ a \in Seq(Sent) /\ q \in Seq(Kept(V, ns)) /\ r \in Seq(Sent)
    /\ c = CheckFrom(Start, w) /\ h \in Handles /\ SplitAt(h, a, q, r, c, ns)
    /\ quiet \in BOOLEAN /\ (quiet => Kept(V, ns) = {}) /\ over \in BOOLEAN
    /\ b = a \o r /\ CheckFrom(Start, (w \o b) \o z).ok

FoundAs(ns, V, w, z, b, a, q, r, h, quiet, over) ==
    /\ Settles(ns, V, w \o a, q, r, z, h.states, quiet, over)
    /\ (w \o b) \o z = (w \o a) \o (r \o z)
    /\ h.msgs = q \o r

\* A batch in which the time is found gives the queue with which the fast-forward ends.
LEMMA FoundSettles ==
    ASSUME NEW ns, NEW V, NEW w, NEW z, NEW b, NEW a, NEW q, NEW r, NEW c, NEW h, NEW quiet, NEW over,
           Finds(ns, V, w, z, b, a, q, r, c, h, quiet, over)
    PROVE  FoundAs(ns, V, w, z, b, a, q, r, h, quiet, over)
<1> USE DEF Finds
<1>1. w \in Seq(Sent) /\ w \o a \in Seq(Early(ns)) /\ r # <<>> /\ Reached(r[1], ns)
      /\ h.msgs = q \o r /\ AllTracked(h.states, CheckFrom(c, a)) /\ h.states \in SeekStates
  <2>1. Early(ns) \subseteq Sent
    BY DEF Early
  <2>2. w \in Seq(Sent)
    BY <2>1, SeqMonotonic
  <2> QED
    BY <2>2, ConcatProperties, ZenonT(30) DEF SplitAt, Handles
<1>2. CheckFrom(Start, w \o a) = CheckFrom(c, a)
  BY <1>1, CheckConcat, StartIsSound
<1>3. (w \o b) \o z = (w \o a) \o (r \o z)
  <2>1. Regroup4(w, a, r, z)
    BY <1>1, RegroupsFour
  <2> QED
    BY <2>1, Zenon DEF Regroup4
<1>4. r \o z # <<>> /\ (r \o z)[1] = r[1]
  <2>1. r \in Seq(Sent) /\ z \in Seq(Sent)
    BY Zenon
  <2> QED
    BY <1>1, <2>1, SameFirst, ZenonT(30)
<1>5. CheckFrom(Start, (w \o a) \o (r \o z)).ok
  BY <1>3, Zenon
<1> QED
  BY <1>1, <1>2, <1>3, <1>4, <1>5, Zenon DEF Settles, FoundAs
===========================================================================
