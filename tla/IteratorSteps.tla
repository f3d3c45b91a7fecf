-------------------------- MODULE IteratorSteps --------------------------
(***************************************************************************)
(* The inductive invariant of message iterators (MessageIterator.tla), and *)
(* the steps which preserve it before a time is found: the messages of the *)
(* trace, the seeks of the beginning, the start of a seek of a time, the   *)
(* failed calls and the batches. Lemmas for IteratorProofs.                *)
(***************************************************************************)
EXTENDS IteratorSeeks

---------------------------------------------------------------------------
(* The inductive invariant *)

\* What the checker has seen of the messages, where the user's iterator is in
\* the trace, and the messages which downstream will get.
Checker == [ok |-> TRUE, last |-> lastNs, streams |-> perStream]
Passed == SubSeq(content, 1, pos - 1)
Rest == Queue \o Available
Said == {content[i] : i \in 1 .. Len(content)}

Types ==
    /\ content \in Seq(Sent) /\ prefix \in Seq(Sent) /\ autoMsgs \in Seq(Sent)
    /\ delivered \in Seq(Sent)
    /\ phase \in [Streams -> Phases]
    /\ packets \in [Streams -> 0 .. MaxPackets]
    /\ closed \in BOOLEAN /\ swapped \in BOOLEAN
    /\ pos \in Nat /\ 1 <= pos /\ pos <= Len(content) + 1
    /\ state \in IteratorStates
    /\ lastNs \in Times
    /\ perStream \in [Streams -> StreamState]
    /\ forward \in [on : BOOLEAN, ns : Times, states : SeekStates]
    /\ seeks \in 0 .. MaxSeeks /\ undrained \in BOOLEAN
    /\ sought \in Times \cup {Beginning, Nowhere}
    /\ failed \in {"none", "post", "assert"}

\* The trace follows the rules of message.h, and the checker accepts it.
TraceInv ==
    /\ CheckFrom(Start, content).ok
    /\ \A s \in Streams : InPhase(CheckFrom(Start, content).streams[s], phase[s], packets[s])
    /\ closed => \A s \in Streams : phase[s] \in {"unborn", "ended"}

\* A fast-forward has gone over messages before the one sought, and knows of
\* the streams what the checker knows of them.
Forwarding ==
    /\ Checker = CheckFrom(Start, Passed)
    /\ Passed \in Seq(Early(forward.ns))
    /\ autoMsgs \in Seq(Kept(Said, forward.ns))
    /\ AllTracked(forward.states, Checker)

BusyInv ==
    Busy => /\ prefix = <<>> /\ sought = Nowhere /\ state = "ACTIVE"
            /\ undrained = swapped
            /\ ~swapped => Forwarding

SettledInv == Settled => sought # Nowhere

QueueInv == swapped /\ ~undrained => autoMsgs # <<>>

BeginningInv ==
    sought = Beginning =>
        /\ ~Busy /\ prefix = <<>>
        /\ ~undrained => ~swapped /\ FromBeginning(delivered, Rest, Checker, content)

SeekInv ==
    Settled /\ sought \in Times /\ ~undrained =>
        FromTime(sought, delivered, Rest, Checker, content, ~Straddling, closed)

IterInv ==
    /\ Types /\ TraceInv /\ BusyInv /\ SettledInv /\ QueueInv
    /\ BeginningInv /\ SeekInv /\ NoCheckFails

---------------------------------------------------------------------------
\* What the type invariant says of the sequences the other invariants speak of.
LEMMA StateFacts ==
    ASSUME Types
    PROVE  /\ Available \in Seq(Sent) /\ Queue \in Seq(Sent) /\ Rest \in Seq(Sent)
           /\ Passed \in Seq(Sent) /\ SubSeq(content, pos, Len(content)) \in Seq(Sent)
           /\ content = Passed \o SubSeq(content, pos, Len(content))
           /\ Checker \in Checks /\ Checker.ok
           /\ Said \in SUBSET Sent /\ content \in Seq(Said)
           /\ Straddling \in BOOLEAN
<1>1. PICK k \in Nat, t \in Seq(Sent) : k = pos /\ t = content /\ 1 <= k /\ k <= Len(t) + 1
  BY DEF Types
<1>2. /\ SubSeq(t, 1, k - 1) \in Seq(Sent) /\ SubSeq(t, k, Len(t)) \in Seq(Sent)
      /\ t = SubSeq(t, 1, k - 1) \o SubSeq(t, k, Len(t))
  BY <1>1, Halves, ZenonT(30)
<1>3. Available \in Seq(Sent)
  BY <1>1, <1>2, ConcatProperties, ZenonT(30) DEF Available, Types
<1>4. Queue \in Seq(Sent)
  BY EmptySeq DEF Queue, Types
<1>5. Rest \in Seq(Sent)
  BY <1>3, <1>4, ConcatProperties DEF Rest
<1>6. Checker \in Checks /\ Checker.ok
  BY DEF Checker, Checks, Types
<1>7. Said \in SUBSET Sent
  BY ElementOfSeq DEF Said, Types
<1>8. content \in Seq(Said)
  <2>1. \A i \in 1 .. Len(t) : t[i] \in Said
    BY <1>1 DEF Said
  <2>2. Len(t) \in Nat /\ t = [i \in 1 .. Len(t) |-> t[i]]
    BY LenProperties
  <2>3. t \in [1 .. Len(t) -> Said]
    BY <2>1, <2>2
  <2> QED
    BY <1>1, <2>2, <2>3
<1> QED
  BY <1>1, <1>2, <1>3, <1>4, <1>5, <1>6, <1>7, <1>8, ZenonT(30) DEF Passed, Straddling

\* The initial states satisfy the invariant.
LEMMA IterInit ==
    ASSUME Init
    PROVE  IterInv
<1> USE DEF Init
<1>1. Types
  <2>1. NoExpectation \in [Streams -> StreamState]
    BY StartIsSound DEF Start, Checks
  <2>2. NoForward \in [on : BOOLEAN, ns : Times, states : SeekStates]
    BY SequenceAssumption DEF NoForward, Times, SeekStates, SeekState, NoSeekState, NoPacket
  <2>3. <<>> \in Seq(Sent) /\ Len(<<>>) = 0
    BY EmptySeq
  <2>4. /\ 0 \in Times /\ 0 \in 0 .. MaxSeeks /\ 0 \in 0 .. MaxPackets
        /\ 1 \in Nat /\ 1 <= 1 /\ 1 <= 0 + 1
    BY SequenceAssumption, IteratorAssumption DEF Times
  <2>5. phase \in [Streams -> Phases] /\ packets \in [Streams -> 0 .. MaxPackets]
    BY <2>4 DEF Phases
  <2> QED
    BY <2>1, <2>2, <2>3, <2>4, <2>5, ZenonT(30) DEF Types, IteratorStates
<1>2. CheckFrom(Start, <<>>) = Start /\ Start.ok /\ \A s \in Streams : Start.streams[s] = NewStreamState
  BY CheckNone, StartIsSound DEF Start
<1>3. TraceInv
  BY <1>2 DEF TraceInv, InPhase, NewStreamState, LegalTypes, NoPacket
<1>4. ~Busy /\ BusyInv /\ SettledInv /\ QueueInv /\ NoCheckFails
  <2>1. ~Busy
    BY DEF Busy, NoForward
  <2>2. Beginning # Nowhere /\ Beginning \notin Times
    BY SequenceAssumption DEF Beginning, Nowhere, Times
  <2> QED
    BY <2>1, <2>2 DEF BusyInv, SettledInv, QueueInv, NoCheckFails
<1>5. BeginningInv
  <2>1. Rest = <<>>
    <3>1. <<>> \in Seq(Sent) /\ Len(<<>>) = 0
      BY EmptySeq
    <3>2. SubSeq(<<>>, 1, 0) = <<>> /\ <<>> \o <<>> = <<>>
      BY <3>1, SubSeqEmpty, ConcatEmptySeq
    <3> QED
      BY <3>1, <3>2, Zenon DEF Rest, Available, Queue
  <2>2. Checker = Start /\ <<>> \o <<>> = <<>>
    BY EmptySeq, ConcatEmptySeq DEF Checker, Start
  <2> QED
    BY <1>2, <1>4, <2>1, <2>2 DEF BeginningInv, FromBeginning
<1>6. SeekInv
  BY SequenceAssumption DEF SeekInv, Beginning, Times
<1> QED
  BY <1>1, <1>3, <1>4, <1>5, <1>6 DEF IterInv

---------------------------------------------------------------------------
(* The trace grows *)

\* One more message of content adds to what was said.
LEMMA SaidGrows ==
    ASSUME Types, NEW m \in Sent, content' = Append(content, m)
    PROVE  /\ content' \in Seq(Sent) /\ Len(content') = Len(content) + 1
           /\ Said \subseteq Said'
           /\ \A ns \in Times : Seq(Kept(Said, ns)) \subseteq Seq(Kept(Said', ns))
           /\ Straddling => Straddling'
<1>1. PICK n \in Nat : n = Len(content)
  BY LenProperties DEF Types
<1>2. /\ content' \in Seq(Sent) /\ Len(content') = n + 1
      /\ \A i \in 1 .. n : content'[i] = content[i]
  BY <1>1, AppendProperties DEF Types
<1>3. Said \subseteq Said'
  BY <1>1, <1>2 DEF Said
<1>4. ASSUME NEW ns \in Times PROVE Seq(Kept(Said, ns)) \subseteq Seq(Kept(Said', ns))
  <2>1. Kept(Said, ns) \subseteq Kept(Said', ns)
    BY <1>3 DEF Kept, Lasting
  <2> QED
    BY <2>1, SeqMonotonic
<1>5. DOMAIN content = 1 .. n /\ DOMAIN content' = 1 .. n + 1
  BY <1>1, <1>2 DEF Types
<1>6. Straddling => Straddling'
  BY <1>2, <1>5 DEF Straddling
<1> QED
  BY <1>1, <1>2, <1>3, <1>4, <1>6

\* A message which the upstream component sends, as long as it keeps to its trace, preserves
\* the invariant.
LEMMA TraceGrows ==
    ASSUME IterInv, NEW m \in Sent, content' = Append(content, m), ~closed,
           UNCHANGED <<closed, iterVars, seekVars, sought, delivered, failed>>,
           phase' \in [Streams -> Phases], packets' \in [Streams -> 0 .. MaxPackets],
           TraceInv'
    PROVE  IterInv'
<1> USE DEF iterVars, seekVars
<1>1. /\ content' \in Seq(Sent) /\ Len(content') = Len(content) + 1
      /\ \A ns \in Times : Seq(Kept(Said, ns)) \subseteq Seq(Kept(Said', ns))
      /\ Straddling => Straddling'
  BY SaidGrows DEF IterInv
<1>2. Types'
  <2>1. Len(content) \in Nat
    BY LenProperties DEF IterInv, Types
  <2> QED
    BY <1>1, <2>1, SMTT(30) DEF IterInv, Types
<1>3. Passed' = Passed /\ Available' = Append(Available, m) /\ Rest' = Append(Rest, m)
  <2>1. PICK k \in Nat, t \in Seq(Sent) : k = pos /\ t = content /\ 1 <= k /\ k <= Len(t) + 1
    BY DEF IterInv, Types
  <2>2. /\ SubSeq(Append(t, m), 1, k - 1) = SubSeq(t, 1, k - 1)
        /\ SubSeq(Append(t, m), k, Len(Append(t, m))) = Append(SubSeq(t, k, Len(t)), m)
    BY <2>1, Grown, SMTT(30)
  <2>3. PICK a \in Seq(Sent), p \in Seq(Sent), q \in Seq(Sent) :
            a = SubSeq(t, k, Len(t)) /\ p = prefix /\ q = Queue
    BY <2>1, StateFacts, ZenonT(30) DEF IterInv, Types
  <2>4. p \o Append(a, m) = Append(p \o a, m) /\ p \o a \in Seq(Sent)
    BY ConcatAppend
  <2>5. q \o Append(p \o a, m) = Append(q \o (p \o a), m)
    BY <2>4, ConcatAppend, SMTT(30)
  <2>6. Passed' = Passed
    BY <2>1, <2>2, Zenon DEF Passed
  <2>7. Available' = Append(Available, m)
    BY <2>1, <2>2, <2>3, <2>4, Zenon DEF Available
  <2>8. Queue' = Queue /\ Available = p \o a
    BY <2>1, <2>3, Zenon DEF Queue, Available
  <2> QED
    BY <2>3, <2>5, <2>6, <2>7, <2>8, Zenon DEF Rest
<1>4. Checker' = Checker /\ Busy' = Busy /\ Settled' = Settled
  BY DEF Checker, Busy, Settled
<1>5. BusyInv'
  <2>1. ASSUME Forwarding PROVE Forwarding'
    <3>1. forward.ns \in Times
      BY DEF IterInv, Types
    <3> QED
      BY <1>1, <1>3, <1>4, <2>1, <3>1, Zenon DEF Forwarding
  <2> QED
    BY <1>4, <2>1 DEF IterInv, BusyInv
<1>6. SettledInv' /\ QueueInv' /\ NoCheckFails'
  BY <1>1, <1>4 DEF IterInv, SettledInv, QueueInv, NoCheckFails
<1>7. /\ content \in Seq(Sent) /\ delivered \in Seq(Sent) /\ Rest \in Seq(Sent)
      /\ Checker \in Checks /\ Straddling \in BOOLEAN /\ Straddling' \in BOOLEAN
  BY StateFacts DEF IterInv, Types, Straddling
<1>8. BeginningInv'
  <2>1. FromBeginning(delivered, Rest, Checker, content) =>
            FromBeginning(delivered, Append(Rest, m), Checker, Append(content, m))
    BY <1>7, BeginningGrows
  <2> QED
    BY <1>3, <1>4, <2>1, Zenon DEF IterInv, BeginningInv
<1>9. SeekInv'
  <2> SUFFICES ASSUME Settled, sought \in Times, ~undrained
               PROVE  FromTime(sought, delivered, Append(Rest, m), Checker, Append(content, m),
                               ~Straddling', closed)
    BY <1>3, <1>4, Zenon DEF SeekInv
  <2>1. FromTime(sought, delivered, Rest, Checker, content, ~Straddling, FALSE) /\ closed = FALSE
    BY ZenonT(30) DEF IterInv, SeekInv, Types
  <2>2. PICK quiet \in BOOLEAN, quiet1 \in BOOLEAN :
            quiet = ~Straddling /\ quiet1 = ~Straddling' /\ (quiet1 => quiet)
    BY <1>1, <1>7, ZenonT(30)
  <2>3. CheckFrom(Start, Append(content, m)).ok
    BY DEF TraceInv
  <2>4. FromTime(sought, delivered, Rest, Checker, content, quiet, FALSE)
    BY <2>1, <2>2, Zenon
  <2>5. FromTime(sought, delivered, Append(Rest, m), Checker, Append(content, m), quiet1, FALSE)
    BY <1>7, <2>2, <2>3, <2>4, TimeGrows, ZenonT(30)
  <2> QED
    BY <2>1, <2>2, <2>5, Zenon
<1> QED
  BY <1>2, <1>5, <1>6, <1>8, <1>9 DEF IterInv

\* A stream's message preserves the invariant.
LEMMA Produced ==
    ASSUME IterInv, NEW s \in Streams, ProduceMessage(s)
    PROVE  IterInv'
<1>1. Types /\ TraceInv /\ ~closed /\ UNCHANGED <<closed, iterVars, seekVars, sought, delivered, failed>>
  BY DEF IterInv, ProduceMessage, Needed
<1>2. PICK type, t :
          /\ type \in LegalTypes(phase[s]) /\ t \in Times_(type)
          /\ type = "PB" => packets[s] < MaxPackets
          /\ \E e \in IF type \in {"DE", "DP"} /\ t # NoTime THEN t .. MaxTime ELSE {NoTime} :
                content' = Append(content,
                    [Msg(type, s, IF type = "PB" THEN packets[s] + 1
                                  ELSE IF type \in {"EV", "PE"} /\ phase[s] = "packet"
                                       THEN packets[s] ELSE NoPacket, t) EXCEPT !.end = e])
          /\ phase' = [phase EXCEPT ![s] = PhaseAfter(@, type)]
          /\ packets' = [packets EXCEPT ![s] = @ + (IF type = "PB" THEN 1 ELSE 0)]
  BY ZenonT(30) DEF ProduceMessage
<1>3. PICK p : p = IF type = "PB" THEN packets[s] + 1
                   ELSE IF type \in {"EV", "PE"} /\ phase[s] = "packet" THEN packets[s] ELSE NoPacket
  OBVIOUS
<1>4. PICK e \in IF type \in {"DE", "DP"} /\ t # NoTime THEN t .. MaxTime ELSE {NoTime} :
          content' = Append(content, [Msg(type, s, p, t) EXCEPT !.end = e])
  BY <1>2, <1>3
<1>5. PICK m : m = [Msg(type, s, p, t) EXCEPT !.end = e]
  BY ZenonT(30)
<1>6. m.type = type /\ m.stream = s /\ m.packet = p /\ m.ts = t /\ m.end = e
      /\ m = [type |-> type, stream |-> s, packet |-> p, ts |-> t, end |-> e]
  BY <1>5 DEF Msg
<1>7. PICK x \in Checks : x = CheckFrom(Start, content) /\ x.ok /\ x.last = LastTime
  BY <1>1, LastTimeChecked, CheckType, StartIsSound DEF Types, TraceInv
<1>8. PICK ph \in Phases, n \in 0 .. MaxPackets :
          ph = phase[s] /\ n = packets[s] /\ InPhase(x.streams[s], ph, n)
  BY <1>1, <1>7 DEF Types, TraceInv
<1>9. type \in StreamTypes
  BY <1>2, <1>8 DEF LegalTypes, Phases, Supported, StreamTypes
<1>10. /\ t \in 0 .. NoTime /\ (t = NoTime \/ t >= x.last)
       /\ type = "EV" => t # NoTime
  <2>1. x.last \in Times /\ NoTime = MaxTime + 1 /\ MaxTime \in Nat
    BY SequenceAssumption DEF Checks, NoTime
  <2>2. t \in IF HasSnapshot(type) THEN x.last .. MaxTime ELSE {NoTime}
    BY <1>2, <1>7 DEF Times_
  <2>3. type = "EV" => HasSnapshot(type)
    BY DEF HasSnapshot
  <2> QED
    BY <2>1, <2>2, <2>3 DEF Times
<1>11. e \in 0 .. NoTime /\ p \in 0 .. MaxPackets /\ (type = "PB" => p # NoPacket)
  <2>1. NoTime = MaxTime + 1 /\ MaxTime \in Nat /\ MaxPackets \in Nat
    BY SequenceAssumption DEF NoTime
  <2>2. e \in 0 .. NoTime
    BY <1>4, <1>10, <2>1
  <2> QED
    BY <1>2, <1>3, <1>8, <2>1, <2>2 DEF NoPacket
<1>12. m \in Sent /\ m.stream # NoStream
  <2>1. s # NoStream
    BY SequenceAssumption DEF NoStream
  <2>2. m \in Message
    BY <1>6, <1>9, <1>10, <1>11 DEF Message, MessageTypes
  <2> QED
    BY <1>6, <1>9, <1>10, <1>11, <2>1, <2>2 DEF Sent, StreamTypes
<1>13. m.type \in {"EV", "PE"} => m.packet = x.streams[s].packet
  BY <1>3, <1>6, <1>8 DEF InPhase
<1>14. /\ IsExpected(x.streams[s], m)
       /\ InPhase(AfterMessage(x.streams[s], m), PhaseAfter(ph, m.type), IF m.type = "PB" THEN m.packet ELSE n)
  <2>1. x.streams[s] \in StreamState
    BY DEF Checks
  <2> QED
    BY <1>2, <1>6, <1>8, <1>12, <1>13, <2>1, PhaseStep
<1>15. content' = Append(content, m) /\ CheckFrom(Start, content') = CheckMessage(x, m)
  BY <1>1, <1>4, <1>5, <1>7, <1>12, CheckAppend, StartIsSound DEF Types
<1>16. /\ CheckMessage(x, m).ok
       /\ \A r \in Streams : CheckMessage(x, m).streams[r] =
              IF r = s THEN AfterMessage(x.streams[r], m) ELSE x.streams[r]
  BY <1>6, <1>7, <1>10, <1>12, <1>14, CheckStep
<1>17. phase' \in [Streams -> Phases] /\ phase'[s] = PhaseAfter(ph, type)
  <2>1. PhaseAfter(ph, type) \in Phases
    BY DEF PhaseAfter, Phases
  <2> QED
    BY <1>1, <1>2, <1>8, <2>1 DEF Types
<1>18. packets' \in [Streams -> 0 .. MaxPackets] /\ packets'[s] = IF type = "PB" THEN p ELSE n
  <2>1. n + (IF type = "PB" THEN 1 ELSE 0) = (IF type = "PB" THEN p ELSE n)
    BY <1>3, <1>8
  <2>2. (IF type = "PB" THEN p ELSE n) \in 0 .. MaxPackets
    BY <1>11
  <2> QED
    BY <1>1, <1>2, <1>8, <2>1, <2>2, SMTT(30) DEF Types
<1>19. TraceInv'
  <2>1. ASSUME NEW r \in Streams
        PROVE  InPhase(CheckMessage(x, m).streams[r], phase'[r], packets'[r])
    <3>1. CASE r = s
      BY <1>6, <1>14, <1>16, <1>17, <1>18, <3>1
    <3>2. CASE r # s
      <4>1. phase'[r] = phase[r] /\ packets'[r] = packets[r]
        BY <1>1, <1>2, <3>2 DEF Types
      <4> QED
        BY <1>1, <1>7, <1>16, <3>2, <4>1 DEF TraceInv
    <3> QED
      BY <3>1, <3>2
  <2>2. closed' = FALSE
    BY <1>1 DEF Types
  <2> QED
    BY <1>15, <1>16, <2>1, <2>2 DEF TraceInv
<1> QED
  BY <1>1, <1>12, <1>15, <1>17, <1>18, <1>19, TraceGrows

\* A message iterator inactivity message preserves the invariant.
LEMMA ProducedInactivity ==
    ASSUME IterInv, ProduceInactivity
    PROVE  IterInv'
<1>1. /\ Types /\ TraceInv /\ ~closed /\ UNCHANGED <<phase, packets>>
      /\ UNCHANGED <<closed, iterVars, seekVars, sought, delivered, failed>>
  BY DEF IterInv, ProduceInactivity, Needed
<1>2. PICK t \in LastTime .. MaxTime : content' = Append(content, Msg("IN", NoStream, NoPacket, t))
  BY DEF ProduceInactivity
<1>3. PICK m : m = Msg("IN", NoStream, NoPacket, t)
  OBVIOUS
<1>4. PICK x \in Checks : x = CheckFrom(Start, content) /\ x.ok /\ x.last = LastTime
  BY <1>1, LastTimeChecked, CheckType, StartIsSound DEF Types, TraceInv
<1>5. m \in Sent /\ m.stream = NoStream /\ m.ts >= x.last
  <2>1. x.last \in Times /\ MaxTime \in Nat /\ MaxPackets \in Nat
    BY SequenceAssumption DEF Checks
  <2>2. t \in Times /\ t # NoTime /\ t \in 0 .. NoTime /\ NoTime \in 0 .. NoTime /\ t >= x.last
    BY <1>4, <2>1 DEF Times, NoTime
  <2>3. 0 \in 0 .. MaxPackets
    BY <2>1
  <2> QED
    BY <1>3, <2>2, <2>3 DEF Msg, Sent, Message, MessageTypes, NoStream, NoPacket
<1>6. content' = Append(content, m) /\ CheckFrom(Start, content') = CheckMessage(x, m)
  BY <1>1, <1>2, <1>3, <1>4, <1>5, CheckAppend, StartIsSound DEF Types
<1>7. CheckMessage(x, m).ok /\ \A s \in Streams : CheckMessage(x, m).streams[s] = x.streams[s]
  <2>1. \A s \in Streams : s # NoStream
    BY SequenceAssumption DEF NoStream
  <2> QED
    BY <1>4, <1>5, <2>1, CheckStep
<1>8. TraceInv'
  BY <1>1, <1>4, <1>6, <1>7 DEF TraceInv
<1> QED
  BY <1>1, <1>5, <1>6, <1>8, TraceGrows DEF Types

\* The end of the content preserves the invariant.
LEMMA Closed ==
    ASSUME IterInv, Close
    PROVE  IterInv'
<1> USE DEF iterVars, seekVars
<1>1. /\ ~closed /\ closed' = TRUE /\ \A s \in Streams : phase[s] \in {"unborn", "ended"}
      /\ UNCHANGED <<content, phase, packets, iterVars, seekVars, sought, delivered, failed>>
  BY DEF Close
<1>2. Types' /\ TraceInv'
  BY <1>1 DEF IterInv, Types, TraceInv
<1>3. /\ Checker' = Checker /\ Busy' = Busy /\ Settled' = Settled /\ Rest' = Rest
      /\ Straddling' = Straddling /\ Passed' = Passed /\ Said' = Said
  BY <1>1 DEF Checker, Busy, Settled, Rest, Queue, Available, Straddling, Passed, Said
<1>4. BusyInv' /\ SettledInv' /\ QueueInv' /\ NoCheckFails'
  BY <1>1, <1>3 DEF IterInv, BusyInv, Forwarding, SettledInv, QueueInv, NoCheckFails
<1>5. BeginningInv'
  BY <1>1, <1>3 DEF IterInv, BeginningInv
<1>6. SeekInv'
  <2> SUFFICES ASSUME Settled, sought \in Times, ~undrained
               PROVE  FromTime(sought, delivered, Rest, Checker, content, ~Straddling, TRUE)
    BY <1>1, <1>3, Zenon DEF SeekInv
  <2>1. FromTime(sought, delivered, Rest, Checker, content, ~Straddling, closed)
    BY DEF IterInv, SeekInv
  <2> QED
    BY <2>1, TimeClosed, ZenonT(30)
<1> QED
  BY <1>2, <1>4, <1>5, <1>6 DEF IterInv

---------------------------------------------------------------------------
(* Seeking the beginning, and seeks which fail *)

\* The distinguished values differ, and a failed seek leaves no active iterator.
LEMMA Bounds ==
    /\ 0 \in Times /\ Beginning \notin Times /\ Nowhere \notin Times /\ Beginning # Nowhere
    /\ NoForward \in [on : BOOLEAN, ns : Times, states : SeekStates] /\ ~NoForward.on
    /\ NoExpectation \in [Streams -> StreamState]
    /\ \A status \in SeekFailures :
           StateAfter(status) \in IteratorStates \ {"ACTIVE", "ENDED"}
    /\ StateAfter("OK") = "ACTIVE"
<1>1. 0 \in Times /\ Beginning \notin Times /\ Nowhere \notin Times /\ Beginning # Nowhere
  BY SequenceAssumption DEF Times, Beginning, Nowhere
<1>2. NoForward \in [on : BOOLEAN, ns : Times, states : SeekStates] /\ ~NoForward.on
  BY <1>1, SequenceAssumption DEF NoForward, SeekStates, SeekState, NoSeekState, NoPacket
<1>3. NoExpectation \in [Streams -> StreamState]
  BY StartIsSound DEF Start, Checks
<1>4. /\ \A status \in SeekFailures :
             StateAfter(status) \in IteratorStates \ {"ACTIVE", "ENDED"}
      /\ StateAfter("OK") = "ACTIVE"
  BY DEF SeekFailures, StateAfter, IteratorStates
<1> QED
  BY <1>1, <1>2, <1>3, <1>4

\* What the iterator does leaves the content alone.
LEMMA TraceStays ==
    ASSUME IterInv, UNCHANGED upVars
    PROVE  TraceInv' /\ Straddling' = Straddling /\ Said' = Said
  BY DEF IterInv, TraceInv, upVars, Straddling, Said

\* All of the content is available at the beginning, to a new checker.
LEMMA AtBeginning ==
    ASSUME NEW t \in Seq(Sent)
    PROVE  /\ SubSeq(t, 1, 0) = <<>>
           /\ <<>> \o (<<>> \o SubSeq(t, 1, Len(t))) = t
           /\ FromBeginning(<<>>, t, Start, t)
<1>1. SubSeq(t, 1, 0) = <<>>
  BY SubSeqEmpty
<1>2. SubSeq(t, 1, Len(t)) = t /\ <<>> \o t = t
  BY SubSeqFull, ConcatEmptySeq
<1> QED
  BY <1>1, <1>2, Zenon DEF FromBeginning

\* bt_message_iterator_seek_beginning() preserves the invariant.
LEMMA BeginningSought ==
    ASSUME IterInv, SeekBeginning
    PROVE  IterInv'
<1>1. /\ failed = "none" /\ ~Busy /\ seeks < MaxSeeks /\ undrained' = swapped
      /\ prefix' = <<>> /\ pos' = 1 /\ lastNs' = 0 /\ perStream' = NoExpectation
      /\ state' = "ACTIVE" /\ seeks' = seeks + 1 /\ sought' = Beginning /\ delivered' = <<>>
      /\ UNCHANGED <<upVars, autoMsgs, swapped, forward, failed>>
  BY Bounds DEF SeekBeginning, MaySeek, MayCall, CallSeekBeginning, Sought
<1>2. Types'
  <2>1. <<>> \in Seq(Sent) /\ Len(content) \in Nat
    BY EmptySeq, LenProperties DEF IterInv, Types
  <2>2. seeks' \in 0 .. MaxSeeks
    BY <1>1, IteratorAssumption DEF IterInv, Types
  <2> QED
    BY <1>1, <2>1, <2>2, Bounds, SMTT(30) DEF IterInv, Types, upVars, IteratorStates
<1>3. TraceInv'
  BY <1>1, TraceStays
<1>4. ~Busy'
  BY <1>1 DEF Busy
<1>5. BusyInv' /\ SettledInv' /\ QueueInv' /\ NoCheckFails' /\ SeekInv'
  BY <1>1, <1>4, Bounds DEF BusyInv, SettledInv, QueueInv, NoCheckFails, SeekInv
<1>6. BeginningInv'
  <2>1. PICK t \in Seq(Sent) : t = content
    BY DEF IterInv, Types
  <2>2. ASSUME ~swapped PROVE Rest' = t
    <3>1. content' = t /\ swapped' = FALSE
      BY <1>1, <2>1, <2>2 DEF upVars, IterInv, Types
    <3>2. Rest' = <<>> \o (<<>> \o SubSeq(t, 1, Len(t)))
      BY <1>1, <3>1 DEF Rest, Queue, Available
    <3> QED
      BY <3>2, AtBeginning
  <2>3. Checker' = Start /\ content' = t
    BY <1>1, <2>1 DEF Checker, Start, upVars
  <2>4. FromBeginning(<<>>, t, Start, t)
    BY AtBeginning
  <2> QED
    BY <1>1, <1>4, <2>2, <2>3, <2>4, Zenon DEF BeginningInv
<1> QED
  BY <1>2, <1>3, <1>5, <1>6 DEF IterInv

\* A seek whose method fails preserves the invariant.
LEMMA SeekFailed ==
    ASSUME IterInv, NEW status \in SeekFailures,
           \/ SeekBeginningFails(status) \/ CanSeekNsFails(status)
           \/ \E ns \in Times : SeekNsFails(ns, status)
    PROVE  IterInv'
<1>1. /\ failed = "none" /\ ~Busy /\ seeks < MaxSeeks /\ undrained' = swapped
      /\ lastNs' \in Times /\ perStream' \in {perStream, NoExpectation}
      /\ state' \in IteratorStates \ {"ACTIVE", "ENDED"}
      /\ seeks' = seeks + 1 /\ sought' = Nowhere /\ delivered' = <<>>
      /\ UNCHANGED <<upVars, prefix, pos, autoMsgs, swapped, forward, failed>>
  BY Bounds DEF SeekBeginningFails, CanSeekNsFails, SeekNsFails, MaySeek, MayCall, Sought
<1>2. Types'
  <2>1. <<>> \in Seq(Sent)
    BY EmptySeq
  <2>2. seeks' \in 0 .. MaxSeeks
    BY <1>1, IteratorAssumption DEF IterInv, Types
  <2> QED
    BY <1>1, <2>1, <2>2, Bounds, SMTT(30) DEF IterInv, Types, upVars
<1>3. TraceInv'
  BY <1>1, TraceStays
<1>4. ~Busy' /\ ~Settled'
  BY <1>1 DEF Busy, Settled
<1> QED
  BY <1>1, <1>2, <1>3, <1>4, Bounds
     DEF IterInv, BusyInv, SettledInv, QueueInv, NoCheckFails, SeekInv, BeginningInv

---------------------------------------------------------------------------
(* The automatic seek *)

\* Starting to seek by fast-forward preserves the invariant.
LEMMA AutoSeekBegins ==
    ASSUME IterInv, NEW ns \in Times, AutoSeek(ns)
    PROVE  IterInv'
<1>1. /\ failed = "none" /\ ~Busy /\ seeks < MaxSeeks /\ undrained' = swapped
      /\ prefix' = <<>> /\ pos' = 1 /\ lastNs' = 0 /\ perStream' = NoExpectation
      /\ autoMsgs' = <<>>
      /\ forward' = [NoForward EXCEPT !.on = TRUE, !.ns = ns]
      /\ state' = "ACTIVE" /\ seeks' = seeks + 1 /\ sought' = Nowhere /\ delivered' = <<>>
      /\ UNCHANGED <<upVars, swapped, failed>>
  BY DEF AutoSeek, MaySeek, MayCall, CallSeekBeginning, Sought
<1>2. /\ forward' \in [on : BOOLEAN, ns : Times, states : SeekStates]
      /\ forward'.on /\ forward'.ns = ns /\ forward'.states = [s \in Streams |-> NoSeekState]
  <2>1. forward' = [on |-> TRUE, ns |-> ns, states |-> [s \in Streams |-> NoSeekState]]
    BY <1>1, ZenonT(30) DEF NoForward
  <2>2. [s \in Streams |-> NoSeekState] \in SeekStates
    BY SequenceAssumption DEF SeekStates, SeekState, NoSeekState, NoPacket
  <2> QED
    BY <2>1, <2>2
<1>3. Types'
  <2>1. <<>> \in Seq(Sent) /\ Len(content) \in Nat
    BY EmptySeq, LenProperties DEF IterInv, Types
  <2>2. seeks' \in 0 .. MaxSeeks
    BY <1>1, IteratorAssumption DEF IterInv, Types
  <2> QED
    BY <1>1, <1>2, <2>1, <2>2, Bounds, SMTT(30) DEF IterInv, Types, upVars, IteratorStates
<1>4. TraceInv'
  BY <1>1, TraceStays
<1>5. Busy' /\ ~Settled'
  BY <1>2 DEF Busy, Settled
<1>6. Forwarding'
  <2>1. PICK t \in Seq(Sent) : t = content
    BY DEF IterInv, Types
  <2>2. Passed' = <<>>
    <3>1. Passed' = SubSeq(t, 1, 0)
      BY <1>1, <2>1 DEF Passed, upVars
    <3> QED
      BY <3>1, AtBeginning
  <2>3. Checker' = Start
    BY <1>1 DEF Checker, Start
  <2>4. CheckFrom(Start, <<>>) = Start
    BY CheckNone, StartIsSound
  <2>5. <<>> \in Seq(Early(ns)) /\ <<>> \in Seq(Kept(Said', ns))
    BY EmptySeq
  <2>6. AllTracked([s \in Streams |-> NoSeekState], Start)
    <3>1. ASSUME NEW s \in Streams PROVE Start.streams[s] = NewStreamState
      BY StartIsSound
    <3>2. Tracks(NoSeekState, NewStreamState)
      <4>1. ~NoSeekState.open /\ NoSeekState.packet = NoPacket
        BY DEF NoSeekState
      <4>2. NewStreamState.expected = {"SB"} /\ NewStreamState.packet = NoPacket
        BY DEF NewStreamState
      <4> QED
        BY <4>1, <4>2 DEF Tracks, IsOpen
    <3> QED
      BY <3>1, <3>2, ZenonT(30) DEF AllTracked
  <2> QED
    BY <1>1, <1>2, <2>2, <2>3, <2>4, <2>5, <2>6, Zenon DEF Forwarding
<1> QED
  BY <1>1, <1>3, <1>4, <1>5, <1>6, Bounds
     DEF IterInv, BusyInv, SettledInv, QueueInv, NoCheckFails, SeekInv, BeginningInv

\* A next method which fails during the fast-forward preserves the invariant.
LEMMA ForwardFailed ==
    ASSUME IterInv, NEW status \in SeekFailures, FastForwardFails(status)
    PROVE  IterInv'
<1>1. /\ failed = "none" /\ Busy /\ ~swapped
      /\ forward' = NoForward /\ state' \in IteratorStates \ {"ACTIVE", "ENDED"}
      /\ UNCHANGED <<upVars, prefix, pos, lastNs, perStream, autoMsgs, swapped,
                     seekVars, sought, delivered, failed>>
  BY Bounds DEF FastForwardFails
<1>2. Types'
  BY <1>1, Bounds DEF IterInv, Types, upVars, seekVars
<1>3. TraceInv'
  BY <1>1, TraceStays
<1>4. ~Busy' /\ ~Settled' /\ sought' = Nowhere
  BY <1>1, Bounds DEF Busy, Settled, IterInv, BusyInv
<1> QED
  BY <1>1, <1>2, <1>3, <1>4, Bounds
     DEF IterInv, BusyInv, SettledInv, QueueInv, NoCheckFails, SeekInv, BeginningInv

\* Fast-forwarding over the queue of an earlier seek preserves the invariant.
LEMMA ForwardFromQueue ==
    ASSUME IterInv, FastForwardFromQueue
    PROVE  IterInv'
<1> USE DEF iterVars, seekVars
<1>1. /\ failed = "none" /\ Busy /\ swapped /\ failed' \in {failed, "assert"}
      /\ UNCHANGED <<upVars, iterVars, seekVars, sought, delivered>>
  BY DEF FastForwardFromQueue, Require
<1>2. Types'
  BY <1>1 DEF IterInv, Types, upVars
<1>3. TraceInv'
  BY <1>1, TraceStays
<1>4. Busy' /\ ~Settled' /\ undrained /\ sought = Nowhere
  BY <1>1 DEF Busy, Settled, IterInv, BusyInv
<1> QED
  BY <1>1, <1>2, <1>3, <1>4, Bounds
     DEF IterInv, BusyInv, SettledInv, QueueInv, NoCheckFails, SeekInv, BeginningInv

---------------------------------------------------------------------------
(* bt_message_iterator_next() *)

\* The messages b, which come next, reach downstream.
LEMMA Delivers ==
    ASSUME IterInv, MayCall, state = "ACTIVE", NEW b \in Seq(Sent),
           Rest = b \o Rest', Rest' \in Seq(Sent), Deliver(b),
           UNCHANGED <<upVars, state, forward, seekVars, sought>>
    PROVE  /\ lastNs' \in Times /\ perStream' \in [Streams -> StreamState]
           /\ delivered' \in Seq(Sent)
           /\ ~undrained /\ ~Straddling => CheckBatch(b).ok
           /\ sought = Beginning /\ ~undrained =>
                  /\ CheckBatch(b).ok
                  /\ FromBeginning(delivered', Rest', Checker', content)
           /\ SeekInv'
<1>1. PICK c \in Checks, r \in Seq(Sent), d \in Seq(Sent), t \in Seq(Sent) :
          c = Checker /\ r = Rest' /\ d = delivered /\ t = content
  BY StateFacts DEF IterInv, Types
<1>2. PICK y \in Checks : y = CheckFrom(c, b)
  BY CheckType
<1>3. CheckBatch(b) = y
  BY <1>1, <1>2 DEF CheckBatch, Checker
<1>4. lastNs' = y.last /\ perStream' = y.streams /\ delivered' = d \o b
  BY <1>1, <1>3 DEF Deliver
<1>5. lastNs' \in Times /\ perStream' \in [Streams -> StreamState] /\ delivered' \in Seq(Sent)
  BY <1>4, ConcatProperties DEF Checks
<1>6. ASSUME y.ok PROVE Checker' = y
  BY <1>4, <1>6 DEF Checker, Checks
<1>7. CheckFrom(Start, t).ok
  BY <1>1 DEF IterInv, TraceInv
<1>8. ASSUME sought = Beginning, ~undrained
      PROVE  y.ok /\ FromBeginning(d \o b, r, Checker', t)
  <2>1. FromBeginning(d, b \o r, c, t)
    BY <1>1, <1>8, Zenon DEF IterInv, BeginningInv
  <2>2. y.ok /\ FromBeginning(d \o b, r, y, t)
    BY <1>2, <1>7, <2>1, BeginningDelivers
  <2> QED
    BY <1>6, <2>2, Zenon
<1>9. PICK quiet \in BOOLEAN, over \in BOOLEAN : quiet = ~Straddling /\ over = closed
  BY StateFacts, ZenonT(30) DEF IterInv, Types
<1>10. ASSUME sought \in Times, ~undrained
       PROVE  /\ quiet => y.ok
              /\ FromTime(sought, d \o b, r, Checker', t, quiet, over)
  <2>1. FromTime(sought, d, b \o r, c, t, quiet, over)
    <3>1. Settled
      BY DEF Settled, MayCall
    <3> QED
      BY <1>1, <1>9, <1>10, <3>1, Zenon DEF IterInv, SeekInv
  <2>2. quiet /\ CheckFrom(c, b).ok => Checker' = CheckFrom(c, b)
    BY <1>2, <1>6, Zenon
  <2>3. (quiet => CheckFrom(c, b).ok) /\ FromTime(sought, d \o b, r, Checker', t, quiet, over)
    BY <1>10, <2>1, <2>2, TimeDelivers, SMTT(30)
  <2> QED
    BY <1>2, <2>3, Zenon
<1>11. SeekInv'
  <2>1. Straddling' = Straddling /\ closed' = closed /\ content' = content
    BY TraceStays DEF upVars
  <2> QED
    BY <1>1, <1>4, <1>9, <1>10, <2>1, Zenon DEF SeekInv, seekVars
<1>12. sought \in Times \cup {Beginning}
  <2>1. Settled
    BY DEF Settled, MayCall
  <2> QED
    BY <2>1 DEF IterInv, SettledInv, Types
<1> QED
  BY <1>1, <1>3, <1>4, <1>5, <1>8, <1>9, <1>10, <1>11, <1>12, Zenon

\* A batch of the component's next method preserves the invariant.
LEMMA NextByUser ==
    ASSUME IterInv, NEW n \in 1 .. BatchSize, NextFromUser(n)
    PROVE  IterInv'
<1>1. PICK b : b = SubSeq(Available, 1, n)
  BY ZenonT(30)
<1>2. /\ MayCall /\ failed = "none" /\ ~Busy /\ state = "ACTIVE" /\ ~swapped /\ n <= Len(Available)
      /\ Deliver(b) /\ failed' = (IF CheckBatch(b).ok THEN failed ELSE "post")
      /\ prefix' = SubSeq(prefix, n + 1, Len(prefix))
      /\ pos' = (IF n > Len(prefix) THEN pos + n - Len(prefix) ELSE pos)
      /\ UNCHANGED <<upVars, state, autoMsgs, swapped, forward, seekVars, sought>>
  BY <1>1 DEF NextFromUser, MayCall, Require, Take
<1>3. PICK p \in Seq(Sent), t \in Seq(Sent), k \in Nat, j \in Nat :
          /\ p = prefix /\ t = content /\ k = pos /\ 1 <= k /\ k <= Len(t) + 1
          /\ j = n
  BY IteratorAssumption DEF IterInv, Types
<1>4. PICK k1 : k1 = pos'
  OBVIOUS
<1>5. Available = p \o SubSeq(t, k, Len(t))
  BY <1>3 DEF Available
<1>6. /\ SubSeq(p \o SubSeq(t, k, Len(t)), 1, j) \in Seq(Sent)
      /\ SubSeq(p, j + 1, Len(p)) \in Seq(Sent)
      /\ k1 \in Nat /\ 1 <= k1 /\ k1 <= Len(t) + 1
      /\ p \o SubSeq(t, k, Len(t)) = SubSeq(p \o SubSeq(t, k, Len(t)), 1, j)
                                     \o (SubSeq(p, j + 1, Len(p)) \o SubSeq(t, k1, Len(t)))
      /\ p = <<>> => SubSeq(p, j + 1, Len(p)) = <<>>
  <2>1. j <= Len(p \o SubSeq(t, k, Len(t)))
    BY <1>2, <1>3, <1>5, Zenon
  <2>2. k1 = IF j > Len(p) THEN k + j - Len(p) ELSE k
    BY <1>2, <1>3, <1>4, Zenon
  <2>3. TakenFrom(Sent, p, t, k, j, k1)
    BY <1>3, <2>1, <2>2, Taken, Zenon
  <2> QED
    BY <2>3, Zenon DEF TakenFrom
<1>7. b \in Seq(Sent) /\ prefix' \in Seq(Sent) /\ pos' \in Nat /\ 1 <= pos' /\ pos' <= Len(content') + 1
  BY <1>1, <1>2, <1>3, <1>4, <1>5, <1>6, Zenon DEF upVars
<1>8. Available' = SubSeq(p, j + 1, Len(p)) \o SubSeq(t, k1, Len(t)) /\ Available = b \o Available'
  BY <1>1, <1>2, <1>3, <1>4, <1>5, <1>6, Zenon DEF Available, upVars
<1>9. Rest = Available /\ Rest' = Available' /\ Rest' \in Seq(Sent)
  <2>1. Available \in Seq(Sent)
    BY StateFacts DEF IterInv
  <2>2. SubSeq(t, k1, Len(t)) \in Seq(Sent)
    BY <1>6, Halves
  <2>3. Available' \in Seq(Sent)
    BY <1>6, <1>8, <2>2, ConcatProperties
  <2>4. Queue = <<>> /\ Queue' = <<>>
    BY <1>2 DEF Queue
  <2>5. <<>> \o Available = Available /\ <<>> \o Available' = Available'
    BY <2>1, <2>3, ConcatEmptySeq
  <2> QED
    BY <2>3, <2>4, <2>5, Zenon DEF Rest
<1>10. Rest = b \o Rest'
  BY <1>8, <1>9, Zenon
<1>11. /\ lastNs' \in Times /\ perStream' \in [Streams -> StreamState] /\ delivered' \in Seq(Sent)
       /\ ~undrained /\ ~Straddling => CheckBatch(b).ok
       /\ sought = Beginning /\ ~undrained => FromBeginning(delivered', Rest', Checker', content)
       /\ SeekInv'
  BY <1>2, <1>7, <1>9, <1>10, Delivers, Zenon
<1>12. Types'
  BY <1>2, <1>7, <1>11, Zenon DEF IterInv, Types, upVars, seekVars
<1>13. TraceInv' /\ Straddling' = Straddling
  BY <1>2, TraceStays
<1>14. BusyInv' /\ SettledInv' /\ QueueInv' /\ NoCheckFails'
  <2>1. ~Busy' /\ Settled' = Settled
    BY <1>2 DEF Busy, Settled
  <2> QED
    BY <1>2, <1>11, <1>13, <2>1 DEF IterInv, BusyInv, SettledInv, QueueInv, NoCheckFails, seekVars
<1>15. BeginningInv'
  <2>1. prefix = <<>> => prefix' = <<>>
    BY <1>2, <1>3, <1>6, Zenon
  <2>2. ~Busy' /\ content' = content
    BY <1>2 DEF Busy, upVars
  <2> QED
    BY <1>2, <1>11, <2>1, <2>2, Zenon DEF IterInv, BeginningInv, seekVars
<1> QED
  BY <1>11, <1>12, <1>13, <1>14, <1>15 DEF IterInv

\* A batch of the queue a seek left preserves the invariant.
LEMMA NextByQueue ==
    ASSUME IterInv, NextFromQueue
    PROVE  IterInv'
<1>1. PICK n : n = IF Len(autoMsgs) < BatchSize THEN Len(autoMsgs) ELSE BatchSize
  OBVIOUS
<1>2. PICK b, left : b = SubSeq(autoMsgs, 1, n) /\ left = SubSeq(autoMsgs, n + 1, Len(autoMsgs))
  BY ZenonT(30)
<1>3. /\ MayCall /\ failed = "none" /\ ~Busy /\ state = "ACTIVE" /\ swapped
      /\ failed' = (IF n > 0 /\ CheckBatch(b).ok THEN failed ELSE IF n = 0 THEN "assert" ELSE "post")
      /\ Deliver(b) /\ autoMsgs' = left /\ swapped' = (left # <<>>)
      /\ UNCHANGED <<upVars, prefix, pos, state, forward, seekVars, sought>>
  BY <1>1, <1>2, Zenon DEF NextFromQueue, MayCall, Require, StillSwapped
<1>4. PICK q \in Seq(Sent), k \in Nat :
          q = autoMsgs /\ k = n + 1 /\ n = k - 1 /\ 1 <= k /\ k <= Len(q) + 1 /\ n \in Nat /\ (n = 0 => q = <<>>)
  <2>1. PICK q \in Seq(Sent) : q = autoMsgs
    BY DEF IterInv, Types
  <2>2. Len(q) \in Nat /\ (Len(q) = 0 => q = <<>>) /\ BatchSize \in Nat /\ BatchSize # 0
    BY LenProperties, EmptySeq, IteratorAssumption
  <2>3. n \in Nat /\ n <= Len(q) /\ (n = 0 => q = <<>>)
    BY <1>1, <2>1, <2>2
  <2>4. n + 1 \in Nat /\ n = (n + 1) - 1 /\ 1 <= n + 1 /\ n + 1 <= Len(q) + 1
    BY <2>2, <2>3
  <2> QED
    BY <2>1, <2>3, <2>4, Zenon
<1>5. b \in Seq(Sent) /\ left \in Seq(Sent) /\ q = b \o left
  <2>1. /\ SubSeq(q, 1, k - 1) \in Seq(Sent) /\ SubSeq(q, k, Len(q)) \in Seq(Sent)
        /\ q = SubSeq(q, 1, k - 1) \o SubSeq(q, k, Len(q))
    BY <1>4, Halves, ZenonT(30)
  <2> QED
    BY <1>2, <1>4, <2>1, Zenon
<1>6. PICK a \in Seq(Sent) : a = Available
  BY StateFacts DEF IterInv
<1>7. Rest' = left \o a /\ Rest' \in Seq(Sent) /\ Rest = b \o Rest'
  <2>1. Queue = q /\ Queue' = left /\ Available' = a
    BY <1>3, <1>4, <1>6, Zenon DEF Queue, Available, upVars
  <2>2. Regrouped(b, left, a)
    BY <1>5, Regroup
  <2>3. left \o a \in Seq(Sent)
    BY <1>5, ConcatProperties
  <2> QED
    BY <1>5, <1>6, <2>1, <2>2, <2>3, Zenon DEF Rest, Regrouped
<1>8. /\ lastNs' \in Times /\ perStream' \in [Streams -> StreamState] /\ delivered' \in Seq(Sent)
      /\ ~undrained /\ ~Straddling => CheckBatch(b).ok
      /\ SeekInv'
  BY <1>3, <1>5, <1>7, Delivers, Zenon
<1>9. Types'
  <2>1. failed' \in {"none", "post", "assert"} /\ swapped' \in BOOLEAN
    BY <1>3
  <2> QED
    BY <1>3, <1>5, <1>8, <2>1, Zenon DEF IterInv, Types, upVars, seekVars
<1>10. TraceInv' /\ Straddling' = Straddling
  BY <1>3, TraceStays
<1>11. BusyInv' /\ SettledInv' /\ QueueInv' /\ NoCheckFails'
  <2>1. ~Busy' /\ Settled' = Settled /\ undrained' = undrained
    BY <1>3 DEF Busy, Settled, seekVars
  <2>2. n = 0 => undrained
    BY <1>3, <1>4 DEF IterInv, QueueInv
  <2>3. n = 0 \/ n > 0
    BY <1>4
  <2>4. NoCheckFails'
    BY <1>3, <1>8, <1>10, <2>1, <2>2, <2>3 DEF NoCheckFails
  <2> QED
    BY <1>3, <2>1, <2>4, ZenonT(30) DEF IterInv, BusyInv, SettledInv, QueueInv
<1>12. BeginningInv'
  <2>1. ~Busy' /\ undrained' = undrained
    BY <1>3 DEF Busy, seekVars
  <2> QED
    BY <1>3, <2>1, Zenon DEF IterInv, BeginningInv
<1> QED
  BY <1>8, <1>9, <1>10, <1>11, <1>12 DEF IterInv

\* When the trace is over and has no more messages, no stream is left open.
LEMMA NoneOpen ==
    ASSUME Types, TraceInv, closed, Resumes(Checker, CheckFrom(Start, content))
    PROVE  StreamsAreEnded
<1> SUFFICES ASSUME NEW s \in Streams
             PROVE  perStream[s] = NewStreamState \/ perStream[s].expected = {}
  BY ZenonT(30) DEF StreamsAreEnded
<1>1. PICK x \in StreamState : x = CheckFrom(Start, content).streams[s]
  <2>1. CheckFrom(Start, content) \in Checks
    BY CheckType, StartIsSound DEF Types
  <2> QED
    BY <2>1 DEF Checks
<1>2. perStream[s] = x \/ perStream[s] = NewStreamState
  BY <1>1 DEF Resumes, Checker
<1>3. InPhase(x, phase[s], packets[s]) /\ phase[s] \in {"unborn", "ended"}
  BY <1>1 DEF TraceInv
<1>4. CASE phase[s] = "unborn"
  <2>1. x.expected = {"SB"} /\ x.packet = NoPacket
    BY <1>3, <1>4 DEF InPhase, LegalTypes
  <2>2. x = NewStreamState
    BY <2>1 DEF StreamState, NewStreamState
  <2> QED
    BY <1>2, <2>2
<1>5. CASE phase[s] = "ended"
  BY <1>2, <1>3, <1>5 DEF InPhase, LegalTypes
<1> QED
  BY <1>3, <1>4, <1>5

\* The end of the iterator preserves the invariant.
LEMMA NextByEnd ==
    ASSUME IterInv, NextEnds
    PROVE  IterInv'
<1>1. /\ failed = "none" /\ ~Busy /\ state = "ACTIVE" /\ ~swapped /\ closed /\ Available = <<>>
      /\ failed' = (IF StreamsAreEnded THEN failed ELSE "post") /\ state' = "ENDED"
      /\ UNCHANGED <<upVars, prefix, pos, lastNs, perStream, autoMsgs, swapped, forward,
                     seekVars, sought, delivered>>
  BY DEF NextEnds, MayCall, Require
<1>2. Types'
  BY <1>1 DEF IterInv, Types, upVars, seekVars, IteratorStates
<1>3. TraceInv' /\ Straddling' = Straddling
  BY <1>1, TraceStays
<1>4. /\ ~Busy' /\ Settled /\ Settled' /\ Rest' = Rest /\ Checker' = Checker
      /\ undrained' = undrained /\ content' = content /\ closed' = closed
  BY <1>1 DEF Busy, Settled, Rest, Queue, Available, Checker, upVars, seekVars
<1>5. ASSUME ~undrained, ~Straddling PROVE StreamsAreEnded
  <2>1. Rest = <<>>
    <3>1. <<>> \o <<>> = <<>>
      BY EmptySeq, ConcatEmptySeq
    <3> QED
      BY <1>1, <3>1, Zenon DEF Rest, Queue
  <2>2. CheckFrom(Checker, Rest) = Checker
    BY <2>1, StateFacts, CheckNone DEF IterInv
  <2>3. sought \in Times \cup {Beginning}
    BY <1>4 DEF IterInv, SettledInv, Types
  <2>4. Resumes(Checker, CheckFrom(Start, content))
    <3>1. CASE sought = Beginning
      <4>1. CheckFrom(Checker, Rest) = CheckFrom(Start, content)
        BY <1>5, <3>1 DEF IterInv, BeginningInv, FromBeginning
      <4> QED
        BY <2>2, <4>1 DEF Resumes
    <3>2. CASE sought \in Times
      <4>1. FromTime(sought, delivered, Rest, Checker, content, ~Straddling, closed)
        BY <1>4, <1>5, <3>2 DEF IterInv, SeekInv
      <4>2. Passes(CheckFrom(Checker, Rest), content, closed)
        BY <1>5, <4>1 DEF FromTime
      <4> QED
        BY <2>2, <4>2 DEF Passes
    <3> QED
      BY <2>3, <3>1, <3>2
  <2> QED
    BY <1>1, <2>4, NoneOpen DEF IterInv
<1>6. BusyInv' /\ SettledInv' /\ QueueInv' /\ NoCheckFails'
  BY <1>1, <1>3, <1>4, <1>5 DEF IterInv, BusyInv, SettledInv, QueueInv, NoCheckFails
<1>7. BeginningInv'
  BY <1>1, <1>4, Zenon DEF IterInv, BeginningInv
<1>8. SeekInv'
  BY <1>1, <1>3, <1>4, Zenon DEF IterInv, SeekInv
<1> QED
  BY <1>2, <1>3, <1>6, <1>7, <1>8 DEF IterInv
===========================================================================
