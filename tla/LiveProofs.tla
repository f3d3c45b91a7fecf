---------------------------- MODULE LiveProofs ----------------------------
(***************************************************************************)
(* Proofs about the src.ctf.live component class (LiveSource.tla) for any  *)
(* number of message iterators, any amount of data and any requests.       *)
(***************************************************************************)
EXTENDS LiveSource, SequenceTheorems, TLAPS

Contains(s, e) == e \in Range(s)

Distinct(s) == \A j, k \in 1 .. Len(s) : s[j] = s[k] => j = k

Awaited(i) == IF Contains(loop, i) THEN 1 ELSE 0

Types ==
    /\ TypeOK
    /\ call \in [it : Iterators \cup {0}, step : {"none", "decode", "drop", "copy"},
                 off : Nat, cnt : Nat, got : Nat]
    /\ asked \in [Iterators -> [off : Nat, end : Nat]]

\* The loop of _pushData() goes through FIFOs of the component, each once,
\* and is only left in the middle when the process ends.
LoopOK ==
    /\ Distinct(fifos) /\ Distinct(loop)
    /\ \A i \in Iterators : Contains(loop, i) => Contains(fifos, i)
    /\ loop # <<>> => thread \in {"push", "terminated"}

\* What a FIFO has, and what an iterator which has none looks like.
QueueOK(i) ==
    /\ Contains(fifos, i) =>
        /\ base[i] + offset[i] + Len(queue[i]) + Awaited(i) = received
        /\ \A k \in 1 .. Len(queue[i]) : queue[i][k] = base[i] + offset[i] + k
    /\ ~Contains(fifos, i) =>
        offset[i] = 0 /\ queue[i] = <<>> /\ buf[i] = <<>>

\* The FIFO still has what the last answer gave, from the offset of the last
\* request on; its own offset is behind only until it has dropped the rest.
AskedOK(i) ==
    /\ offset[i] <= asked[i].off
    /\ asked[i].off <= asked[i].end
    /\ asked[i].end <= offset[i] + Len(queue[i])
    /\ offset[i] # asked[i].off => call.step = "drop" /\ call.it = i

BufOK(i) ==
    /\ Len(buf[i]) <= asked[i].end
    /\ \A k \in 1 .. Len(buf[i]) : buf[i][k] = base[i] + (asked[i].end - Len(buf[i])) + k

CallOK ==
    /\ call.step # "none" => call.it \in Iterators /\ Contains(fifos, call.it)
    /\ call.step \in {"drop", "copy"} => call.off = asked[call.it].off

\* The inductive invariant.
LiveInv ==
    /\ Types
    /\ LoopOK
    /\ \A i \in Iterators : QueueOK(i)
    /\ \A i \in Iterators : AskedOK(i)
    /\ \A i \in Iterators : BufOK(i)
    /\ CallOK
    /\ ~popped

---------------------------------------------------------------------------
\* emplace_back() of a FIFO which isn't in the array yet.
LEMMA AppendDistinct ==
    ASSUME NEW S, NEW s \in Seq(S), NEW e \in S, Distinct(s), ~Contains(s, e)
    PROVE  /\ Append(s, e) \in Seq(S)
           /\ Distinct(Append(s, e))
           /\ \A x : Contains(Append(s, e), x) <=> (Contains(s, x) \/ x = e)
<1>1. PICK t : t = Append(s, e)
  BY ZenonT(30)
<1>2. PICK n \in Nat : n = Len(s)
  BY LenProperties
<1>3. /\ t \in Seq(S) /\ Len(t) = n + 1
      /\ \A i \in 1 .. n : t[i] = s[i]
      /\ t[n + 1] = e
  BY <1>1, <1>2, AppendProperties
<1>4. \A i \in 1 .. n : s[i] # e
  BY <1>2 DEF Contains, Range
<1>5. Distinct(t)
  <2> SUFFICES ASSUME NEW j \in 1 .. n + 1, NEW k \in 1 .. n + 1, t[j] = t[k]
               PROVE  j = k
    BY <1>3 DEF Distinct
  <2>1. CASE j \in 1 .. n /\ k \in 1 .. n
    BY <2>1, <1>2, <1>3 DEF Distinct
  <2>2. CASE j = n + 1 \/ k = n + 1
    BY <2>2, <1>3, <1>4
  <2> QED
    BY <2>1, <2>2
<1>6. \A x : Contains(t, x) <=> (Contains(s, x) \/ x = e)
  BY <1>2, <1>3 DEF Contains, Range
<1> QED
  BY <1>1, <1>3, <1>5, <1>6

\* The loop goes on to its next FIFO.
LEMMA TailDistinct ==
    ASSUME NEW S, NEW s \in Seq(S), s # <<>>, Distinct(s)
    PROVE  /\ Head(s) \in S /\ Tail(s) \in Seq(S)
           /\ Distinct(Tail(s))
           /\ Contains(s, Head(s))
           /\ \A x : Contains(Tail(s), x) <=> (Contains(s, x) /\ x # Head(s))
<1>1. PICK t : t = Tail(s)
  BY ZenonT(30)
<1>2. PICK n \in Nat : n + 1 = Len(s)
  <2>1. Len(s) \in Nat /\ Len(s) # 0
    BY LenProperties, EmptySeq
  <2> QED
    BY <2>1
<1>3. /\ t \in Seq(S) /\ Len(t) = n /\ Head(s) \in S
      /\ \A i \in 1 .. n : t[i] = s[i + 1]
  BY <1>1, <1>2, HeadTailProperties
<1>4. Head(s) = s[1]
  OBVIOUS
<1>5. Distinct(t)
  <2> SUFFICES ASSUME NEW j \in 1 .. n, NEW k \in 1 .. n, t[j] = t[k]
               PROVE  j = k
    BY <1>3 DEF Distinct
  <2>1. j + 1 \in 1 .. Len(s) /\ k + 1 \in 1 .. Len(s) /\ s[j + 1] = s[k + 1]
    BY <1>2, <1>3
  <2>2. j + 1 = k + 1
    BY <2>1 DEF Distinct
  <2> QED
    BY <2>2
<1>6. Contains(s, Head(s))
  BY <1>2, <1>4 DEF Contains, Range
<1>7. ASSUME NEW x PROVE Contains(t, x) <=> (Contains(s, x) /\ x # Head(s))
  <2>1. ASSUME Contains(t, x) PROVE Contains(s, x) /\ x # Head(s)
    <3>1. PICK k \in 1 .. n : t[k] = x
      BY <2>1, <1>3 DEF Contains, Range
    <3>2. s[k + 1] = x /\ k + 1 \in 1 .. Len(s) /\ 1 \in 1 .. Len(s) /\ k + 1 # 1
      BY <3>1, <1>2, <1>3
    <3> QED
      BY <3>2, <1>4 DEF Contains, Range, Distinct
  <2>2. ASSUME Contains(s, x), x # Head(s) PROVE Contains(t, x)
    <3>1. PICK k \in 1 .. n + 1 : s[k] = x
      BY <2>2, <1>2 DEF Contains, Range
    <3>2. k - 1 \in 1 .. n /\ (k - 1) + 1 = k
      BY <3>1, <2>2, <1>4
    <3>3. t[k - 1] = x
      BY <3>1, <3>2, <1>3
    <3> QED
      BY <3>2, <3>3, <1>3 DEF Contains, Range
  <2> QED
    BY <2>1, <2>2
<1> QED
  BY <1>1, <1>3, <1>5, <1>6, <1>7

\* What remains of a queue after d of its bytes were dropped.
LEMMA Dropped ==
    ASSUME NEW q \in Seq(Nat), NEW d \in Nat, d <= Len(q)
    PROVE  /\ SubSeq(q, d + 1, Len(q)) \in Seq(Nat)
           /\ Len(SubSeq(q, d + 1, Len(q))) = Len(q) - d
           /\ \A k \in 1 .. Len(q) - d : SubSeq(q, d + 1, Len(q))[k] = q[d + k]
<1>1. PICK from \in Int, to \in Int : from = d + 1 /\ to = Len(q)
  BY LenProperties
<1>2. \A i \in from .. to : q[i] \in Nat
  BY <1>1, ElementOfSeq
<1>3. /\ SubSeq(q, from, to) \in Seq(Nat)
      /\ Len(SubSeq(q, from, to)) = IF from <= to THEN to - from + 1 ELSE 0
      /\ \A i \in 1 .. (to - from + 1) : SubSeq(q, from, to)[i] = q[from + i - 1]
  BY <1>2, SubSeqProperties
<1>4. /\ (IF from <= to THEN to - from + 1 ELSE 0) = Len(q) - d
      /\ to - from + 1 = Len(q) - d
      /\ \A i \in 1 .. Len(q) - d : from + i - 1 = d + i
  BY <1>1
<1> QED
  BY <1>1, <1>3, <1>4

\* The first n bytes of a queue.
LEMMA Copied ==
    ASSUME NEW q \in Seq(Nat), NEW n \in Nat, n <= Len(q)
    PROVE  /\ SubSeq(q, 1, n) \in Seq(Nat)
           /\ Len(SubSeq(q, 1, n)) = n
           /\ \A k \in 1 .. n : SubSeq(q, 1, n)[k] = q[k]
<1>1. \A i \in 1 .. n : q[i] \in Nat
  BY ElementOfSeq
<1>2. /\ SubSeq(q, 1, n) \in Seq(Nat)
      /\ Len(SubSeq(q, 1, n)) = IF 1 <= n THEN n - 1 + 1 ELSE 0
      /\ \A i \in 1 .. (n - 1 + 1) : SubSeq(q, 1, n)[i] = q[1 + i - 1]
  BY <1>1, SubSeqProperties
<1>3. (IF 1 <= n THEN n - 1 + 1 ELSE 0) = n /\ n - 1 + 1 = n /\ \A i \in 1 .. n : 1 + i - 1 = i
  OBVIOUS
<1> QED
  BY <1>2, <1>3

---------------------------------------------------------------------------
\* The initial states satisfy the invariant.
LEMMA InitHolds == Init => LiveInv
<1> SUFFICES ASSUME Init PROVE LiveInv
  OBVIOUS
<1> USE DEF Init
<1>1. <<>> \in Seq(Nat) /\ <<>> \in Seq(Iterators) /\ Len(<<>>) = 0
  BY EmptySeq
<1>2. Types
  BY <1>1, LiveAssumption DEF Types, TypeOK, NoCall
<1>3. \A i : ~Contains(<<>>, i)
  BY <1>1 DEF Contains, Range
<1>4. LoopOK
  BY <1>1, <1>3 DEF LoopOK, Distinct
<1>5. \A i \in Iterators : QueueOK(i) /\ AskedOK(i) /\ BufOK(i)
  BY <1>1, <1>3 DEF QueueOK, AskedOK, BufOK
<1>6. CallOK
  BY DEF CallOK, NoCall
<1> QED
  BY <1>2, <1>4, <1>5, <1>6 DEF LiveInv

\* What only moves a thread, opens or closes a descriptor, or ends the
\* process leaves the data alone.
LEMMA ControlStep ==
    ASSUME LiveInv,
           UNCHANGED <<received, loop, call, asked, buf, offset, popped, fifos, queue, base>>,
           thread' \in {"loop", "accept", "client", "recv", "push", "cleanup",
                        "cleanupAndThrow", "ended", "terminated"},
           keepRunning' \in BOOLEAN, listening' \in BOOLEAN,
           client' \in {"invalid", "open", "shut", "closed"},
           main' \in {"run", "failed", "shutClient", "closeClient", "closeSocket", "join", "gone"},
           loop = <<>> \/ thread' \in {"push", "terminated"}
    PROVE  LiveInv'
<1>1. Types'
  BY ZenonT(30) DEF LiveInv, Types, TypeOK
<1>2. LoopOK'
  BY DEF LiveInv, LoopOK
<1>3. \A i \in Iterators : QueueOK(i)' /\ AskedOK(i)' /\ BufOK(i)'
  BY DEF LiveInv, QueueOK, AskedOK, BufOK, Awaited
<1>4. CallOK' /\ ~popped'
  BY DEF LiveInv, CallOK
<1> QED
  BY <1>1, <1>2, <1>3, <1>4 DEF LiveInv

\* A step of the graph thread which changes nothing but its call.
LEMMA CallStep ==
    ASSUME LiveInv, UNCHANGED <<server, asked, buf, offset, popped, media>>,
           call.step # "drop", main' \in {main, "failed"},
           call' \in [it : Iterators \cup {0}, step : {"none", "decode"},
                      off : Nat, cnt : Nat, got : Nat],
           call'.step # "none" => call'.it \in Iterators /\ Contains(fifos, call'.it)
    PROVE  LiveInv'
<1> USE DEF server, media
<1>1. Types'
  <2>1. Types
    BY DEF LiveInv
  <2>2. main' \in {"run", "failed", "shutClient", "closeClient", "closeSocket", "join", "gone"}
    BY <2>1 DEF Types, TypeOK
  <2>3. TypeOK'
    BY <2>1, <2>2, ZenonT(30) DEF Types, TypeOK
  <2>4. call' \in [it : Iterators \cup {0}, step : {"none", "decode", "drop", "copy"},
                   off : Nat, cnt : Nat, got : Nat]
    OBVIOUS
  <2> QED
    BY <2>1, <2>3, <2>4 DEF Types
<1>2. LoopOK'
  BY DEF LiveInv, LoopOK
<1>3. \A i \in Iterators : QueueOK(i)' /\ BufOK(i)'
  BY DEF LiveInv, QueueOK, BufOK, Awaited
<1>4. \A i \in Iterators : AskedOK(i)'
  BY DEF LiveInv, AskedOK
<1>5. CallOK' /\ ~popped'
  BY DEF LiveInv, CallOK
<1> QED
  BY <1>1, <1>2, <1>3, <1>4, <1>5 DEF LiveInv

\* A byte arrives: each FIFO awaits it.
LEMMA RecvByteStep ==
    ASSUME LiveInv, RecvByte
    PROVE  LiveInv'
<1> USE DEF RecvByte, reading, media
<1>1. /\ Types /\ LoopOK /\ received \in Nat /\ received' = received + 1 /\ loop = <<>>
      /\ loop' = fifos
  BY SMTT(30) DEF LiveInv, LoopOK, Types, TypeOK
<1>2. Types'
  BY <1>1, LiveAssumption, SMTT(30) DEF Types, TypeOK
<1>3. LoopOK'
  BY <1>1 DEF LoopOK
<1>4. ASSUME NEW i \in Iterators PROVE QueueOK(i)'
  <2>1. Awaited(i) = 0 /\ (Contains(fifos, i) => Awaited(i)' = 1)
    BY <1>1, EmptySeq DEF Awaited, Contains, Range
  <2>2. /\ QueueOK(i) /\ base[i] \in Nat /\ offset[i] \in Nat /\ Len(queue[i]) \in Nat
        /\ UNCHANGED <<base, offset, queue, buf, fifos>>
    BY <1>1, LenProperties DEF LiveInv, Types, TypeOK
  <2> QED
    BY <1>1, <2>1, <2>2, SMTT(30) DEF QueueOK
<1>5. \A i \in Iterators : AskedOK(i)' /\ BufOK(i)'
  BY DEF LiveInv, AskedOK, BufOK
<1>6. CallOK' /\ ~popped'
  BY DEF LiveInv, CallOK
<1> QED
  BY <1>2, <1>3, <1>4, <1>5, <1>6 DEF LiveInv

\* A FIFO gets the byte that it awaits.
LEMMA PushStep ==
    ASSUME LiveInv, Push
    PROVE  LiveInv'
<1> USE DEF reading
<1>1. CASE loop = <<>>
  <2>1. /\ UNCHANGED <<received, loop, call, asked, buf, offset, popped, fifos, queue, base>>
        /\ thread' = "client" /\ UNCHANGED <<keepRunning, listening, client, main>>
    BY <1>1 DEF Push
  <2> QED
    BY <1>1, <2>1, ControlStep, ZenonT(30) DEF LiveInv, Types, TypeOK
<1>2. CASE loop # <<>>
  <2>1. /\ queue' = [queue EXCEPT ![Head(loop)] = Append(@, received)]
        /\ loop' = Tail(loop)
        /\ UNCHANGED <<thread, keepRunning, client, listening, received, call, asked, buf, saved,
                      offset, popped, fifos, base, main>>
    BY <1>2 DEF Push
  <2>2. Types /\ LoopOK /\ loop \in Seq(Iterators) /\ Distinct(loop)
    BY ZenonT(30) DEF LiveInv, Types, TypeOK, LoopOK
  <2>3. PICK h \in Iterators : h = Head(loop)
    BY <1>2, <2>2, TailDistinct
  <2>4. /\ Tail(loop) \in Seq(Iterators) /\ Distinct(Tail(loop)) /\ Contains(loop, h)
        /\ \A x : Contains(Tail(loop), x) <=> (Contains(loop, x) /\ x # h)
    BY <1>2, <2>2, <2>3, TailDistinct
  <2>5. /\ queue \in [Iterators -> Seq(Nat)] /\ received \in Nat
        /\ base \in [Iterators -> Nat] /\ offset \in [Iterators -> Nat]
        /\ asked \in [Iterators -> [off : Nat, end : Nat]]
    BY <2>2, LiveAssumption, SMTT(30) DEF Types, TypeOK
  <2>6. /\ queue' \in [Iterators -> Seq(Nat)]
        /\ queue'[h] = Append(queue[h], received)
        /\ \A i \in Iterators \ {h} : queue'[i] = queue[i]
        /\ queue[h] \in Seq(Nat)
    <3>1. PICK q \in Seq(Nat) : q = Append(queue[h], received) /\ queue[h] \in Seq(Nat)
      BY <2>5, AppendProperties, ZenonT(30)
    <3>2. queue' = [queue EXCEPT ![h] = q]
      BY <2>1, <2>3, <3>1
    <3> QED
      BY <2>5, <3>1, <3>2
  <2>7. /\ Len(queue[h]) \in Nat /\ Len(queue'[h]) = Len(queue[h]) + 1
        /\ \A k \in 1 .. Len(queue[h]) : queue'[h][k] = queue[h][k]
        /\ queue'[h][Len(queue[h]) + 1] = received
    BY <2>5, <2>6, AppendProperties, LenProperties
  <2>8. Types'
    <3>1. TypeOK'
      BY <2>1, <2>2, <2>4, <2>6, ZenonT(30) DEF Types, TypeOK
    <3> QED
      BY <2>1, <2>2, <3>1 DEF Types
  <2>9. LoopOK'
    <3>1. thread' = thread /\ fifos' = fifos /\ loop' = Tail(loop) /\ thread \in {"push", "terminated"}
      BY <1>2, <2>1, <2>2 DEF LoopOK
    <3> QED
      BY <2>2, <2>4, <3>1 DEF LoopOK
  <2>10. QueueOK(h)'
    <3>1. /\ Awaited(h) = 1 /\ Awaited(h)' = 0 /\ Contains(fifos, h)
      BY <2>1, <2>2, <2>4 DEF Awaited, LoopOK
    <3>2. /\ base[h] + offset[h] + Len(queue[h]) + 1 = received
          /\ \A k \in 1 .. Len(queue[h]) : queue[h][k] = base[h] + offset[h] + k
      BY <3>1 DEF LiveInv, QueueOK
    <3>3. base[h] + offset[h] + Len(queue'[h]) + 0 = received
      <4>1. PICK b \in Nat, o \in Nat, l \in Nat : b = base[h] /\ o = offset[h] /\ l = Len(queue[h])
        BY <2>5, <2>7
      <4>2. b + o + l + 1 = received /\ Len(queue'[h]) = l + 1
        BY <2>7, <3>2, <4>1
      <4>3. b + o + (l + 1) + 0 = received
        BY <4>2
      <4> QED
        BY <4>1, <4>2, <4>3
    <3>4. ASSUME NEW k \in 1 .. Len(queue'[h]) PROVE queue'[h][k] = base[h] + offset[h] + k
      <4>1. CASE k \in 1 .. Len(queue[h])
        BY <2>7, <3>2, <4>1
      <4>2. CASE k = Len(queue[h]) + 1
        <5>1. PICK b \in Nat, o \in Nat, l \in Nat : b = base[h] /\ o = offset[h] /\ l = Len(queue[h])
          BY <2>5, <2>7
        <5>2. b + o + l + 1 = received
          BY <3>2, <5>1
        <5>3. b + o + (l + 1) = received
          BY <5>2
        <5> QED
          BY <2>7, <4>2, <5>1, <5>3, SMTT(30)
      <4> QED
        BY <2>7, <4>1, <4>2
    <3> QED
      BY <2>1, <3>1, <3>3, <3>4 DEF QueueOK
  <2>11. ASSUME NEW i \in Iterators \ {h} PROVE QueueOK(i)'
    <3>1. Awaited(i)' = Awaited(i)
      BY <2>1, <2>4 DEF Awaited
    <3> QED
      BY <2>1, <2>6, <3>1, SMTT(30) DEF LiveInv, QueueOK
  <2>12. ASSUME NEW i \in Iterators PROVE AskedOK(i)'
    <3>1. /\ AskedOK(i) /\ Len(queue[i]) \in Nat /\ Len(queue'[i]) \in Nat
          /\ Len(queue[i]) <= Len(queue'[i]) /\ offset[i] \in Nat
          /\ asked[i].off \in Nat /\ asked[i].end \in Nat
      <4>1. queue[i] \in Seq(Nat) /\ queue'[i] \in Seq(Nat)
        BY <2>5, <2>6
      <4>2. Len(queue[i]) \in Nat /\ Len(queue'[i]) \in Nat
        BY <4>1, LenProperties
      <4>3. Len(queue[i]) <= Len(queue'[i])
        <5>1. CASE i = h
          BY <2>7, <5>1
        <5>2. CASE i # h
          BY <2>6, <4>2, <5>2, SMTT(30)
        <5> QED
          BY <5>1, <5>2
      <4> QED
        BY <2>5, <4>2, <4>3, SMTT(30) DEF LiveInv
    <3> QED
      BY <2>1, <3>1 DEF AskedOK
  <2>13. \A i \in Iterators : BufOK(i)'
    BY <2>1 DEF LiveInv, BufOK
  <2>14. CallOK' /\ ~popped'
    BY <2>1 DEF LiveInv, CallOK
  <2> QED
    BY <2>8, <2>9, <2>10, <2>11, <2>12, <2>13, <2>14 DEF LiveInv
<1> QED
  BY <1>1, <1>2

\* A new FIFO has nothing of what came before it, and awaits nothing.
LEMMA CreateMediumStep ==
    ASSUME LiveInv, NEW i \in Iterators, CreateMedium(i)
    PROVE  LiveInv'
<1>1. /\ ~Contains(fifos, i) /\ fifos' = Append(fifos, i)
      /\ base' = [base EXCEPT ![i] = received]
      /\ UNCHANGED <<thread, keepRunning, client, listening, received, loop, queue, main>>
      /\ UNCHANGED <<call, asked, buf, offset, popped>>
  BY DEF CreateMedium, reading, Contains
<1>2. /\ Types /\ LoopOK /\ fifos \in Seq(Iterators) /\ Distinct(fifos)
      /\ base \in [Iterators -> Nat] /\ received \in Nat
  <2>1. Types /\ LoopOK
    BY DEF LiveInv
  <2>2. fifos \in Seq(Iterators) /\ base \in [Iterators -> Nat] /\ received \in Nat
    BY <2>1, LiveAssumption DEF Types, TypeOK
  <2> QED
    BY <2>1, <2>2 DEF LoopOK
<1>3. /\ fifos' \in Seq(Iterators) /\ Distinct(fifos')
      /\ \A x : Contains(fifos', x) <=> (Contains(fifos, x) \/ x = i)
  BY <1>1, <1>2, AppendDistinct
<1>4. /\ base' \in [Iterators -> Nat] /\ base'[i] = received
      /\ \A j \in Iterators \ {i} : base'[j] = base[j]
  BY <1>1, <1>2
<1>5. Types'
  <2>1. TypeOK'
    BY <1>1, <1>2, <1>3, <1>4, ZenonT(30) DEF Types, TypeOK
  <2> QED
    BY <1>1, <1>2, <2>1 DEF Types
<1>6. LoopOK'
  BY <1>1, <1>2, <1>3 DEF LoopOK
<1>7. QueueOK(i)'
  <2>1. offset[i] = 0 /\ queue[i] = <<>>
    BY <1>1 DEF LiveInv, QueueOK
  <2>2. Awaited(i)' = 0
    BY <1>1, <1>2, SMTT(30) DEF LoopOK, Awaited
  <2> QED
    BY <1>1, <1>2, <1>3, <1>4, <2>1, <2>2, EmptySeq DEF QueueOK
<1>8. ASSUME NEW j \in Iterators \ {i} PROVE QueueOK(j)'
  <2>1. Awaited(j)' = Awaited(j) /\ (Contains(fifos', j) <=> Contains(fifos, j))
    BY <1>1, <1>3 DEF Awaited
  <2> QED
    BY <1>1, <1>4, <2>1 DEF LiveInv, QueueOK
<1>9. ASSUME NEW j \in Iterators PROVE AskedOK(j)' /\ BufOK(j)'
  <2>1. AskedOK(j) /\ BufOK(j) /\ (j = i => buf[j] = <<>>)
    BY <1>1 DEF LiveInv, QueueOK
  <2>2. AskedOK(j)'
    BY <1>1, <2>1 DEF AskedOK
  <2>3. CASE j = i
    <3>1. buf'[j] = <<>> /\ Len(<<>>) = 0 /\ asked'[j].end \in Nat
      BY <1>1, <1>2, <2>1, <2>3, EmptySeq, SMTT(30) DEF Types
    <3> QED
      BY <2>2, <3>1 DEF BufOK
  <2>4. CASE j # i
    <3>1. UNCHANGED <<buf, asked>> /\ base'[j] = base[j]
      BY <1>1, <1>4, <2>4, SMTT(30)
    <3> QED
      BY <2>1, <2>2, <3>1 DEF BufOK
  <2> QED
    BY <2>3, <2>4, SMTT(30)
<1>10. CallOK' /\ ~popped'
  BY <1>1, <1>3 DEF LiveInv, CallOK
<1> QED
  BY <1>5, <1>6, <1>7, <1>8, <1>9, <1>10 DEF LiveInv

\* The decoder asks for the bytes from an offset which the last answer
\* reached.
LEMMA AskStep ==
    ASSUME LiveInv, NEW off \in 0 .. MaxBytes, NEW cnt \in 1 .. MaxRequest, Ask(off, cnt)
    PROVE  LiveInv'
<1>1. PICK i \in Iterators : i = call.it /\ Contains(fifos, i)
  BY DEF Ask, Decoding, LiveInv, CallOK
<1>2. /\ call.step = "decode" /\ off \in asked[i].off .. asked[i].end
      /\ call' = [call EXCEPT !.step = IF off # offset[i] THEN "drop" ELSE "copy",
                              !.off = off, !.cnt = cnt]
      /\ asked' = [asked EXCEPT ![i].off = off]
      /\ UNCHANGED <<server, buf, offset, popped, media, main>>
  BY <1>1 DEF Ask, Decoding
<1>3. /\ Types /\ off \in Nat /\ cnt \in Nat
      /\ asked \in [Iterators -> [off : Nat, end : Nat]]
      /\ call \in [it : Iterators \cup {0}, step : {"none", "decode", "drop", "copy"},
                   off : Nat, cnt : Nat, got : Nat]
  BY LiveAssumption DEF LiveInv, Types
<1>4. /\ asked' \in [Iterators -> [off : Nat, end : Nat]]
      /\ asked'[i].off = off /\ asked'[i].end = asked[i].end
      /\ \A j \in Iterators \ {i} : asked'[j] = asked[j]
      /\ \A j \in Iterators : asked'[j].end = asked[j].end
  BY <1>2, <1>3
<1>5. /\ call' \in [it : Iterators \cup {0}, step : {"none", "decode", "drop", "copy"},
                   off : Nat, cnt : Nat, got : Nat]
      /\ call'.it = i /\ call'.off = off
      /\ call'.step = IF off # offset[i] THEN "drop" ELSE "copy"
  BY <1>1, <1>2, <1>3, ZenonT(30)
<1>6. Types'
  <2>1. TypeOK'
    BY <1>2, <1>3, ZenonT(30) DEF Types, TypeOK, server, media
  <2> QED
    BY <1>4, <1>5, <2>1 DEF Types
<1>7. LoopOK' /\ \A j \in Iterators : QueueOK(j)'
  BY <1>2 DEF LiveInv, LoopOK, QueueOK, Awaited, server, media
<1>8. \A j \in Iterators : BufOK(j)'
  BY <1>2, <1>4 DEF LiveInv, BufOK, media
<1>9. AskedOK(i)'
  <2>1. AskedOK(i) /\ offset[i] = asked[i].off
    BY <1>1, <1>2 DEF LiveInv, AskedOK
  <2>2. asked[i].off <= off /\ off <= asked[i].end
    BY <1>2, <1>3
  <2> QED
    BY <1>2, <1>4, <1>5, <2>1, <2>2 DEF AskedOK, media
<1>10. ASSUME NEW j \in Iterators \ {i} PROVE AskedOK(j)'
  <2>1. AskedOK(j) /\ offset[j] = asked[j].off
    BY <1>2 DEF LiveInv, AskedOK
  <2> QED
    BY <1>2, <1>4, <2>1 DEF AskedOK, media
<1>11. CallOK' /\ ~popped'
  BY <1>1, <1>2, <1>4, <1>5 DEF CallOK, media, LiveInv
<1> QED
  BY <1>6, <1>7, <1>8, <1>9, <1>10, <1>11 DEF LiveInv

\* The FIFO drops what comes before the offset asked for: it has it all.
LEMMA DropStep ==
    ASSUME LiveInv, Drop
    PROVE  LiveInv'
<1>1. PICK i \in Iterators : i = call.it /\ Contains(fifos, i) /\ call.off = asked[i].off
  BY DEF Drop, LiveInv, CallOK
<1>2. /\ queue \in [Iterators -> Seq(Nat)] /\ offset \in [Iterators -> Nat]
      /\ base \in [Iterators -> Nat] /\ received \in Nat
      /\ asked \in [Iterators -> [off : Nat, end : Nat]]
      /\ call \in [it : Iterators \cup {0}, step : {"none", "decode", "drop", "copy"},
                   off : Nat, cnt : Nat, got : Nat]
  <2>1. Types
    BY DEF LiveInv
  <2> QED
    BY <2>1, LiveAssumption, SMTT(30) DEF Types, TypeOK
<1>3. PICK q \in Seq(Nat), o \in Nat, n \in Nat :
            q = queue[i] /\ o = offset[i] /\ n = call.off
  BY <1>1, <1>2
<1>4. PICK l \in Nat, e \in Nat : l = Len(q) /\ e = asked[i].end
  BY <1>1, <1>2, LenProperties, ZenonT(30)
<1>5. o <= n /\ n <= e /\ e <= o + l
  BY <1>1, <1>3, <1>4 DEF LiveInv, AskedOK
<1>6. PICK d \in Nat : d = n - o /\ d <= l
  BY <1>5
<1>7. PICK r \in Seq(Nat) : /\ r = SubSeq(q, d + 1, Len(q)) /\ Len(r) = l - d
                            /\ \A k \in 1 .. l - d : r[k] = q[d + k]
  BY <1>4, <1>6, Dropped, ZenonT(30)
<1>8. /\ ~popped' /\ queue' = [queue EXCEPT ![i] = r] /\ offset' = [offset EXCEPT ![i] = n]
      /\ call' = [call EXCEPT !.step = "copy"]
      /\ UNCHANGED <<server, asked, buf, fifos, base, main>>
  <2>1. /\ popped' = (popped \/ n - o < 0 \/ n - o > Len(q))
        /\ queue' = [queue EXCEPT ![i] = SubSeq(q, n - o + 1, Len(q))]
        /\ offset' = [offset EXCEPT ![i] = n]
        /\ call' = [call EXCEPT !.step = "copy"]
        /\ UNCHANGED <<server, asked, buf, fifos, base, main>>
    BY <1>1, <1>3 DEF Drop
  <2>2. ~(n - o < 0) /\ ~(n - o > Len(q)) /\ n - o = d
    BY <1>4, <1>5, <1>6, SMTT(30)
  <2>3. ~popped
    BY DEF LiveInv
  <2> QED
    BY <1>7, <2>1, <2>2, <2>3, ZenonT(30)
<1>9. /\ queue' \in [Iterators -> Seq(Nat)] /\ queue'[i] = r
      /\ \A j \in Iterators \ {i} : queue'[j] = queue[j]
      /\ offset' \in [Iterators -> Nat] /\ offset'[i] = n
      /\ \A j \in Iterators \ {i} : offset'[j] = offset[j]
  BY <1>2, <1>8, ZenonT(30)
<1>10. /\ call' \in [it : Iterators \cup {0}, step : {"none", "decode", "drop", "copy"},
                    off : Nat, cnt : Nat, got : Nat]
       /\ call'.it = i /\ call'.off = n /\ call'.step = "copy"
  BY <1>1, <1>2, <1>3, <1>8, ZenonT(30)
<1>11. Types'
  <2>1. Types
    BY DEF LiveInv
  <2>2. TypeOK'
    BY <1>8, <1>9, <2>1, ZenonT(30) DEF Types, TypeOK, server
  <2> QED
    BY <1>2, <1>8, <1>10, <2>2 DEF Types
<1>12. LoopOK'
  BY <1>8 DEF LiveInv, LoopOK, server
<1>13. QueueOK(i)'
  <2>1. PICK b \in Nat, a \in Nat : b = base[i] /\ a = Awaited(i) /\ Awaited(i)' = a
    <3>1. Awaited(i) \in Nat
      BY DEF Awaited
    <3>2. Awaited(i)' = Awaited(i)
      BY <1>8 DEF Awaited, server
    <3> QED
      BY <1>2, <3>1, <3>2
  <2>2. b + o + l + a = received /\ \A k \in 1 .. l : q[k] = b + o + k
    BY <1>1, <1>3, <1>4, <2>1, ZenonT(30) DEF LiveInv, QueueOK
  <2>3. b + n + (l - d) + a = received
    BY <1>6, <2>2
  <2>4. ASSUME NEW k \in 1 .. l - d PROVE r[k] = b + n + k
    <3>1. d + k \in 1 .. l /\ b + o + (d + k) = b + n + k
      BY <1>6
    <3> QED
      BY <1>7, <2>2, <3>1, ZenonT(30)
  <2> QED
    <3>1. /\ Contains(fifos', i) /\ base'[i] = b /\ offset'[i] = n /\ queue'[i] = r
          /\ Len(r) = l - d /\ received' = received
      BY <1>1, <1>7, <1>8, <1>9, <2>1, ZenonT(30) DEF server
    <3> QED
      BY <2>1, <2>3, <2>4, <3>1 DEF QueueOK
<1>14. ASSUME NEW j \in Iterators \ {i} PROVE QueueOK(j)' /\ AskedOK(j)'
  <2>1. QueueOK(j)'
    BY <1>8, <1>9, SMTT(30) DEF LiveInv, QueueOK, Awaited, server
  <2>2. AskedOK(j) /\ offset[j] = asked[j].off
    BY <1>1 DEF LiveInv, AskedOK
  <2> QED
    BY <1>8, <1>9, <2>1, <2>2 DEF AskedOK
<1>15. AskedOK(i)'
  <2>1. asked'[i].off = n /\ asked'[i].end = e /\ Len(queue'[i]) = l - d /\ offset'[i] = n
    BY <1>1, <1>3, <1>4, <1>7, <1>8, <1>9
  <2>2. n <= n /\ n <= e /\ e <= n + (l - d)
    BY <1>5, <1>6
  <2> QED
    BY <2>1, <2>2, SMTT(30) DEF AskedOK
<1>16. \A j \in Iterators : BufOK(j)'
  BY <1>8 DEF LiveInv, BufOK
<1>17. CallOK'
  BY <1>1, <1>3, <1>8, <1>10 DEF CallOK
<1> QED
  BY <1>8, <1>11, <1>12, <1>13, <1>14, <1>15, <1>16, <1>17 DEF LiveInv

\* The answer has the first bytes of the FIFO: those at the offset asked for.
LEMMA CopyStep ==
    ASSUME LiveInv, Copy
    PROVE  LiveInv'
<1>1. PICK i \in Iterators : i = call.it /\ Contains(fifos, i) /\ call.off = asked[i].off
  BY DEF Copy, LiveInv, CallOK
<1>2. /\ queue \in [Iterators -> Seq(Nat)] /\ buf \in [Iterators -> Seq(Nat)]
      /\ offset \in [Iterators -> Nat] /\ base \in [Iterators -> Nat]
      /\ asked \in [Iterators -> [off : Nat, end : Nat]]
      /\ call \in [it : Iterators \cup {0}, step : {"none", "decode", "drop", "copy"},
                   off : Nat, cnt : Nat, got : Nat]
  <2>1. Types
    BY DEF LiveInv
  <2> QED
    BY <2>1, ZenonT(30) DEF Types, TypeOK
<1>3. PICK q \in Seq(Nat), n \in Nat, c \in Nat :
            q = queue[i] /\ n = call.off /\ c = call.cnt
  BY <1>1, <1>2
<1>4. call.step = "copy" /\ c <= Len(q) /\ Len(q) \in Nat
  BY <1>1, <1>3, LenProperties DEF Copy
<1>5. PICK r \in Seq(Nat) : /\ r = SubSeq(q, 1, c) /\ Len(r) = c
                            /\ \A k \in 1 .. c : r[k] = q[k]
  BY <1>4, Copied, ZenonT(30)
<1>6. /\ buf' = [buf EXCEPT ![i] = r] /\ asked' = [asked EXCEPT ![i].end = n + c]
      /\ call' = [call EXCEPT !.step = "decode"]
      /\ UNCHANGED <<server, offset, popped, media, main>>
  BY <1>1, <1>3, <1>5 DEF Copy
<1>7. /\ buf' \in [Iterators -> Seq(Nat)] /\ buf'[i] = r
      /\ \A j \in Iterators \ {i} : buf'[j] = buf[j]
  BY <1>2, <1>6
<1>8. /\ asked' \in [Iterators -> [off : Nat, end : Nat]]
      /\ asked'[i].end = n + c /\ asked'[i].off = n
      /\ \A j \in Iterators \ {i} : asked'[j] = asked[j]
  <2>1. PICK m \in Nat : m = n + c
    OBVIOUS
  <2>2. asked' = [asked EXCEPT ![i].end = m] /\ asked[i].off = n
    BY <1>1, <1>3, <1>6, <2>1
  <2> QED
    BY <1>2, <2>1, <2>2, SMTT(30)
<1>9. /\ call' \in [it : Iterators \cup {0}, step : {"none", "decode", "drop", "copy"},
                   off : Nat, cnt : Nat, got : Nat]
      /\ call'.it = i /\ call'.step = "decode"
  BY <1>1, <1>2, <1>6, ZenonT(30)
<1>10. Types'
  <2>1. Types
    BY DEF LiveInv
  <2>2. TypeOK'
    BY <1>6, <1>7, <2>1, ZenonT(30) DEF Types, TypeOK, server, media
  <2> QED
    BY <1>8, <1>9, <2>2 DEF Types
<1>11. LoopOK'
  BY <1>6 DEF LiveInv, LoopOK, server, media
<1>12. \A j \in Iterators : QueueOK(j)'
  <2>1. ASSUME NEW j \in Iterators PROVE QueueOK(j)'
    <3>1. /\ QueueOK(j) /\ UNCHANGED <<base, offset, queue, received, fifos, loop>>
          /\ ~Contains(fifos, j) => buf'[j] = buf[j]
      BY <1>1, <1>6, <1>7 DEF LiveInv, server, media
    <3> QED
      BY <3>1 DEF QueueOK, Awaited
  <2> QED
    BY <2>1
<1>13. offset[i] = n
  BY <1>1, <1>3, <1>4 DEF LiveInv, AskedOK
<1>14. AskedOK(i)' /\ BufOK(i)'
  <2>1. /\ offset'[i] = n /\ Len(queue'[i]) = Len(q) /\ base'[i] = base[i]
        /\ queue[i] = q
    BY <1>3, <1>6, <1>13 DEF media
  <2>2. n <= n /\ n <= n + c /\ n + c <= n + Len(q) /\ c <= n + c /\ (n + c) - c = n
    BY <1>4
  <2>3. AskedOK(i)'
    BY <1>8, <2>1, <2>2, SMTT(30) DEF AskedOK
  <2>4. \A k \in 1 .. Len(q) : q[k] = base[i] + n + k
    BY <1>1, <1>3, <1>13 DEF LiveInv, QueueOK
  <2>5. ASSUME NEW k \in 1 .. c PROVE r[k] = base[i] + ((n + c) - c) + k
    <3>1. k \in 1 .. Len(q)
      BY <1>4
    <3> QED
      BY <1>5, <2>2, <2>4, <3>1
  <2>6. BufOK(i)'
    BY <1>5, <1>7, <1>8, <2>1, <2>2, <2>5, ZenonT(30) DEF BufOK
  <2> QED
    BY <2>3, <2>6
<1>15. ASSUME NEW j \in Iterators \ {i} PROVE AskedOK(j)' /\ BufOK(j)'
  <2>1. /\ AskedOK(j) /\ BufOK(j) /\ offset[j] = asked[j].off
        /\ asked'[j] = asked[j] /\ buf'[j] = buf[j] /\ UNCHANGED <<offset, queue, base>>
    BY <1>4, <1>6, <1>7, <1>8 DEF LiveInv, AskedOK, media
  <2> QED
    BY <2>1 DEF AskedOK, BufOK
<1>16. CallOK' /\ ~popped'
  BY <1>1, <1>6, <1>9 DEF LiveInv, CallOK, media
<1> QED
  BY <1>10, <1>11, <1>12, <1>14, <1>15, <1>16 DEF LiveInv

\* The steps of the server thread which don't touch the data.
LEMMA ServerControl ==
    ASSUME LiveInv,
           \/ CheckRunning \/ Accept \/ AcceptFails \/ CheckClient \/ RecvEnd \/ RecvFails
           \/ PushToNowhere \/ Cleanup
    PROVE  LiveInv'
<1>1. /\ keepRunning \in BOOLEAN /\ listening \in BOOLEAN
      /\ client \in {"invalid", "open", "shut", "closed"}
      /\ main \in {"run", "failed", "shutClient", "closeClient", "closeSocket", "join", "gone"}
      /\ thread \notin {"push", "terminated"} => loop = <<>>
  BY SMTT(30) DEF LiveInv, LoopOK, Types, TypeOK
<1>2. /\ UNCHANGED <<received, loop, call, asked, buf, offset, popped, fifos, queue, base>>
      /\ UNCHANGED <<keepRunning, listening, main>>
  BY DEF CheckRunning, Accept, AcceptFails, CheckClient, RecvEnd, RecvFails, PushToNowhere,
         Cleanup, reading, media
<1>3. client' \in {"invalid", "open", "shut", "closed"}
  BY <1>1 DEF CheckRunning, Accept, AcceptFails, CheckClient, RecvEnd, RecvFails, PushToNowhere,
              Cleanup
<1>4. /\ thread' \in {"loop", "accept", "client", "recv", "push", "cleanup",
                      "cleanupAndThrow", "ended", "terminated"}
      /\ thread' = "terminated" \/ thread \notin {"push", "terminated"}
  BY DEF CheckRunning, Accept, AcceptFails, CheckClient, RecvEnd, RecvFails, PushToNowhere,
         Cleanup
<1> QED
  BY <1>1, <1>2, <1>3, <1>4, ControlStep

\* The destructor doesn't touch the data.
LEMMA DestructorControl ==
    ASSUME LiveInv, Finalize \/ Destructor
    PROVE  LiveInv'
<1>1. /\ thread \in {"loop", "accept", "client", "recv", "push", "cleanup",
                     "cleanupAndThrow", "ended", "terminated"}
      /\ keepRunning \in BOOLEAN /\ listening \in BOOLEAN
      /\ client \in {"invalid", "open", "shut", "closed"}
      /\ loop = <<>> \/ thread \in {"push", "terminated"}
  BY DEF LiveInv, LoopOK, Types, TypeOK
<1>2. /\ UNCHANGED <<received, loop, call, asked, buf, offset, popped, fifos, queue, base>>
      /\ thread' = thread
  BY DEF Finalize, Destructor, ShutClient, CloseClient, CloseSocket, Join, server, reading, media
<1>3. /\ keepRunning' \in BOOLEAN /\ listening' \in BOOLEAN
      /\ client' \in {"invalid", "open", "shut", "closed"}
      /\ main' \in {"run", "failed", "shutClient", "closeClient", "closeSocket", "join", "gone"}
  BY <1>1, ZenonT(30) DEF Finalize, Destructor, ShutClient, CloseClient, CloseSocket, Join, server
<1> QED
  BY <1>1, <1>2, <1>3, ControlStep

\* A call starts, gives a message or returns.
LEMMA CallControl ==
    ASSUME LiveInv,
           (\E i \in Iterators : NextCall(i)) \/ Message \/ DecodingError \/ NotEnough
    PROVE  LiveInv'
<1>1. /\ call \in [it : Iterators \cup {0}, step : {"none", "decode", "drop", "copy"},
                  off : Nat, cnt : Nat, got : Nat]
      /\ call.step # "none" => call.it \in Iterators /\ Contains(fifos, call.it)
      /\ Capacity \in Nat
  BY LiveAssumption DEF LiveInv, Types, CallOK
<1>2. ASSUME call' = NoCall
      PROVE  /\ call' \in [it : Iterators \cup {0}, step : {"none", "decode"},
                           off : Nat, cnt : Nat, got : Nat]
             /\ call'.step = "none"
  BY <1>2 DEF NoCall
<1>3. ASSUME NEW i \in Iterators, NextCall(i) PROVE LiveInv'
  <2>1. /\ call = NoCall /\ Contains(fifos, i)
        /\ call' = [NoCall EXCEPT !.it = i, !.step = "decode"]
        /\ UNCHANGED <<server, asked, buf, offset, popped, media>> /\ main' = main
    BY <1>3, ZenonT(30) DEF NextCall, Contains
  <2>2. /\ call.step = "none" /\ call'.it = i
        /\ call' \in [it : Iterators \cup {0}, step : {"none", "decode"},
                      off : Nat, cnt : Nat, got : Nat]
    BY <2>1, ZenonT(30) DEF NoCall
  <2> QED
    BY <2>1, <2>2, CallStep
<1>4. CASE Message
  <2>1. /\ call.step = "decode" /\ UNCHANGED <<server, asked, buf, offset, popped, media>>
        /\ main' \in {main, "failed"}
        /\ call' = [call EXCEPT !.got = @ + 1] \/ call' = NoCall
    BY <1>4 DEF Message, Decoding, Return
  <2>2. CASE call' = [call EXCEPT !.got = @ + 1]
    <3>1. PICK g \in Nat : g = call.got + 1
      BY <1>1
    <3>2. /\ call' \in [it : Iterators \cup {0}, step : {"none", "decode"},
                        off : Nat, cnt : Nat, got : Nat]
          /\ call'.it = call.it
      BY <1>1, <2>1, <2>2, <3>1
    <3> QED
      BY <1>1, <2>1, <3>2, CallStep
  <2>3. CASE call' = NoCall
    BY <1>2, <2>1, <2>3, CallStep, SMTT(30)
  <2> QED
    BY <2>1, <2>2, <2>3, ZenonT(30)
<1>5. CASE DecodingError
  <2>1. /\ call.step = "decode" /\ UNCHANGED <<server, asked, buf, offset, popped, media>>
        /\ main' \in {main, "failed"} /\ call' = NoCall
    BY <1>5 DEF DecodingError, Decoding, Return
  <2> QED
    BY <1>2, <2>1, CallStep, SMTT(30)
<1>6. CASE NotEnough
  <2>1. /\ call.step = "copy" /\ UNCHANGED <<server, asked, buf, offset, popped, media>>
        /\ main' \in {main, "failed"} /\ call' = NoCall
    BY <1>6 DEF NotEnough, Return
  <2> QED
    BY <1>2, <2>1, CallStep
<1> QED
  BY <1>3, <1>4, <1>5, <1>6

\* Every step keeps the inductive invariant.
LEMMA NextHolds == LiveInv /\ [Next]_vars => LiveInv'
<1> SUFFICES ASSUME LiveInv, [Next]_vars PROVE LiveInv'
  OBVIOUS
<1>1. CASE Server
  BY <1>1, ServerControl, RecvByteStep, PushStep DEF Server
<1>2. CASE GraphThread
  BY <1>2, CreateMediumStep, AskStep, DropStep, CopyStep, CallControl, DestructorControl, SMTT(30)
  DEF GraphThread, Decode, Answer
<1>3. CASE UNCHANGED vars
  <2>1. UNCHANGED <<received, loop, call, asked, buf, offset, popped, fifos, queue, base,
                    thread, keepRunning, client, listening, main>>
    BY <1>3 DEF vars, server, reading, media
  <2>2. LoopOK /\ TypeOK
    BY DEF LiveInv, Types
  <2>3. loop = <<>> \/ thread' \in {"push", "terminated"}
    BY <2>1, <2>2 DEF LoopOK
  <2> QED
    BY <2>1, <2>2, <2>3, ControlStep, SMTT(30) DEF TypeOK
<1> QED
  BY <1>1, <1>2, <1>3 DEF Next, Terminated

\* The inductive invariant holds in every state.
LEMMA LiveInvariant == Spec => []LiveInv
  BY InitHolds, NextHolds, PTL DEF Spec

---------------------------------------------------------------------------
\* _pushData() gives each byte that the clients send to each FIFO that
\* exists, once and in order, however the two threads interleave and however
\* many message iterators there are.
THEOREM FifosGetEverything == Spec => []FifosAreComplete
<1>1. LiveInv => FifosAreComplete
  <2> SUFFICES ASSUME LiveInv, NEW i \in Range(fifos)
               PROVE  queue[i] = Sent(i, offset[i], received - Awaited(i) - base[i] - offset[i])
    BY DEF FifosAreComplete, Awaited, Contains
  <2>1. /\ queue \in [Iterators -> Seq(Nat)] /\ offset \in [Iterators -> Nat]
        /\ base \in [Iterators -> Nat] /\ received \in Nat /\ fifos \in Seq(Iterators)
    <3>1. Types
      BY DEF LiveInv
    <3> QED
      BY <3>1, LiveAssumption, SMTT(30) DEF Types, TypeOK
  <2>2. i \in Iterators /\ Contains(fifos, i)
    BY <2>1, LenProperties, ElementOfSeq DEF Contains, Range
  <2>3. PICK q \in Seq(Nat), b \in Nat, o \in Nat, a \in Nat, l \in Nat :
            /\ q = queue[i] /\ b = base[i] /\ o = offset[i] /\ a = Awaited(i) /\ l = Len(q)
    BY <2>1, <2>2, LenProperties, ZenonT(30) DEF Awaited
  <2>4. b + o + l + a = received /\ \A k \in 1 .. l : q[k] = b + o + k
    BY <2>2, <2>3 DEF LiveInv, QueueOK
  <2>5. received - a - b - o = l
    BY <2>1, <2>4
  <2>6. q = [k \in 1 .. l |-> b + o + k]
    <3>1. q = [k \in 1 .. l |-> q[k]]
      BY <2>3, LenProperties, SMTT(30)
    <3> QED
      BY <2>4, <3>1, ZenonT(30)
  <2> QED
    BY <2>3, <2>5, <2>6, ZenonT(30) DEF Sent
<1> QED
  BY <1>1, LiveInvariant, PTL

\* The buffer which a request gets has the bytes that the clients sent at the
\* offset requested, and no request makes a FIFO drop bytes which it doesn't
\* have, for any requests which a medium has to support.
THEOREM BuffersGetTheirBytes == Spec => []BuffersAreExact
<1>1. LiveInv => BuffersAreExact
  <2> SUFFICES ASSUME LiveInv, NEW i \in Iterators
               PROVE  buf[i] = Sent(i, asked[i].end - Len(buf[i]), Len(buf[i]))
    BY DEF BuffersAreExact, LiveInv
  <2>1. buf[i] \in Seq(Nat)
    BY DEF LiveInv, Types, TypeOK
  <2>2. \A k \in 1 .. Len(buf[i]) : buf[i][k] = base[i] + (asked[i].end - Len(buf[i])) + k
    BY DEF LiveInv, BufOK
  <2> QED
    BY <2>1, <2>2, LenProperties, SMTT(30) DEF Sent
<1> QED
  BY <1>1, LiveInvariant, PTL
===========================================================================
