-------------------------- MODULE GraphTurnProofs --------------------------
(***************************************************************************)
(* Proofs about the trace processing graph (Graph.tla): the calls which    *)
(* abort, the turns of its sinks, and the length of their queue.           *)
(***************************************************************************)
EXTENDS GraphProofs

---------------------------------------------------------------------------
(* Turns, the length of the queue, and the calls which abort *)

\* Each sink of the queue q, and those of the set cs, had a turn after the last
\* turn of the sinks of the queue ahead of it.
InTurn(q, sn, cs) ==
    /\ \A i, j \in 1..Len(q) : i < j => q[j] \in sn[q[i]]
    /\ \A i \in 1..Len(q) : cs \subseteq sn[q[i]]

TurnsOK ==
    /\ InTurn(sinks, since, ConsumingSink)
    /\ configState # "CONFIGURED" => \A s \in Sinks : since[s] = Sinks

\* The length of a queue of n links loses one when a sink ends.
CountOK(n, length, e) ==
    /\ e = {} => length = n
    /\ (\E x \in e : e = {x}) => length = IF n = 0 THEN GuintModulus - 1 ELSE n - 1

LengthOK == CountOK(Len(sinks), sinksLength, ended)

\* bt_graph_run_once() failed to configure the graph.
FailedOnce ==
    /\ configState = "PARTIALLY_CONFIGURED"
    /\ ret.fn = "run_once" /\ ret.status = "ERROR"

\* A function called by the owner of the graph found can_consume set; between
\* calls it is set unless bt_graph_run_once() failed to configure the graph.
ReadyOK ==
    /\ ~Idle => /\ stack[1].fn # "add_port"
                /\ stack[1].fn \in SavingFns => stack[1].saved
    /\ Idle /\ ~canConsume => FailedOnce
    /\ LegalRunNeverAborts

\* There are fewer sinks than a guint can count: no array of distinct sinks has
\* GuintModulus of them.
SinksFit ==
    \A q \in Seq(Sinks) : (\A i, j \in DOMAIN q : q[i] = q[j] => i = j) => Len(q) < GuintModulus

\* The inductive invariant, with GraphInv.
TurnInv == TurnsOK /\ ReadyOK /\ (SinksFit => LengthOK)

\* A sink goes to the tail of the queue.
LEMMA AppendInTurn ==
    ASSUME NEW q \in Seq(Sinks), NEW s \in Sinks, NEW sn, InTurn(q, sn, {s})
    PROVE  InTurn(Append(q, s), sn, {})
<1>1. PICK r : r = Append(q, s)
  BY ZenonT(30)
<1>2. PICK n \in Nat : n = Len(q)
  BY LenProperties
<1>3. Len(r) = n + 1 /\ (\A i \in 1..n : r[i] = q[i]) /\ r[n + 1] = s
  BY <1>1, <1>2, AppendProperties
<1>4. ASSUME NEW i \in 1..(n + 1), NEW j \in 1..(n + 1), i < j PROVE r[j] \in sn[r[i]]
  BY <1>2, <1>3, <1>4 DEF InTurn
<1> QED
  BY <1>1, <1>3, <1>4 DEF InTurn

\* The head of the queue has its turn.
LEMMA TailInTurn ==
    ASSUME NEW q \in Seq(Sinks), q # <<>>, NEW sn \in [Sinks -> SUBSET Sinks],
           \A i, j \in DOMAIN q : q[i] = q[j] => i = j,
           InTurn(q, sn, {})
    PROVE  /\ Range(Tail(q)) \subseteq sn[Head(q)]
           /\ InTurn(Tail(q), [s \in Sinks |-> IF s = Head(q) THEN {}
                                               ELSE sn[s] \cup {Head(q)}],
                     {Head(q)})
<1>1. PICK t, h : t = Tail(q) /\ h = Head(q)
  BY ZenonT(30)
<1>2. PICK n \in Nat : n + 1 = Len(q)
  <2>1. Len(q) \in Nat /\ Len(q) # 0
    BY LenProperties, EmptySeq
  <2> QED
    BY <2>1
<1>3. /\ t \in Seq(Sinks) /\ Len(t) = n /\ h = q[1]
      /\ \A i \in 1..n : t[i] = q[i + 1]
  BY <1>1, <1>2, HeadTailProperties
<1>4. DOMAIN q = 1..(n + 1) /\ DOMAIN t = 1..n
  BY <1>2, <1>3, LenProperties
<1>5. \A i \in 1..n : t[i] \in Sinks /\ t[i] # h /\ t[i] \in sn[h]
  <2> TAKE i \in 1..n
  <2>1. t[i] \in Sinks
    BY <1>3, ElementOfSeq
  <2>2. i + 1 \in 1..(n + 1) /\ 1 \in 1..(n + 1) /\ 1 < i + 1
    OBVIOUS
  <2>3. q[i + 1] # q[1]
    BY <1>4, <2>2
  <2>4. q[i + 1] \in sn[q[1]]
    BY <1>2, <2>2 DEF InTurn
  <2> QED
    BY <1>3, <2>1, <2>3, <2>4
<1>6. PICK sp : sp = [s \in Sinks |-> IF s = h THEN {} ELSE sn[s] \cup {h}]
  BY ZenonT(30)
<1>7. \A i \in 1..n : sp[t[i]] = sn[t[i]] \cup {h}
  BY <1>5, <1>6
<1>8. ASSUME NEW i \in 1..n, NEW j \in 1..n, i < j PROVE t[j] \in sn[t[i]]
  <2>1. q[j + 1] \in sn[q[i + 1]]
    BY <1>2, <1>8 DEF InTurn
  <2> QED
    BY <1>3, <2>1
<1>9. InTurn(t, sp, {h})
  BY <1>3, <1>7, <1>8 DEF InTurn
<1>10. Range(t) \subseteq sn[h]
  BY <1>4, <1>5 DEF Range
<1> QED
  BY <1>1, <1>6, <1>9, <1>10

\* The length of the queue when a link is pushed, popped, or freed.
LEMMA CountSteps ==
    ASSUME NEW n \in Nat, NEW length \in 0..(GuintModulus - 1), NEW e,
           CountOK(n, length, e), n < GuintModulus
    PROVE  /\ n + 1 < GuintModulus => CountOK(n + 1, Inc(length), e)
           /\ n # 0 => CountOK(n - 1, Dec(length), e)
           /\ \A x : x \notin e => CountOK(n, Dec(length), e \cup {x})
<1>1. PICK m \in Nat \ {0} : m = GuintModulus
  BY GraphAssumption
<1>2. ASSUME NEW k \in Nat, k < m PROVE k % m = k /\ (k + m) % m = k /\ m % m = 0
  BY <1>2
<1>3. Inc(length) = IF length + 1 < m THEN length + 1 ELSE 0
  <2>1. CASE length + 1 < m
    BY <1>1, <1>2, <2>1 DEF Inc
  <2>2. CASE length + 1 = m
    BY <1>1, <1>2, <2>2 DEF Inc
  <2> QED
    BY <1>1, <2>1, <2>2
<1>4. Dec(length) = IF length = 0 THEN m - 1 ELSE length - 1
  <2>1. CASE length = 0
    <3>1. length + m - 1 = m - 1 /\ m - 1 \in Nat /\ m - 1 < m
      BY <2>1
    <3> QED
      BY <1>1, <1>2, <2>1, <3>1 DEF Dec
  <2>2. CASE length # 0
    <3>1. length + m - 1 = (length - 1) + m /\ length - 1 \in Nat /\ length - 1 < m
      BY <1>1, <2>2
    <3> QED
      BY <1>1, <1>2, <2>2, <3>1 DEF Dec
  <2> QED
    BY <2>1, <2>2
<1>5. n + 1 < GuintModulus => CountOK(n + 1, Inc(length), e)
  BY <1>1, <1>3 DEF CountOK
<1>6. n # 0 => CountOK(n - 1, Dec(length), e)
  BY <1>1, <1>4 DEF CountOK
<1>7. ASSUME NEW x, x \notin e PROVE CountOK(n, Dec(length), e \cup {x})
  <2>1. e \cup {x} # {} /\ ((\E y \in e \cup {x} : e \cup {x} = {y}) => e = {})
    BY <1>7
  <2> QED
    BY <1>1, <1>4, <2>1 DEF CountOK
<1> QED
  BY <1>5, <1>6, <1>7

\* The queue of sinks, which has none twice, fits a guint.
LEMMA QueueFits ==
    ASSUME SinksFit, NEW q \in Seq(Sinks), \A i, j \in DOMAIN q : q[i] = q[j] => i = j
    PROVE  Len(q) \in Nat /\ Len(q) < GuintModulus
  BY LenProperties DEF SinksFit

---------------------------------------------------------------------------
(* Steps which leave the queue alone, and steps which leave the calls alone *)

\* A step which leaves the queue of sinks alone, and starts no consumption, keeps the turns.
LEMMA QueueKept ==
    ASSUME TurnInv, UNCHANGED <<sinks, sinksLength, ended, since>>,
           ConsumingSink' \subseteq ConsumingSink,
           configState = "CONFIGURED" => configState' = "CONFIGURED"
    PROVE  TurnsOK' /\ (SinksFit => LengthOK')
<1>1. InTurn(sinks, since, ConsumingSink')
  BY DEF TurnInv, TurnsOK, InTurn
<1>2. TurnsOK'
  BY <1>1 DEF TurnInv, TurnsOK
<1>3. SinksFit => LengthOK'
  BY DEF TurnInv, LengthOK
<1> QED
  BY <1>2, <1>3

\* A step which leaves the call stack alone keeps a graph ready for its calls.
LEMMA CallsKept ==
    ASSUME TurnInv, UNCHANGED <<stack, canConsume, ret>>,
           \/ configState' = configState
           \/ ~FailedOnce /\ ~Aborted
    PROVE  ReadyOK'
<1>1. ReadyOK /\ (Idle' <=> Idle) /\ (Aborted' <=> Aborted)
  BY DEF TurnInv, Idle, Aborted, In, Top
<1>2. /\ ~Idle => stack[1].fn # "add_port" /\ (stack[1].fn \in SavingFns => stack[1].saved)
      /\ Idle /\ ~canConsume => FailedOnce
      /\ LegalRunNeverAborts
  BY <1>1, ZenonT(30) DEF ReadyOK
<1>3. Idle' /\ ~canConsume' => FailedOnce'
  BY <1>1, <1>2 DEF FailedOnce
<1>4. LegalRunNeverAborts'
  BY <1>1, <1>2 DEF LegalRunNeverAborts
<1> QED
  BY <1>1, <1>2, <1>3, <1>4, ZenonT(30) DEF ReadyOK

\* A run function in progress.
LEMMA RunningReady ==
    ASSUME TypeOK, NEW f \in Frames, stack' = Append(<<>>, f),
           f.fn \in {"configure", "loop", "consume"}
    PROVE  ReadyOK' /\ ~Idle' /\ Top' = f
<1>1. Top' = f /\ stack'[1] = f /\ ~Idle'
  BY OneFrame
<1>2. f.fn # "add_port" /\ f.fn \notin SavingFns /\ f.fn # "abort"
  BY DEF SavingFns
<1>3. ~Aborted'
  BY <1>1, <1>2 DEF Aborted, In
<1> QED
  BY <1>1, <1>2, <1>3 DEF ReadyOK, LegalRunNeverAborts

\* A run function which returned.
LEMMA ReturnedReady ==
    ASSUME stack' = <<>>, canConsume' \/ FailedOnce'
    PROVE  ReadyOK' /\ ConsumingSink' = {}
<1>1. Idle' /\ ~Aborted' /\ ConsumingSink' = {}
  BY DEF Idle, Aborted, In, ConsumingSink
<1> QED
  BY <1>1 DEF ReadyOK, LegalRunNeverAborts

---------------------------------------------------------------------------
(* Configuration functions *)

\* A step which does not start the turn of a sink.
NoNewTurn == ConsumingSink' \subseteq ConsumingSink

\* Up to the user code that a configuration function calls.
LEMMA EnterTurn ==
    ASSUME GraphInv, TurnInv, UserControl, MayConfigure, NEW f \in Frames,
           f.fn \in SavingFns \cup {"add_port"},
           f.fn = "add_port" => ~Idle,
           f.fn \in SavingFns => f.saved = canConsume,
           stack' = Append(stack, f),
           UNCHANGED <<configState, sinks, sinksLength, ended, since, ret>>
    PROVE  TurnInv' /\ NoNewTurn
<1>1. f.fn \notin RunFns /\ f.fn # "abort"
  BY DEF SavingFns, RunFns
<1>2. /\ \A i \in 1..Len(stack) : stack'[i] = stack[i]
      /\ stack'[Len(stack) + 1] = f
      /\ ConsumingSink = {} /\ ConsumingSink' = {} /\ ~Idle'
  BY <1>1, PushConfiguring
<1>3. TypeOK /\ Len(stack) \in Nat /\ (Idle <=> Len(stack) = 0)
  BY StackFacts DEF GraphInv
<1>4. TurnsOK' /\ (SinksFit => LengthOK')
  BY <1>2, QueueKept
<1>5. ~Aborted'
  <2>1. stack \in Seq(Frames)
    BY <1>3 DEF TypeOK
  <2>2. Last(stack') = f
    BY <2>1, PushTop
  <2> QED
    BY <1>1, <2>2 DEF Aborted, In, Top
<1>6. stack'[1].fn # "add_port" /\ (stack'[1].fn \in SavingFns => stack'[1].saved)
  <2>1. ReadyOK
    BY DEF TurnInv
  <2>2. CASE Idle
    <3>1. stack'[1] = f
      BY <1>2, <1>3, <2>2
    <3>2. canConsume
      BY <2>1, <2>2 DEF ReadyOK, FailedOnce, MayConfigure
    <3> QED
      BY <2>2, <3>1, <3>2, ZenonT(30)
  <2>3. CASE ~Idle
    <3>1. stack'[1] = stack[1]
      BY <1>2, <1>3, <2>3
    <3> QED
      BY <2>1, <2>3, <3>1 DEF ReadyOK
  <2> QED
    BY <2>2, <2>3
<1>7. ReadyOK'
  BY <1>2, <1>5, <1>6 DEF ReadyOK, LegalRunNeverAborts
<1> QED
  BY <1>2, <1>4, <1>7 DEF TurnInv, NoNewTurn

\* When the user code returned.
LEMMA LeaveReady ==
    ASSUME GraphInv, TurnInv, ~Idle, Top.fn \notin RunFns, Pop,
           configState' = configState \/ MakeFaulty,
           Top.fn \in SavingFns => canConsume' = Top.saved
    PROVE  ReadyOK'
<1>1. /\ TypeOK /\ CallsOK
      /\ stack[1].fn # "add_port" /\ (stack[1].fn \in SavingFns => stack[1].saved)
  BY DEF GraphInv, TurnInv, ReadyOK
<1>2. /\ Len(stack) \in Nat \ {0} /\ DOMAIN stack = 1..Len(stack)
      /\ Top = stack[Len(stack)] /\ Top \in Frames
  BY <1>1, StackFacts
<1>3. /\ stack' \in Seq(Frames) /\ DOMAIN stack' = 1..(Len(stack) - 1)
      /\ \A i \in 1..(Len(stack) - 1) : stack'[i] = stack[i]
  BY PopConfiguring
<1>4. Len(stack') = Len(stack) - 1
  <2>1. stack \in Seq(Frames) /\ stack # <<>>
    BY <1>1 DEF TypeOK, Idle
  <2>2. Len(Front(stack)) = Len(stack) - 1
    BY <2>1, FrontLast
  <2> QED
    BY <2>2 DEF Pop
<1>5. CASE Idle'
  <2>0. Len(stack') = 0
    BY <1>5, EmptySeq DEF Idle
  <2>1. Len(stack) = 1
    <3>1. PICK n \in Nat : n = Len(stack)
      BY <1>2, ZenonT(30)
    <3>2. 0 = n - 1
      BY <1>4, <2>0, <3>1
    <3> QED
      BY <3>1, <3>2, SMTT(30)
  <2>2. Top.fn \in SavingFns
    BY <1>1, <1>2, <2>1, FrameFields DEF SavingFns
  <2>3. canConsume'
    BY <1>1, <1>2, <2>1, <2>2
  <2>4. ~Aborted'
    BY <1>5 DEF Aborted, In, Idle
  <2> QED
    BY <1>5, <2>3, <2>4 DEF ReadyOK, LegalRunNeverAborts
<1>6. CASE ~Idle'
  <2>1. Len(stack') \in Nat \ {0} /\ Last(stack') = stack'[Len(stack')]
    BY <1>3, <1>6, FrontLast, ZenonT(30) DEF Idle
  <2>2. stack'[1] = stack[1] /\ Top' = stack[Len(stack) - 1] /\ Len(stack) # 1
    BY <1>2, <1>3, <1>4, <2>1 DEF Top
  <2>3. stack[Len(stack) - 1].fn \notin RunFns
    BY <1>1, <1>2, <1>4, <2>1, <2>2 DEF CallsOK
  <2>4. ~Aborted'
    BY <2>2, <2>3 DEF Aborted, In, RunFns
  <2> QED
    BY <1>1, <1>6, <2>2, <2>4 DEF ReadyOK, LegalRunNeverAborts
<1> QED
  BY <1>5, <1>6

\* A configuration function which does not touch the queue.
LEMMA LeaveTurn ==
    ASSUME GraphInv, TurnInv, ~Idle, Top.fn \notin RunFns, Pop,
           configState' = configState \/ MakeFaulty,
           Top.fn \in SavingFns => canConsume' = Top.saved,
           UNCHANGED <<sinks, sinksLength, ended, since>>
    PROVE  TurnInv' /\ NoNewTurn
<1>1. ConsumingSink = {} /\ ConsumingSink' = {} /\ configState # "CONFIGURED"
  BY PopConfiguring
<1>2. TurnsOK' /\ (SinksFit => LengthOK')
  BY <1>1, QueueKept
<1> QED
  BY <1>1, <1>2, LeaveReady DEF TurnInv, NoNewTurn

\* A sink joins the tail of the queue.
LEMMA PushedCount ==
    ASSUME GraphInv, GraphInv', SinksFit, LengthOK, NEW s \in Sinks,
           sinks' = Append(sinks, s), sinksLength' = Inc(sinksLength), ended' = ended
    PROVE  LengthOK'
<1>1. /\ sinks \in Seq(Sinks) /\ sinks' \in Seq(Sinks)
      /\ sinksLength \in 0..(GuintModulus - 1)
      /\ \A i, j \in DOMAIN sinks' : sinks'[i] = sinks'[j] => i = j
  BY SMTT(30) DEF GraphInv, TypeOK, NoSinkLost
<1>2. Len(sinks') < GuintModulus
  BY <1>1, QueueFits, SMTT(30)
<1>3. Len(sinks) \in Nat /\ Len(sinks') = Len(sinks) + 1
  BY <1>1, LenProperties, AppendProperties
<1>4. PICK n \in Nat : n = Len(sinks)
  BY <1>3
<1>5. n < GuintModulus /\ n + 1 < GuintModulus /\ CountOK(n, sinksLength, ended)
  BY <1>2, <1>3, <1>4, GraphAssumption, SMTT(30) DEF LengthOK
<1>6. CountOK(n + 1, Inc(sinksLength), ended)
  BY <1>1, <1>5, CountSteps
<1> QED
  BY <1>3, <1>4, <1>6, SMTT(30) DEF LengthOK

\* The upstream component accepted a connection: the innermost frame changes,
\* and what it saved does not.
LEMMA UpstreamTurn ==
    ASSUME GraphInv, TurnInv, UpstreamPortConnectedOk
    PROVE  TurnInv' /\ NoNewTurn
<1>1. TypeOK /\ ~Idle /\ Top.fn = "upstream_port_connected"
  BY DEF GraphInv, UpstreamPortConnectedOk, In, Idle
<1>2. /\ Len(stack) \in Nat \ {0} /\ stack \in Seq(Frames) /\ stack # <<>>
      /\ Top = stack[Len(stack)] /\ Top \in Frames
  BY <1>1, StackFacts DEF TypeOK, Idle
<1>3. PICK f : f = [Top EXCEPT !.fn = "downstream_port_connected"]
  BY ZenonT(30)
<1>4. f \in Frames /\ f.fn = "downstream_port_connected" /\ f.saved = Top.saved
  BY <1>1, <1>2, <1>3, NextFrames, ZenonT(30)
<1>5. /\ stack' = Append(Front(stack), f)
      /\ UNCHANGED <<configState, sinks, sinksLength, ended, since>>
  BY <1>3 DEF UpstreamPortConnectedOk, Replace, runVars
<1>6. /\ Len(stack') = Len(stack) /\ Last(stack') = f
      /\ \A i \in 1..(Len(stack) - 1) : stack'[i] = stack[i]
      /\ stack'[Len(stack)] = f
  <2>1. PICK k : k = stack
    OBVIOUS
  <2>2. k \in Seq(Frames) /\ k # <<>> /\ stack' = Append(Front(k), f)
    BY <1>2, <1>5, <2>1
  <2>3. /\ Len(stack') = Len(k) /\ Last(stack') = f
        /\ \A i \in 1..(Len(k) - 1) : stack'[i] = k[i]
        /\ stack'[Len(k)] = f
    BY <1>4, <2>2, ReplaceTop
  <2> QED
    BY <2>1, <2>3
<1>7. ~Idle'
  <2>1. Len(<<>>) = 0
    OBVIOUS
  <2> QED
    BY <1>2, <1>6, <2>1 DEF Idle
<1>8. ~Aborted' /\ ConsumingSink' = {}
  BY <1>4, <1>6 DEF Aborted, ConsumingSink, In, Top
<1>9. stack'[1].fn # "add_port" /\ (stack'[1].fn \in SavingFns => stack'[1].saved)
  <2>1. stack[1].fn # "add_port" /\ (stack[1].fn \in SavingFns => stack[1].saved)
    BY <1>1 DEF TurnInv, ReadyOK
  <2>2. CASE Len(stack) = 1
    BY <1>1, <1>2, <1>4, <1>6, <2>1, <2>2, SMTT(30) DEF SavingFns
  <2>3. CASE Len(stack) # 1
    BY <1>2, <1>6, <2>1, <2>3
  <2> QED
    BY <2>2, <2>3
<1>10. ReadyOK'
  BY <1>7, <1>8, <1>9 DEF ReadyOK, LegalRunNeverAborts
<1>11. TurnsOK' /\ (SinksFit => LengthOK')
  BY <1>5, <1>8, QueueKept
<1> QED
  BY <1>8, <1>10, <1>11 DEF TurnInv, NoNewTurn

\* A sink whose initialization method succeeded joins the queue; no sink had a
\* turn yet.
LEMMA AddComponentOkTurn ==
    ASSUME GraphInv, TurnInv, AddComponentOk, GraphInv'
    PROVE  TurnInv' /\ NoNewTurn
<1>1. /\ ~Idle /\ Top.fn = "add_component" /\ Top.fn \notin RunFns /\ Pop
      /\ configState' = configState /\ canConsume' = Top.saved
      /\ UNCHANGED <<ended, since>>
  BY DEF AddComponentOk, In, Idle, RunFns, RestoreCanConsume
<1>2. CASE Top.comp \notin Sinks
  BY <1>1, <1>2, LeaveTurn DEF AddComponentOk
<1>3. CASE Top.comp \in Sinks
  <2>1. PICK s \in Sinks : s = Top.comp
    BY <1>3
  <2>2. sinks' = Append(sinks, s) /\ sinksLength' = Inc(sinksLength)
    BY <1>3, <2>1 DEF AddComponentOk, PushSink
  <2>3. ConsumingSink' = {} /\ configState # "CONFIGURED"
    BY <1>1, PopConfiguring, SMTT(30)
  <2>4. sinks \in Seq(Sinks) /\ Len(sinks) \in Nat /\ sinksLength \in 0..(GuintModulus - 1)
    BY LenProperties DEF GraphInv, TypeOK
  <2>5. InTurn(sinks, since, {s})
    <3>1. \A i \in 1..Len(sinks) : sinks[i] \in Sinks
      BY <2>4, ElementOfSeq
    <3> QED
      BY <2>3, <3>1 DEF TurnInv, TurnsOK, InTurn
  <2>6. InTurn(sinks', since, {})
    BY <2>2, <2>4, <2>5, AppendInTurn
  <2>7. TurnsOK'
    BY <1>1, <2>3, <2>6 DEF TurnInv, TurnsOK
  <2>8. ASSUME SinksFit PROVE LengthOK'
    BY <1>1, <2>2, <2>4, <2>8, PushedCount DEF TurnInv, LengthOK
  <2> QED
    BY <1>1, <2>3, <2>7, <2>8, LeaveReady DEF TurnInv, NoNewTurn
<1> QED
  BY <1>2, <1>3

\* The other steps of the configuration functions.
LEMMA ConfigureTurn ==
    ASSUME GraphInv, TurnInv, Configure(Comps, Ports), GraphInv'
    PROVE  TurnInv' /\ NoNewTurn
<1>1. TypeOK
  BY DEF GraphInv
<1>2. ASSUME NEW c \in Comps, AddComponent(c) PROVE TurnInv' /\ NoNewTurn
  <2>1. PICK f : f = [fn |-> "add_component", comp |-> c, saved |-> canConsume]
    BY ZenonT(30)
  <2>2. f \in Frames /\ f.fn = "add_component" /\ f.saved = canConsume
    BY <1>1, <2>1, NewFrames, SMTT(30) DEF TypeOK
  <2>3. /\ UserControl /\ MayConfigure /\ stack' = Append(stack, f)
        /\ UNCHANGED <<configState, sinks, sinksLength, ended, since, ret>>
    BY <1>2, <2>1 DEF AddComponent, Push, runVars
  <2> QED
    BY <2>2, <2>3, EnterTurn DEF SavingFns
<1>3. ASSUME NEW p \in Ports, AddPort(p) PROVE TurnInv' /\ NoNewTurn
  <2>1. PICK f : f = [fn |-> "add_port", port |-> p]
    BY ZenonT(30)
  <2>2. f \in Frames /\ f.fn = "add_port"
    BY <1>1, <2>1, NewFrames
  <2>3. /\ MayConfigure /\ stack' = Append(stack, f)
        /\ UNCHANGED <<configState, sinks, sinksLength, ended, since, ret>>
    BY <1>3, <2>1 DEF AddPort, Push, runVars
  <2>4. UserControl /\ ~Idle
    BY <1>3 DEF AddPort, RunningComp, UserControl, In, Idle
  <2> QED
    BY <2>2, <2>3, <2>4, EnterTurn DEF SavingFns
<1>4. ASSUME NEW up \in ports, NEW down \in ports, ConnectPorts(up, down) PROVE TurnInv' /\ NoNewTurn
  <2>1. PICK f : f = [fn |-> "upstream_port_connected", up |-> up, down |-> down,
                      saved |-> canConsume]
    BY ZenonT(30)
  <2>2. f \in Frames /\ f.fn = "upstream_port_connected" /\ f.saved = canConsume
    BY <1>1, <2>1, NewFrames, SMTT(30) DEF TypeOK
  <2>3. /\ UserControl /\ MayConfigure /\ stack' = Append(stack, f)
        /\ UNCHANGED <<configState, sinks, sinksLength, ended, since, ret>>
    BY <1>4, <2>1 DEF ConnectPorts, Push, runVars
  <2> QED
    BY <2>2, <2>3, EnterTurn DEF SavingFns
<1>5. ASSUME UserControl, MayConfigure, MakeFaulty,
             UNCHANGED <<confVars, canConsume, runVars, intrVars, stack, ret>>
      PROVE  TurnInv' /\ NoNewTurn
  <2>1. ~FailedOnce /\ ~Aborted
    BY <1>5 DEF FailedOnce, MayConfigure, Aborted, UserControl, In, Idle
  <2>2. ConsumingSink' = ConsumingSink /\ configState # "CONFIGURED"
    BY <1>5 DEF ConsumingSink, In, Top, MayConfigure
  <2>3. TurnsOK' /\ (SinksFit => LengthOK')
    BY <1>5, <2>2, QueueKept DEF runVars
  <2>4. ReadyOK'
    BY <1>5, <2>1, CallsKept, SMTT(30)
  <2> QED
    BY <2>2, <2>3, <2>4 DEF TurnInv, NoNewTurn
<1>6. ASSUME AddComponentFailed \/ DownstreamPortConnectedOk \/ PortConnectedFailed
      PROVE  TurnInv' /\ NoNewTurn
  <2>1. /\ ~Idle /\ Top.fn \in SavingFns /\ Top.fn \notin RunFns
        /\ Pop /\ canConsume' = Top.saved
        /\ configState' = configState \/ MakeFaulty
        /\ UNCHANGED <<sinks, sinksLength, ended, since>>
    BY <1>6, ZenonT(30) DEF AddComponentFailed, DownstreamPortConnectedOk, PortConnectedFailed,
            In, Idle, SavingFns, RunFns, RestoreCanConsume, runVars
  <2> QED
    BY <2>1, LeaveTurn
<1>7. ASSUME AddPortOk \/ AddPortFailed PROVE TurnInv' /\ NoNewTurn
  <2>1. /\ ~Idle /\ Top.fn \notin SavingFns /\ Top.fn \notin RunFns /\ Pop
        /\ configState' = configState \/ MakeFaulty
        /\ UNCHANGED <<sinks, sinksLength, ended, since>>
    BY <1>7, ZenonT(30) DEF AddPortOk, AddPortFailed, In, Idle, SavingFns, RunFns, runVars
  <2> QED
    BY <2>1, LeaveTurn
<1>8. ASSUME UpstreamPortConnectedOk PROVE TurnInv' /\ NoNewTurn
  BY <1>8, UpstreamTurn
<1> QED
  BY <1>2, <1>3, <1>4, <1>5, <1>6, <1>7, <1>8, AddComponentOkTurn, ZenonT(30)
  DEF Configure, AddComponentMemoryError, ConnectPortsMemoryError

---------------------------------------------------------------------------
(* Run functions *)

\* bt_graph_run() and bt_graph_run_once() are called: only a call after
\* bt_graph_run_once() failed to configure the graph aborts.
LEMMA CallTurn ==
    ASSUME GraphInv, TurnInv, NEW fn \in {"run", "run_once"}, Call(fn)
    PROVE  TurnInv' /\ NoNewTurn
<1>1. TypeOK /\ Idle /\ stack = <<>>
  BY SMTT(30) DEF GraphInv, Call, RunPre, Idle
<1>2. UNCHANGED <<sinks, sinksLength, ended, since>>
  BY DEF Call, runVars
<1>3. CASE ChecksCanConsume(fn) /\ ~canConsume
  <2>1. PICK f : f = [fn |-> "abort"]
    BY ZenonT(30)
  <2>2. f \in Frames /\ f.fn = "abort"
    BY <2>1, NewFrames, SMTT(30)
  <2>3. stack' = Append(<<>>, f) /\ UNCHANGED <<configState, ret>>
    BY <1>1, <1>3, <2>1 DEF Call, Push
  <2>4. Top' = f /\ stack'[1] = f /\ ~Idle'
    BY <1>1, <2>2, <2>3, OneFrame
  <2>5. FailedOnce
    BY <1>1, <1>3 DEF TurnInv, ReadyOK
  <2>6. LegalRunNeverAborts'
    BY <2>3, <2>5 DEF LegalRunNeverAborts, FailedOnce
  <2>7. ReadyOK'
    BY <2>2, <2>4, <2>6 DEF ReadyOK, SavingFns
  <2>8. ConsumingSink' = {}
    BY <2>2, <2>4 DEF ConsumingSink, In
  <2>9. TurnsOK' /\ (SinksFit => LengthOK')
    BY <1>2, <2>3, <2>8, QueueKept
  <2> QED
    BY <2>7, <2>8, <2>9 DEF TurnInv, NoNewTurn
<1>4. CASE ~(ChecksCanConsume(fn) /\ ~canConsume)
  <2>1. PICK f : f = [fn |-> IF configState = "CONFIGURED" THEN "loop" ELSE "configure",
                      caller |-> fn]
    BY ZenonT(30)
  <2>2. f \in Frames /\ f.fn \in {"configure", "loop"}
    BY <2>1, NewFrames
  <2>3. /\ stack' = Append(<<>>, f)
        /\ configState = "CONFIGURED" => configState' = "CONFIGURED"
    BY <1>1, <1>4, <2>1 DEF Call, Push
  <2>4. ReadyOK' /\ Top' = f
    BY <1>1, <2>2, <2>3, RunningReady
  <2>5. ConsumingSink' = {}
    BY <2>2, <2>4 DEF ConsumingSink, In
  <2>6. TurnsOK' /\ (SinksFit => LengthOK')
    BY <1>2, <2>3, <2>5, QueueKept
  <2> QED
    BY <2>4, <2>5, <2>6 DEF TurnInv, NoNewTurn
<1> QED
  BY <1>3, <1>4, SMTT(30)

\* configure_graph(): bt_graph_run_once() alone leaves can_consume false.
LEMMA ConfigureSinksTurn ==
    ASSUME GraphInv, TurnInv,
           ConfigureSinkOk \/ ConfigureSinkFailed \/ ConfigureDone
    PROVE  TurnInv' /\ NoNewTurn
<1>1. /\ TypeOK /\ ~Idle /\ Top.fn = "configure" /\ Top.fn \in RunFns
      /\ In("configure")
  BY ZenonT(30) DEF GraphInv, ConfigureSinkOk, ConfigureSinkFailed, ConfigureDone, In, Idle, RunFns
<1>2. configState = "PARTIALLY_CONFIGURED"
  BY <1>1, SMTT(30) DEF GraphInv, CallsOK
<1>3. Front(stack) = <<>> /\ Top \in Frames /\ Top.caller \in {"run", "run_once"}
  BY <1>1, RunningCalls, FrameFields
<1>4. UNCHANGED <<sinks, sinksLength, ended, since>>
  BY ZenonT(30) DEF ConfigureSinkOk, ConfigureSinkFailed, ConfigureDone, runVars
<1>5. CASE ConfigureSinkOk
  <2>1. UNCHANGED <<stack, canConsume, ret, configState>>
    BY <1>5 DEF ConfigureSinkOk
  <2>2. ConsumingSink' = ConsumingSink
    BY <2>1 DEF ConsumingSink, In, Top
  <2> QED
    BY <1>4, <2>1, <2>2, QueueKept, CallsKept, SMTT(30) DEF TurnInv, NoNewTurn
<1>6. CASE ConfigureSinkFailed
  <2>1. /\ stack' = <<>> /\ configState' = configState
        /\ canConsume' = IF Top.caller = "run" THEN TRUE ELSE canConsume
        /\ ret' = [fn |-> Top.caller, status |-> "ERROR", interrupted |-> FALSE]
    BY <1>3, <1>6 DEF ConfigureSinkFailed, Pop
  <2>2. canConsume' \/ FailedOnce'
    BY <1>2, <1>3, <2>1 DEF FailedOnce
  <2>3. ReadyOK' /\ ConsumingSink' = {}
    BY <2>1, <2>2, ReturnedReady
  <2> QED
    BY <1>4, <2>1, <2>3, QueueKept, SMTT(30) DEF TurnInv, NoNewTurn
<1>7. CASE ConfigureDone
  <2>1. PICK f : f = [Top EXCEPT !.fn = "loop"]
    BY ZenonT(30)
  <2>2. f \in Frames /\ f.fn = "loop"
    BY <1>1, <1>3, <2>1, NextFrames, ZenonT(30)
  <2>3. stack' = Append(<<>>, f)
    BY <1>3, <1>7, <2>1 DEF ConfigureDone, Replace
  <2>4. ReadyOK' /\ Top' = f
    BY <1>1, <2>2, <2>3, RunningReady
  <2>5. ConsumingSink' = {}
    BY <2>2, <2>4 DEF ConsumingSink, In
  <2>6. TurnsOK' /\ (SinksFit => LengthOK')
    BY <1>2, <1>4, <2>5, QueueKept
  <2> QED
    BY <2>4, <2>5, <2>6 DEF TurnInv, NoNewTurn
<1> QED
  BY <1>5, <1>6, <1>7

\* A run function returns from its loop.
LEMMA LoopReturnTurn ==
    ASSUME GraphInv, TurnInv, RunInterrupted \/ NothingToConsume
    PROVE  TurnInv' /\ NoNewTurn
<1>1. /\ ~Idle /\ Top.fn = "loop" /\ Top.fn \in RunFns
  BY ZenonT(30) DEF RunInterrupted, NothingToConsume, In, Idle, RunFns
<1>2. Front(stack) = <<>>
  BY <1>1, RunningCalls
<1>3. /\ stack' = <<>> /\ canConsume' = TRUE
      /\ UNCHANGED <<configState, sinks, sinksLength, ended, since>>
  BY <1>2, ZenonT(30) DEF RunInterrupted, NothingToConsume, Return, Pop, runVars
<1>4. ReadyOK' /\ ConsumingSink' = {}
  BY <1>3, ReturnedReady, SMTT(30)
<1> QED
  BY <1>3, <1>4, QueueKept DEF TurnInv, NoNewTurn

\* The sink at the head of the queue has its turn.
LEMMA ConsumeHeadTurn ==
    ASSUME GraphInv, TurnInv, ConsumeHead
    PROVE  /\ TurnInv'
           /\ Range(sinks') \subseteq since[Top'.sink]
<1>1. /\ TypeOK /\ ~Idle /\ Top.fn = "loop" /\ Top.fn \in RunFns /\ In("loop")
  BY DEF GraphInv, ConsumeHead, In, Idle, RunFns
<1>2. configState = "CONFIGURED" /\ ConsumingSink = {}
  BY <1>1, SMTT(30) DEF GraphInv, CallsOK, ConsumingSink, In
<1>3. /\ Front(stack) = <<>> /\ Top \in Frames /\ Top.caller \in {"run", "run_once"}
  BY <1>1, RunningCalls, FrameFields
<1>4. PICK q, h : q = sinks /\ h = Head(sinks)
  BY SMTT(30)
<1>5. /\ q \in Seq(Sinks) /\ q # <<>> /\ h = Head(q) /\ sinks' = Tail(q)
      /\ since' = [s \in Sinks |-> IF s = h THEN {} ELSE since[s] \cup {h}]
      /\ since \in [Sinks -> SUBSET Sinks]
      /\ sinksLength' = Dec(sinksLength) /\ sinksLength \in 0..(GuintModulus - 1)
      /\ UNCHANGED <<configState, ended>>
  BY <1>1, <1>4 DEF ConsumeHead, TypeOK
<1>6. h \in Sinks /\ Len(Tail(q)) = Len(q) - 1 /\ Len(q) \in Nat /\ Len(q) # 0
  BY <1>5, HeadTailProperties, LenProperties, EmptySeq
<1>7. PICK f : f = [fn |-> "consume", caller |-> Top.caller, sink |-> h]
  BY ZenonT(30)
<1>8. f \in Frames /\ f.fn = "consume" /\ f.sink = h
  BY <1>3, <1>6, <1>7, NewFrames
<1>9. stack' = Append(<<>>, f)
  BY <1>3, <1>4, <1>7, ZenonT(30) DEF ConsumeHead, Replace
<1>10. ReadyOK' /\ Top' = f /\ ~Idle'
  BY <1>1, <1>8, <1>9, RunningReady
<1>11. ConsumingSink' = {h}
  BY <1>8, <1>10, SMTT(30) DEF ConsumingSink, In, Idle
<1>12. /\ \A i, j \in DOMAIN q : q[i] = q[j] => i = j
       /\ InTurn(q, since, {})
  BY <1>2, <1>4 DEF GraphInv, NoSinkLost, TurnInv, TurnsOK
<1>13. /\ Range(sinks') \subseteq since[h]
       /\ InTurn(sinks', since', {h})
  BY <1>5, <1>12, TailInTurn, ZenonT(30)
<1>14. TurnsOK'
  BY <1>2, <1>5, <1>11, <1>13, SMTT(30) DEF TurnsOK
<1>15. ASSUME SinksFit PROVE LengthOK'
  <2>1. Len(q) < GuintModulus
    BY <1>5, <1>12, <1>15, QueueFits, SMTT(30)
  <2>2. PICK n \in Nat : n = Len(q)
    BY <1>6, ZenonT(30)
  <2>3. CountOK(n, sinksLength, ended) /\ n < GuintModulus /\ n # 0
    BY <1>4, <1>6, <1>15, <2>1, <2>2, SMTT(30) DEF TurnInv, LengthOK
  <2>4. CountOK(n - 1, Dec(sinksLength), ended)
    BY <1>5, <2>3, CountSteps, SMTT(30)
  <2> QED
    BY <1>5, <1>6, <2>2, <2>4, SMTT(30) DEF LengthOK
<1> QED
  BY <1>8, <1>10, <1>13, <1>14, <1>15, SMTT(30) DEF TurnInv

\* What the run functions do with the status of a sink: bt_graph_run() goes on
\* after AGAIN when the length of the queue is more than one.
LEMMA AfterConsumeTurn ==
    ASSUME GraphInv, In("consume"), NEW status, NEW length, AfterConsume(status, length)
    PROVE  /\ ReadyOK' /\ ConsumingSink' = {}
           /\ status = "AGAIN" /\ Top.caller = "run" => (Idle' <=> ~(length > 1))
<1>1. /\ TypeOK /\ ~Idle /\ Top.fn = "consume" /\ Top.fn \in RunFns
  BY SMTT(30) DEF GraphInv, In, Idle, RunFns
<1>2. Front(stack) = <<>> /\ Top.caller \in {"run", "run_once"}
  BY <1>1, RunningCalls, FrameFields
<1>3. ASSUME NEW st, Return(st, FALSE) PROVE ReadyOK' /\ ConsumingSink' = {} /\ Idle'
  <2>1. stack' = <<>> /\ canConsume' = TRUE
    BY <1>2, <1>3 DEF Return, Pop
  <2> QED
    BY <2>1, ReturnedReady DEF Idle
<1>4. ASSUME Replace([fn |-> "loop", caller |-> "run"])
      PROVE  ReadyOK' /\ ConsumingSink' = {} /\ ~Idle'
  <2>1. PICK f : f = [fn |-> "loop", caller |-> "run"]
    BY ZenonT(30)
  <2>2. f \in Frames /\ f.fn = "loop"
    BY <2>1, NewFrames
  <2>3. stack' = Append(<<>>, f)
    BY <1>2, <1>4, <2>1 DEF Replace
  <2>4. ReadyOK' /\ Top' = f /\ ~Idle'
    BY <1>1, <2>2, <2>3, RunningReady
  <2> QED
    BY <2>2, <2>4 DEF ConsumingSink, In
<1>5. CASE Top.caller = "run_once"
  BY <1>3, <1>5, ZenonT(30) DEF AfterConsume
<1>6. CASE Top.caller = "run" /\ (status = "OK" \/ (status = "AGAIN" /\ length > 1))
  BY <1>4, <1>6, ZenonT(30) DEF AfterConsume
<1>7. CASE Top.caller = "run" /\ ~(status = "OK" \/ (status = "AGAIN" /\ length > 1))
  BY <1>3, <1>7, ZenonT(30) DEF AfterConsume
<1> QED
  BY <1>2, <1>5, <1>6, <1>7

\* The sink which had its turn goes to the tail of the queue.
LEMMA ConsumeContinuesTurn ==
    ASSUME GraphInv, TurnInv, GraphInv', NEW status, ConsumeContinues(status)
    PROVE  TurnInv' /\ NoNewTurn
<1>1. /\ TypeOK /\ ~Idle /\ Top.fn = "consume" /\ In("consume")
  BY DEF GraphInv, ConsumeContinues, In, Idle
<1>2. PICK s \in Sinks : s = Top.sink
  BY <1>1, StackFacts, FrameFields
<1>3. /\ sinks' = Append(sinks, s) /\ sinksLength' = Inc(sinksLength)
      /\ AfterConsume(status, sinksLength')
      /\ UNCHANGED <<configState, ended, since>>
  BY <1>2 DEF ConsumeContinues, PushSink
<1>4. ReadyOK' /\ ConsumingSink' = {}
  BY <1>1, <1>3, AfterConsumeTurn, SMTT(30)
<1>5. sinks \in Seq(Sinks) /\ InTurn(sinks, since, {s})
  BY <1>1, <1>2, SMTT(30) DEF TypeOK, TurnInv, TurnsOK, ConsumingSink
<1>6. InTurn(sinks', since, {})
  BY <1>3, <1>5, AppendInTurn, SMTT(30)
<1>7. TurnsOK'
  BY <1>3, <1>4, <1>6, SMTT(30) DEF TurnInv, TurnsOK
<1>8. ASSUME SinksFit PROVE LengthOK'
  BY <1>3, <1>8, PushedCount DEF TurnInv
<1> QED
  BY <1>4, <1>7, <1>8, SMTT(30) DEF TurnInv, NoNewTurn

\* The sink ended: the length of the queue is decremented once more.
LEMMA ConsumeEndedTurn ==
    ASSUME GraphInv, TurnInv, ConsumeEnded
    PROVE  TurnInv' /\ NoNewTurn
<1>1. /\ TypeOK /\ ~Idle /\ Top.fn = "consume" /\ In("consume")
  BY DEF GraphInv, ConsumeEnded, In, Idle
<1>2. PICK s : s = Top.sink
  OBVIOUS
<1>3. /\ sinks' = sinks /\ sinksLength' = Dec(sinksLength) /\ ended' = ended \cup {s}
      /\ AfterConsume(EndStatus, sinksLength') /\ UNCHANGED <<configState, since>>
  BY <1>2 DEF ConsumeEnded
<1>4. ReadyOK' /\ ConsumingSink' = {}
  BY <1>1, <1>3, AfterConsumeTurn, SMTT(30)
<1>5. TurnsOK'
  <2>1. InTurn(sinks, since, {})
    BY DEF TurnInv, TurnsOK, InTurn
  <2> QED
    BY <1>3, <1>4, <2>1, SMTT(30) DEF TurnInv, TurnsOK
<1>6. s \notin ended
  BY <1>1, <1>2, SMTT(30) DEF GraphInv, NoSinkLost, ConsumingSink
<1>7. ASSUME SinksFit PROVE LengthOK'
  <2>1. /\ sinks \in Seq(Sinks) /\ sinksLength \in 0..(GuintModulus - 1)
        /\ \A i, j \in DOMAIN sinks : sinks[i] = sinks[j] => i = j
    BY <1>1, SMTT(30) DEF GraphInv, NoSinkLost, TypeOK
  <2>2. Len(sinks) \in Nat /\ Len(sinks) < GuintModulus
    BY <1>7, <2>1, QueueFits
  <2>3. PICK n \in Nat : n = Len(sinks)
    BY <2>2
  <2>4. CountOK(n, sinksLength, ended) /\ n < GuintModulus
    BY <1>7, <2>2, <2>3, SMTT(30) DEF TurnInv, LengthOK
  <2>5. CountOK(n, Dec(sinksLength), ended \cup {s})
    BY <1>6, <2>1, <2>4, CountSteps, SMTT(30)
  <2> QED
    BY <1>3, <2>3, <2>5, SMTT(30) DEF LengthOK
<1> QED
  BY <1>4, <1>5, <1>7, SMTT(30) DEF TurnInv, NoNewTurn

\* The inductive invariant holds of the graph that bt_graph_create() returns.
LEMMA TurnInit == Init => TurnInv
<1> SUFFICES ASSUME Init PROVE TurnInv
  OBVIOUS
<1>1. /\ Len(sinks) = 0 /\ Idle /\ canConsume /\ sinksLength = 0 /\ ended = {}
      /\ \A s \in Sinks : since[s] = Sinks
  BY DEF Init, Idle
<1>2. ~Aborted
  BY <1>1 DEF Aborted, In, Idle
<1>3. TurnsOK
  BY <1>1 DEF TurnsOK, InTurn
<1>4. LengthOK
  BY <1>1 DEF LengthOK, CountOK
<1> QED
  BY <1>1, <1>2, <1>3, <1>4 DEF TurnInv, ReadyOK, LegalRunNeverAborts

\* Every step of the graph keeps the inductive invariant.
LEMMA TurnNext ==
    ASSUME GraphInv, TurnInv, [Next]_vars
    PROVE  TurnInv' /\ (ConsumeHead \/ NoNewTurn)
<1>1. GraphInv'
  BY GraphNext, SMTT(30)
<1>2. CASE Run
  <2>1. ASSUME NEW status \in {"OK", "AGAIN", "ERROR"}, ConsumeContinues(status)
        PROVE  TurnInv' /\ NoNewTurn
    BY <1>1, <2>1, ConsumeContinuesTurn
  <2>2. CASE Call("run") \/ Call("run_once")
    BY <2>2, CallTurn
  <2> QED
    BY <1>2, <2>1, <2>2, ConfigureSinksTurn, LoopReturnTurn, ConsumeHeadTurn,
       ConsumeEndedTurn, SMTT(30) DEF Run, RunStep
<1>3. CASE Interrupt(Interrupters) \/ UNCHANGED vars
  <2>1. UNCHANGED <<configState, canConsume, runVars, stack, ret>>
    BY <1>3 DEF Interrupt, SetInterrupter, ResetInterrupter, AddInterrupter, vars
  <2>2. ConsumingSink' = ConsumingSink
    BY <2>1 DEF ConsumingSink, In, Top
  <2>3. TurnsOK' /\ (SinksFit => LengthOK')
    BY <2>1, <2>2, QueueKept DEF runVars
  <2>4. ReadyOK'
    BY <2>1, CallsKept
  <2> QED
    BY <2>2, <2>3, <2>4, SMTT(30) DEF TurnInv, NoNewTurn
<1> QED
  BY <1>1, <1>2, <1>3, ConfigureTurn DEF Next

\* The turns of the sinks, the calls and the length of the queue stay in order.
LEMMA TurnInvariant == Spec => [](GraphInv /\ TurnInv)
<1>1. GraphInv /\ TurnInv /\ [Next]_vars => TurnInv'
  BY TurnNext
<1> QED
  BY <1>1, TurnInit, GraphInvariance, PTL DEF Spec

---------------------------------------------------------------------------
(* The theorems *)

\* A call of a run function which honours the documented preconditions aborts
\* only after bt_graph_run_once() failed to configure the graph: everything else
\* which clears can_consume sets it again before it returns to the owner of the
\* graph, also on its error paths.
THEOREM LegalRunsGoOn == Spec => []LegalRunNeverAborts
<1>1. TurnInv => LegalRunNeverAborts
  BY DEF TurnInv, ReadyOK
<1> QED
  BY <1>1, TurnInvariant, PTL

\* Sinks take turns, for any number of sinks and any statuses: when one starts
\* to consume, each sink which waits had a turn since its last one.
THEOREM SinksTakeTurns == Spec => RoundRobin
<1> DEFINE Turn == ~In("consume") /\ In("consume")' => Range(sinks') \subseteq since[Top'.sink]
<1>1. GraphInv /\ TurnInv /\ [Next]_vars => [Turn]_vars
  <2> SUFFICES ASSUME GraphInv, TurnInv, Next, ~In("consume"), In("consume")'
               PROVE  Range(sinks') \subseteq since[Top'.sink]
    BY DEF vars
  <2>1. CASE ConsumeHead
    BY <2>1, ConsumeHeadTurn
  <2>2. ConsumeHead \/ NoNewTurn
    BY TurnNext
  <2>3. ConsumingSink = {} /\ ConsumingSink' # {}
    BY DEF ConsumingSink
  <2> QED
    BY <2>1, <2>2, <2>3, SMTT(30) DEF NoNewTurn
<1> QED
  BY <1>1, TurnInvariant, PTL DEF Spec, RoundRobin

\* As long as there are fewer sinks than a guint counts, bt_graph_run() returns
\* AGAIN when the only sink left returns AGAIN, also after another one ended.
THEOREM AgainReturnsAlone ==
    ASSUME SinksFit
    PROVE  Spec => SingleSinkAgainReturns
<1> DEFINE Again == /\ ConsumeContinues("AGAIN") /\ Top.caller = "run" /\ sinks = <<>>
                    /\ \A s, t \in ended : s = t
                    => Idle' /\ ret'.status = "AGAIN"
<1>1. GraphInv /\ TurnInv /\ [Next]_vars => [Again]_vars
  <2> SUFFICES ASSUME GraphInv, TurnInv, Next, ConsumeContinues("AGAIN"),
                      Top.caller = "run", sinks = <<>>, \A s, t \in ended : s = t
               PROVE  Idle' /\ ret'.status = "AGAIN"
    BY DEF vars
  <2>1. GraphInv' /\ TurnInv'
    BY GraphNext, TurnNext
  <2>2. Idle' <=> ~(sinksLength' > 1)
    BY AfterConsumeTurn, SMTT(30) DEF ConsumeContinues
  <2>3. Len(sinks') = 1
    BY LenProperties, AppendProperties, SMTT(30) DEF GraphInv, TypeOK, ConsumeContinues, PushSink
  <2>4. CountOK(1, sinksLength', ended)
    BY <2>1, <2>3 DEF TurnInv, LengthOK, ConsumeContinues
  <2>5. ended = {} \/ \E x \in ended : ended = {x}
    OBVIOUS
  <2>6. ~(sinksLength' > 1)
    BY <2>4, <2>5 DEF CountOK
  <2>7. ret'.status = "AGAIN"
    BY <2>6 DEF ConsumeContinues, AfterConsume, Return
  <2> QED
    BY <2>2, <2>6, <2>7
<1> QED
  BY <1>1, TurnInvariant, PTL DEF Spec, SingleSinkAgainReturns
=============================================================================
