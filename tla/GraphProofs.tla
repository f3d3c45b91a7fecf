---------------------------- MODULE GraphProofs ----------------------------
(***************************************************************************)
(* Proofs about the trace processing graph (Graph.tla), for any number of  *)
(* components, ports and interrupters, and any width of the queue length:  *)
(* the steps of the configuration functions and of the run functions keep  *)
(* its inductive invariant, and what follows.                              *)
(***************************************************************************)
EXTENDS Graph, SequenceTheorems, TLAPS

---------------------------------------------------------------------------
(* Facts about sequences *)

\* The innermost frame and the frames under it, as the stack operators use them.
LEMMA FrontLast ==
    ASSUME NEW S, NEW s \in Seq(S), s /= <<>>
    PROVE  /\ Len(s) \in Nat \ {0}
           /\ Front(s) \in Seq(S)
           /\ Len(Front(s)) = Len(s) - 1
           /\ \A i \in 1..(Len(s) - 1) : Front(s)[i] = s[i]
           /\ Last(s) = s[Len(s)]
           /\ Last(s) \in S
<1>1. /\ Len(s) \in Nat \ {0}
      /\ \A i \in 1..Len(s) : s[i] \in S
  BY EmptySeq, LenProperties, ElementOfSeq
<1>2. /\ SubSeq(s, 1, Len(s) - 1) \in Seq(S)
      /\ Len(SubSeq(s, 1, Len(s) - 1)) = Len(s) - 1
      /\ \A i \in 1..(Len(s) - 1) : SubSeq(s, 1, Len(s) - 1)[i] = s[i]
  <2> DEFINE n == Len(s) - 1
  <2>1. n \in Int /\ n >= 0 /\ \A i \in 1..n : s[i] \in S
    BY <1>1
  <2> HIDE DEF n
  <2>2. /\ SubSeq(s, 1, n) \in Seq(S)
        /\ Len(SubSeq(s, 1, n)) = IF 1 <= n THEN n - 1 + 1 ELSE 0
        /\ \A i \in 1..(n - 1 + 1) : SubSeq(s, 1, n)[i] = s[1 + i - 1]
    BY <2>1, SubSeqProperties
  <2>3. /\ SubSeq(s, 1, n) \in Seq(S)
        /\ Len(SubSeq(s, 1, n)) = n
        /\ \A i \in 1..n : SubSeq(s, 1, n)[i] = s[i]
    BY <2>1, <2>2
  <2> QED
    BY <2>3 DEF n
<1> QED
  BY <1>1, <1>2 DEF Front, Last

\* Replacing the innermost frame keeps the ones under it.
LEMMA ReplaceTop ==
    ASSUME NEW S, NEW s \in Seq(S), s /= <<>>, NEW f \in S
    PROVE  /\ Append(Front(s), f) \in Seq(S)
           /\ Len(Append(Front(s), f)) = Len(s)
           /\ \A i \in 1..(Len(s) - 1) : Append(Front(s), f)[i] = s[i]
           /\ Append(Front(s), f)[Len(s)] = f
           /\ Last(Append(Front(s), f)) = f
  BY FrontLast, AppendProperties DEF Last

\* A pushed frame is the innermost one.
LEMMA PushTop ==
    ASSUME NEW S, NEW s \in Seq(S), NEW f \in S
    PROVE  /\ Append(s, f) \in Seq(S)
           /\ Append(s, f) /= <<>>
           /\ Len(Append(s, f)) = Len(s) + 1
           /\ \A i \in 1..Len(s) : Append(s, f)[i] = s[i]
           /\ Append(s, f)[Len(s) + 1] = f
           /\ Last(Append(s, f)) = f
  BY AppendProperties, LenProperties DEF Last

\* The stack with a single frame.
LEMMA SingleTop ==
    ASSUME NEW S, NEW x \in S
    PROVE  /\ Append(<<>>, x) \in Seq(S)
           /\ Len(Append(<<>>, x)) = 1 /\ DOMAIN Append(<<>>, x) = {1}
           /\ Append(<<>>, x)[1] = x /\ Last(Append(<<>>, x)) = x
           /\ Append(<<>>, x) /= <<>>
<1> DEFINE q == Append(<<>>, x)
<1>1. <<>> \in Seq(S) /\ Len(<<>>) = 0
  BY EmptySeq
<1>2. q \in Seq(S) /\ Len(q) = 0 + 1 /\ q[0 + 1] = x
  BY <1>1, AppendProperties
<1>3. Len(q) = 1 /\ q[1] = x
  BY <1>2
<1> HIDE DEF q
<1>4. DOMAIN q = 1..1
  BY <1>2, <1>3, LenProperties
<1>5. q /= <<>>
  BY <1>1, <1>3
<1>6. Last(q) = x
  BY <1>3 DEF Last
<1> QED
  BY <1>2, <1>3, <1>4, <1>5, <1>6 DEF q

\* Popping the head of a queue without duplicates removes one element.
LEMMA TailSet ==
    ASSUME NEW S, NEW s \in Seq(S), s /= <<>>,
           \A i, j \in DOMAIN s : s[i] = s[j] => i = j
    PROVE  /\ Head(s) \in Range(s)
           /\ Range(Tail(s)) = Range(s) \ {Head(s)}
           /\ \A i, j \in DOMAIN Tail(s) : Tail(s)[i] = Tail(s)[j] => i = j
<1> DEFINE t == Tail(s)
           n == Len(s)
<1>1. /\ n \in Nat \ {0} /\ DOMAIN s = 1..n /\ Head(s) = s[1]
      /\ t \in Seq(S) /\ Len(t) = n - 1 /\ \A i \in 1..Len(t) : t[i] = s[i + 1]
  BY EmptySeq, LenProperties, HeadTailProperties
<1>2. DOMAIN t = 1..(n - 1)
  BY <1>1, LenProperties
<1> HIDE DEF t, n
<1>3. Head(s) \in Range(s)
  BY <1>1 DEF Range
<1>4. ASSUME NEW i \in DOMAIN t, NEW j \in DOMAIN t, t[i] = t[j] PROVE i = j
  <2>1. i + 1 \in DOMAIN s /\ j + 1 \in DOMAIN s /\ s[i + 1] = s[j + 1]
    BY <1>1, <1>2, <1>4
  <2>2. i + 1 = j + 1 /\ i \in Nat /\ j \in Nat
    BY <1>1, <1>2, <2>1
  <2> QED
    BY <2>2
<1>5. ASSUME NEW x \in Range(t) PROVE x \in Range(s) \ {Head(s)}
  <2>1. PICK i \in 1..(n - 1) : x = t[i]
    BY <1>2, <1>5 DEF Range
  <2>2. i + 1 \in DOMAIN s /\ x = s[i + 1] /\ 1 \in DOMAIN s /\ i + 1 /= 1
    BY <1>1, <2>1
  <2> QED
    BY <1>1, <2>2, ZenonT(30) DEF Range
<1>6. ASSUME NEW x \in Range(s), x /= Head(s) PROVE x \in Range(t)
  <2>1. PICK i \in 1..n : x = s[i] /\ i /= 1
    BY <1>1, <1>6 DEF Range
  <2>2. i - 1 \in DOMAIN t /\ x = t[i - 1]
    BY <1>1, <1>2, <2>1
  <2> QED
    BY <2>2 DEF Range
<1>7. Range(t) = Range(s) \ {Head(s)}
  BY <1>5, <1>6
<1> QED
  BY <1>3, <1>4, <1>7 DEF t

\* What g_ptr_array_remove_fast() does to an array without duplicates.
LEMMA RemoveFastProperties ==
    ASSUME NEW S, NEW s \in Seq(S), NEW e, e \in Range(s),
           \A i, j \in DOMAIN s : s[i] = s[j] => i = j
    PROVE  LET r == RemoveFast(s, e)
           IN  /\ r \in Seq(S)
               /\ \A i, j \in DOMAIN r : r[i] = r[j] => i = j
               /\ Range(r) = Range(s) \ {e}
<1> DEFINE i == CHOOSE j \in DOMAIN s : s[j] = e
           t == [s EXCEPT ![i] = Last(s)]
           n == Len(s)
<1>1. DOMAIN s = 1..n /\ n \in Nat
  BY LenProperties
<1>2. i \in 1..n /\ s[i] = e /\ s /= <<>>
  BY <1>1, EmptySeq DEF Range
<1>3. Last(s) \in S /\ Last(s) = s[n]
  BY <1>2, FrontLast
<1>4. /\ t \in Seq(S) /\ Len(t) = n
      /\ \A j \in 1..n : t[j] = IF j = i THEN s[n] ELSE s[j]
  BY <1>2, <1>3, ExceptSeq
<1>5. t /= <<>>
  BY <1>2, <1>4, EmptySeq, <1>1
<1> DEFINE r == RemoveFast(s, e)
<1>6. /\ r \in Seq(S) /\ Len(r) = n - 1
      /\ \A j \in 1..(n - 1) : r[j] = t[j]
  <2>1. r = Front(t)
    BY DEF RemoveFast
  <2> HIDE DEF t, r
  <2> QED
    BY <1>4, <1>5, <2>1, FrontLast, ZenonT(30)
<1> HIDE DEF t, i, r, n
<1>7. /\ DOMAIN r = 1..(n - 1)
      /\ \A j \in 1..(n - 1) : r[j] = IF j = i THEN s[n] ELSE s[j]
  BY <1>1, <1>4, <1>6, LenProperties
<1>8. \A j, k \in DOMAIN r : r[j] = r[k] => j = k
  BY <1>1, <1>2, <1>7
<1>9. Range(r) = Range(s) \ {e}
  <2>1. ASSUME NEW x \in Range(r) PROVE x \in Range(s) \ {e}
    <3>1. PICK j \in 1..(n - 1) : x = r[j]
      BY <1>7, <2>1 DEF Range
    <3> QED
      BY <1>1, <1>2, <1>7, <3>1 DEF Range
  <2>2. ASSUME NEW x \in Range(s) \ {e} PROVE x \in Range(r)
    <3>1. PICK j \in 1..n : x = s[j] /\ j /= i
      BY <1>1, <1>2, <2>2 DEF Range
    <3>2. CASE j = n
      <4>1. i \in DOMAIN r /\ r[i] = x
        BY <1>1, <1>2, <1>7, <3>1, <3>2
      <4> QED
        BY <4>1 DEF Range
    <3>3. CASE j /= n
      <4>1. j \in DOMAIN r /\ r[j] = x
        BY <1>1, <1>2, <1>7, <3>1, <3>3
      <4> QED
        BY <4>1 DEF Range
    <3> QED
      BY <3>2, <3>3
  <2> QED
    BY <2>1, <2>2
<1> QED
  BY <1>6, <1>8, <1>9 DEF r

---------------------------------------------------------------------------
(* Facts about the frames of the stack *)

\* The fields of a frame, by the function it stands for.
LEMMA FrameFields ==
    ASSUME NEW f \in Frames
    PROVE  /\ f.fn \in {"add_component", "add_port", "upstream_port_connected",
                        "downstream_port_connected"} \cup RunFns
           /\ f.fn = "add_component" => f.comp \in Comps
           /\ f.fn \in SavingFns => f.saved \in BOOLEAN
           /\ f.fn \in {"upstream_port_connected", "downstream_port_connected"}
              => f.up \in Ports /\ f.down \in Ports
           /\ f.fn \in {"configure", "loop", "consume"}
              => f.caller \in {"run", "run_once"}
           /\ f.fn = "consume" => f.sink \in Sinks
  BY DEF Frames, RunFns, SavingFns

\* The frames the functions of the graph push.
LEMMA NewFrames ==
    /\ \A c \in Comps, b \in BOOLEAN :
          [fn |-> "add_component", comp |-> c, saved |-> b] \in Frames
    /\ \A p \in Ports : [fn |-> "add_port", port |-> p] \in Frames
    /\ \A up, down \in Ports, b \in BOOLEAN :
          [fn |-> "upstream_port_connected", up |-> up, down |-> down,
           saved |-> b] \in Frames
    /\ [fn |-> "abort"] \in Frames
    /\ \A r \in {"run", "run_once"} :
          /\ [fn |-> "loop", caller |-> r] \in Frames
          /\ [fn |-> "configure", caller |-> r] \in Frames
          /\ \A s \in Sinks :
                [fn |-> "consume", caller |-> r, sink |-> s] \in Frames
  BY DEF Frames

\* Replacing the function of a frame by the next one.
LEMMA NextFrames ==
    ASSUME NEW f \in Frames
    PROVE  /\ f.fn = "upstream_port_connected"
              => /\ [f EXCEPT !.fn = "downstream_port_connected"] \in Frames
                 /\ [f EXCEPT !.fn = "downstream_port_connected"].fn
                        = "downstream_port_connected"
                 /\ [f EXCEPT !.fn = "downstream_port_connected"].saved = f.saved
           /\ f.fn = "configure"
              => /\ [f EXCEPT !.fn = "loop"] \in Frames
                 /\ [f EXCEPT !.fn = "loop"].fn = "loop"
  BY DEF Frames

\* What a function of the graph sees of the stack when it runs.
LEMMA StackFacts ==
    ASSUME TypeOK
    PROVE  /\ Len(stack) \in Nat
           /\ DOMAIN stack = 1..Len(stack)
           /\ \A i \in 1..Len(stack) : stack[i] \in Frames
           /\ Idle <=> Len(stack) = 0
           /\ ~Idle => Top = stack[Len(stack)] /\ Top \in Frames
  BY LenProperties, ElementOfSeq, EmptySeq, FrontLast DEF TypeOK, Idle, Top

\* User code which configures the graph does not run within a run function.
LEMMA ConfiguringCalls ==
    ASSUME TypeOK, CallsOK, UserControl
    PROVE  /\ \A i \in 1..Len(stack) : stack[i].fn \notin RunFns
           /\ ~InRun /\ ConsumingSink = {}
<1>1. ~InRun /\ ConsumingSink = {} /\ (~Idle => Top.fn \notin RunFns)
  BY DEF UserControl, InRun, ConsumingSink, In, Idle, RunFns
<1>2. ASSUME NEW i \in 1..Len(stack), stack[i].fn \in RunFns PROVE FALSE
  <2>1. Len(stack) = 1 /\ i = 1
    BY <1>2, StackFacts DEF CallsOK
  <2> QED
    BY <1>1, <1>2, <2>1, StackFacts
<1> QED
  BY <1>1, <1>2

\* Pushing the frame of a configuration function.
LEMMA PushConfiguring ==
    ASSUME GraphInv, UserControl, MayConfigure, NEW f \in Frames,
           f.fn \notin RunFns, f.fn \in SavingFns => f.saved = canConsume,
           stack' = Append(stack, f), configState' = configState
    PROVE  /\ stack' \in Seq(Frames) /\ DOMAIN stack' = 1..(Len(stack) + 1)
           /\ \A i \in 1..Len(stack) : stack'[i] = stack[i]
           /\ stack'[Len(stack) + 1] = f
           /\ ConsumingSink = {} /\ ConsumingSink' = {}
           /\ ~Idle' /\ ~InRun' /\ ~In("loop")' /\ ~In("consume")'
           /\ CallsOK' /\ SavedOK'
<1>1. TypeOK /\ CallsOK /\ SavedOK /\ ExclusiveConsumption
  BY DEF GraphInv
<1>2. /\ stack' \in Seq(Frames)
      /\ stack' /= <<>> /\ Len(stack') = Len(stack) + 1
      /\ \A i \in 1..Len(stack) : stack'[i] = stack[i]
      /\ stack'[Len(stack) + 1] = f
      /\ Last(stack') = f
  BY <1>1, PushTop, SMTT(30) DEF TypeOK
<1>3. DOMAIN stack' = 1..(Len(stack) + 1)
  BY <1>2, LenProperties
<1>4. /\ \A i \in 1..Len(stack) : stack[i].fn \notin RunFns
      /\ ConsumingSink = {}
  BY <1>1, ConfiguringCalls
<1>5. /\ ~InRun' /\ ~Idle' /\ ConsumingSink' = {}
      /\ ~In("configure")' /\ ~In("loop")' /\ ~In("consume")'
  BY <1>2 DEF InRun, In, Top, Idle, ConsumingSink, RunFns
<1>6. CallsOK'
  BY <1>1, <1>2, <1>3, <1>4, <1>5, StackFacts DEF CallsOK, MayConfigure
<1>7. SavedOK'
  BY <1>1, <1>2, <1>3, StackFacts DEF SavedOK, ExclusiveConsumption
<1> QED
  BY <1>2, <1>3, <1>4, <1>5, <1>6, <1>7

\* Returning from a configuration function.
LEMMA PopConfiguring ==
    ASSUME GraphInv, ~Idle, Top.fn \notin RunFns, Pop,
           configState' = configState \/ MakeFaulty
    PROVE  /\ stack' \in Seq(Frames) /\ DOMAIN stack' = 1..(Len(stack) - 1)
           /\ \A i \in 1..(Len(stack) - 1) : stack'[i] = stack[i]
           /\ ConsumingSink = {} /\ ConsumingSink' = {}
           /\ ~InRun' /\ ~In("loop")' /\ ~In("consume")'
           /\ CallsOK' /\ SavedOK'
           /\ configState \notin {"PARTIALLY_CONFIGURED", "CONFIGURED"}
           /\ Top.fn \in SavingFns /\ Top.saved => Idle'
<1>1. TypeOK /\ CallsOK /\ SavedOK
  BY DEF GraphInv
<1>2. /\ Len(stack) \in Nat \ {0}
      /\ stack' \in Seq(Frames) /\ Len(stack') = Len(stack) - 1
      /\ \A i \in 1..(Len(stack) - 1) : stack'[i] = stack[i]
      /\ Top = stack[Len(stack)]
  BY <1>1, FrontLast, ZenonT(30) DEF TypeOK, Pop, Top, Idle
<1>3. /\ DOMAIN stack' = 1..(Len(stack) - 1)
      /\ DOMAIN stack = 1..Len(stack)
  BY <1>1, <1>2, LenProperties DEF TypeOK
<1>4. \A i \in 1..Len(stack) : stack[i].fn \notin RunFns
  BY <1>1, <1>2, <1>3 DEF CallsOK
<1>5. configState \notin {"PARTIALLY_CONFIGURED", "CONFIGURED"}
  BY <1>1, <1>2, <1>3 DEF CallsOK
<1>6. Idle' \/ Top'.fn \notin RunFns
  <2>1. ASSUME ~Idle' PROVE Top' = stack'[Len(stack')] /\ Len(stack') \in Nat \ {0}
    BY <1>2, <2>1, FrontLast, ZenonT(30) DEF Idle, Top
  <2> QED
    BY <1>2, <1>4, <2>1
<1>7. /\ ConsumingSink = {} /\ ConsumingSink' = {}
      /\ ~InRun' /\ ~In("configure")' /\ ~In("loop")' /\ ~In("consume")'
  BY <1>6 DEF ConsumingSink, InRun, In, Idle, RunFns
<1>8. CallsOK'
  BY <1>1, <1>2, <1>3, <1>4, <1>5, <1>7 DEF CallsOK, MakeFaulty
<1>9. SavedOK'
  BY <1>1, <1>2, <1>3 DEF SavedOK
<1>10. Top.fn \in SavingFns /\ Top.saved => Idle'
  <2>1. Top.fn \in SavingFns /\ Top.saved => Len(stack) = 1
    BY <1>1, <1>2, <1>3 DEF SavedOK
  <2> QED
    BY <1>2, <2>1, EmptySeq DEF Idle
<1> QED
  BY <1>2, <1>3, <1>5, <1>7, <1>8, <1>9, <1>10

\* g_queue_push_tail() of a sink which is not in the queue.
LEMMA PushSinkProperties ==
    ASSUME TypeOK, NEW s \in Sinks, s \notin Range(sinks), PushSink(s),
           \A i, j \in DOMAIN sinks : sinks[i] = sinks[j] => i = j
    PROVE  /\ sinks' \in Seq(Sinks)
           /\ sinksLength' \in 0..(GuintModulus - 1)
           /\ Range(sinks') = Range(sinks) \cup {s}
           /\ \A i, j \in DOMAIN sinks' : sinks'[i] = sinks'[j] => i = j
<1>1. sinksLength' \in 0..(GuintModulus - 1)
  BY GraphAssumption DEF TypeOK, PushSink, Inc
<1>2. /\ sinks' \in Seq(Sinks) /\ Len(sinks') = Len(sinks) + 1
      /\ \A i \in 1..Len(sinks) : sinks'[i] = sinks[i]
      /\ sinks'[Len(sinks) + 1] = s
  BY AppendProperties DEF TypeOK, PushSink
<1>3. /\ Len(sinks) \in Nat /\ DOMAIN sinks = 1..Len(sinks)
      /\ DOMAIN sinks' = 1..(Len(sinks) + 1)
  BY <1>2, LenProperties DEF TypeOK
<1>4. Range(sinks') = Range(sinks) \cup {s}
  BY <1>2, <1>3 DEF Range
<1>5. \A i, j \in DOMAIN sinks' : sinks'[i] = sinks'[j] => i = j
  BY <1>2, <1>3 DEF Range
<1> QED
  BY <1>1, <1>2, <1>4, <1>5

---------------------------------------------------------------------------
(* Every step preserves the inductive invariant *)

\* The inductive invariant holds of the graph that bt_graph_create() returns.
LEMMA GraphInit == Init => GraphInv
<1> SUFFICES ASSUME Init PROVE GraphInv
  OBVIOUS
<1> USE DEF Init
<1>1. TypeOK
  <2>1. <<>> \in Seq(Comps) /\ <<>> \in Seq(Sinks) /\ <<>> \in Seq(Frames)
    BY EmptySeq
  <2>2. 0 \in 0..(GuintModulus - 1) /\ {DefaultInterrupter} \subseteq Interrupters
    BY GraphAssumption
  <2>3. isSet \in [Interrupters -> BOOLEAN] /\ since \in [Sinks -> SUBSET Sinks]
    OBVIOUS
  <2>4. ret \in [fn : {"none", "run", "run_once"},
                 status : {"OK", "END", "AGAIN", "ERROR"}, interrupted : BOOLEAN]
    BY DEF NoReturn
  <2> QED
    BY <2>1, <2>2, <2>3, <2>4, ZenonT(30) DEF TypeOK, ConfigStates
<1>2. DOMAIN stack = {} /\ Range(sinks) = {} /\ Range(components) = {}
  BY DEF Range
<1>3. Idle /\ ~InRun /\ ~In("configure") /\ ~In("loop") /\ ~In("consume")
  BY DEF Idle, In, InRun
<1>4. CallsOK /\ SavedOK /\ ComponentsOK
  BY <1>2, <1>3 DEF CallsOK, SavedOK, ComponentsOK
<1>5. ReturnOK /\ EndMeansAllSinksEnded /\ ExclusiveConsumption
  BY <1>3 DEF ReturnOK, EndMeansAllSinksEnded, NoReturn, ExclusiveConsumption
<1>6. NoSinkLost /\ ConfiguredOK /\ ConsumeOnlyConfigured
  BY <1>2, <1>3, SMTT(30) DEF NoSinkLost, ConsumingSink, ConsumeOnlyConfigured, ConfiguredOK
<1> QED
  BY <1>1, <1>4, <1>5, <1>6 DEF GraphInv

\* add_component_with_init_method_data() up to the initialization method.
LEMMA AddComponentStep ==
    ASSUME GraphInv, NEW c \in Comps, AddComponent(c)
    PROVE  GraphInv'
<1> DEFINE f == [fn |-> "add_component", comp |-> c, saved |-> canConsume]
<1>1. TypeOK /\ f \in Frames
  BY NewFrames DEF GraphInv, TypeOK
<1>2. /\ components' \in Seq(Comps)
      /\ Len(components') = Len(components) + 1
      /\ \A i \in 1..Len(components) : components'[i] = components[i]
      /\ components'[Len(components) + 1] = c
      /\ c \notin Range(components)
  BY <1>1, AppendProperties, SMTT(30) DEF TypeOK, AddComponent
<1>3. /\ Len(components) \in Nat /\ DOMAIN components = 1..Len(components)
      /\ DOMAIN components' = 1..(Len(components) + 1)
  BY <1>1, <1>2, LenProperties DEF TypeOK
<1>4. Range(components') = Range(components) \cup {c}
  BY <1>2, <1>3 DEF Range
<1>5. /\ stack' \in Seq(Frames) /\ DOMAIN stack' = 1..(Len(stack) + 1)
      /\ \A i \in 1..Len(stack) : stack'[i] = stack[i]
      /\ stack'[Len(stack) + 1] = f
      /\ ConsumingSink = {} /\ ConsumingSink' = {}
      /\ ~Idle' /\ ~InRun' /\ ~In("loop")' /\ ~In("consume")'
      /\ CallsOK' /\ SavedOK'
  BY <1>1, PushConfiguring, SMTT(30) DEF AddComponent, Push, RunFns, SavingFns
<1>6. TypeOK'
  BY <1>1, <1>2, <1>5, ZenonT(30) DEF TypeOK, AddComponent, runVars, intrVars
<1>7. ComponentsOK'
  <2>1. \A i, j \in DOMAIN components' : components'[i] = components'[j] => i = j
    BY <1>2, <1>3 DEF GraphInv, ComponentsOK, Range
  <2>2. initialized' \subseteq Range(components') /\ ended' \subseteq initialized'
    BY <1>4, SMTT(30) DEF GraphInv, ComponentsOK, AddComponent, runVars
  <2>3. \A i \in DOMAIN stack' :
          BeingAdded(i)' => stack'[i].comp \in Range(components') \ initialized'
    BY <1>1, <1>2, <1>4, <1>5, StackFacts, SMTT(30)
    DEF GraphInv, ComponentsOK, BeingAdded, AddComponent
  <2>4. \A i, j \in DOMAIN stack' :
          BeingAdded(i)' /\ BeingAdded(j)' /\ stack'[i].comp = stack'[j].comp
          => i = j
    BY <1>1, <1>2, <1>4, <1>5, StackFacts, SMTT(30) DEF GraphInv, ComponentsOK, BeingAdded
  <2> QED
    BY <2>1, <2>2, <2>3, <2>4 DEF ComponentsOK
<1>8. ReturnOK' /\ EndMeansAllSinksEnded' /\ ExclusiveConsumption'
  BY <1>5, SMTT(30) DEF GraphInv, ReturnOK, EndMeansAllSinksEnded, ExclusiveConsumption,
              AddComponent, runVars
<1>9. NoSinkLost' /\ ConfiguredOK' /\ ConsumeOnlyConfigured'
  BY <1>5 DEF GraphInv, NoSinkLost, ConsumeOnlyConfigured, ConfiguredOK, AddComponent,
              MayConfigure, runVars
<1> QED
  BY <1>5, <1>6, <1>7, <1>8, <1>9, SMTT(30) DEF GraphInv

\* The initialization method of a component succeeded.
LEMMA AddComponentOkStep ==
    ASSUME GraphInv, AddComponentOk
    PROVE  GraphInv'
<1> DEFINE c == Top.comp
<1>1. /\ TypeOK /\ ~Idle /\ Top.fn = "add_component" /\ Top.fn \in SavingFns
      /\ Top.fn \notin RunFns
  BY DEF GraphInv, AddComponentOk, In, Idle, SavingFns, RunFns
<1>2. /\ Top = stack[Len(stack)] /\ Len(stack) \in Nat \ {0}
      /\ DOMAIN stack = 1..Len(stack)
      /\ c \in Comps /\ Top.saved \in BOOLEAN
  BY <1>1, StackFacts, FrameFields, SMTT(30)
<1>3. /\ stack' \in Seq(Frames) /\ DOMAIN stack' = 1..(Len(stack) - 1)
      /\ \A i \in 1..(Len(stack) - 1) : stack'[i] = stack[i]
      /\ ConsumingSink = {} /\ ConsumingSink' = {}
      /\ ~InRun' /\ ~In("loop")' /\ ~In("consume")'
      /\ CallsOK' /\ SavedOK'
      /\ configState \notin {"PARTIALLY_CONFIGURED", "CONFIGURED"}
      /\ Top.saved => Idle'
  BY <1>1, PopConfiguring DEF AddComponentOk
<1>4. c \in Range(components) /\ c \notin initialized
  BY <1>1, <1>2, SMTT(30) DEF GraphInv, ComponentsOK, BeingAdded
<1>5. initialized' = initialized \cup {c} /\ c \notin ended
  BY <1>4 DEF AddComponentOk, GraphInv, ComponentsOK
<1>6. /\ sinks' \in Seq(Sinks) /\ sinksLength' \in 0..(GuintModulus - 1)
      /\ hasSink' \in BOOLEAN /\ NoSinkLost'
  <2>1. CASE c \in Sinks
    <3>1. PushSink(c) /\ hasSink' = TRUE /\ ended' = ended
      BY <2>1 DEF AddComponentOk
    <3>2. /\ c \notin Range(sinks) /\ Range(sinks) = (initialized \cap Sinks) \ ended
          /\ \A i, j \in DOMAIN sinks : sinks[i] = sinks[j] => i = j
      BY <1>3, <1>4 DEF GraphInv, NoSinkLost
    <3>3. /\ sinks' \in Seq(Sinks) /\ sinksLength' \in 0..(GuintModulus - 1)
          /\ Range(sinks') = Range(sinks) \cup {c}
          /\ \A i, j \in DOMAIN sinks' : sinks'[i] = sinks'[j] => i = j
      BY <1>1, <2>1, <3>1, <3>2, PushSinkProperties, SMTT(30)
    <3> QED
      BY <1>3, <1>5, <2>1, <3>1, <3>2, <3>3 DEF NoSinkLost
  <2>2. CASE c \notin Sinks
    BY <1>1, <1>3, <1>5, <2>2, SMTT(30) DEF AddComponentOk, GraphInv, TypeOK, NoSinkLost
  <2> QED
    BY <2>1, <2>2, SMTT(30)
<1>7. TypeOK'
  BY <1>1, <1>2, <1>3, <1>5, <1>6, ZenonT(30) DEF TypeOK, AddComponentOk, RestoreCanConsume, intrVars
<1>8. ComponentsOK'
  <2>1. \A i \in 1..(Len(stack) - 1) : BeingAdded(i) => stack[i].comp /= c
    BY <1>1, <1>2, SMTT(30) DEF GraphInv, ComponentsOK, BeingAdded
  <2> QED
    BY <1>2, <1>3, <1>4, <1>5, <2>1, SMTT(30)
    DEF GraphInv, ComponentsOK, BeingAdded, AddComponentOk
<1>9. ReturnOK' /\ EndMeansAllSinksEnded'
  BY <1>1, <1>3, ZenonT(30) DEF GraphInv, ReturnOK, EndMeansAllSinksEnded, AddComponentOk
<1>10. ExclusiveConsumption' /\ ConfiguredOK' /\ ConsumeOnlyConfigured'
  BY <1>3, SMTT(30) DEF ExclusiveConsumption, ConsumeOnlyConfigured, ConfiguredOK,
              AddComponentOk, RestoreCanConsume
<1> QED
  BY <1>3, <1>6, <1>7, <1>8, <1>9, <1>10 DEF GraphInv

\* The initialization method of a component failed.
LEMMA AddComponentFailedStep ==
    ASSUME GraphInv, AddComponentFailed
    PROVE  GraphInv'
<1> DEFINE c == Top.comp
<1>1. /\ TypeOK /\ ~Idle /\ Top.fn = "add_component" /\ Top.fn \in SavingFns
      /\ Top.fn \notin RunFns
  BY SMTT(30) DEF GraphInv, AddComponentFailed, In, Idle, SavingFns, RunFns
<1>2. /\ Top = stack[Len(stack)] /\ Len(stack) \in Nat \ {0}
      /\ DOMAIN stack = 1..Len(stack)
      /\ c \in Comps /\ Top.saved \in BOOLEAN
  BY <1>1, StackFacts, FrameFields
<1>3. /\ stack' \in Seq(Frames) /\ DOMAIN stack' = 1..(Len(stack) - 1)
      /\ \A i \in 1..(Len(stack) - 1) : stack'[i] = stack[i]
      /\ ConsumingSink = {} /\ ConsumingSink' = {}
      /\ ~InRun' /\ ~In("loop")' /\ ~In("consume")'
      /\ CallsOK' /\ SavedOK'
      /\ configState \notin {"PARTIALLY_CONFIGURED", "CONFIGURED"}
      /\ Top.saved => Idle'
  BY <1>1, PopConfiguring, SMTT(30) DEF AddComponentFailed
<1>4. /\ c \in Range(components) /\ c \notin initialized
      /\ \A i, j \in DOMAIN components : components[i] = components[j] => i = j
  BY <1>1, <1>2, SMTT(30) DEF GraphInv, ComponentsOK, BeingAdded
<1>5. /\ components' \in Seq(Comps)
      /\ \A i, j \in DOMAIN components' : components'[i] = components'[j] => i = j
      /\ Range(components') = Range(components) \ {c}
  BY <1>1, <1>4, RemoveFastProperties, SMTT(30) DEF TypeOK, AddComponentFailed
<1>6. TypeOK'
  BY <1>1, <1>2, <1>3, <1>5, SMTT(30)
  DEF TypeOK, AddComponentFailed, RestoreCanConsume, MakeFaulty, ConfigStates,
      runVars, intrVars
<1>7. ComponentsOK'
  <2>1. \A i \in 1..(Len(stack) - 1) : BeingAdded(i) => stack[i].comp /= c
    BY <1>1, <1>2 DEF GraphInv, ComponentsOK, BeingAdded
  <2> QED
    BY <1>2, <1>3, <1>4, <1>5, <2>1, SMTT(30)
    DEF GraphInv, ComponentsOK, BeingAdded, AddComponentFailed, runVars
<1>8. ReturnOK' /\ EndMeansAllSinksEnded'
  BY <1>3, ZenonT(30) DEF GraphInv, ReturnOK, EndMeansAllSinksEnded, AddComponentFailed, runVars
<1>9. ExclusiveConsumption' /\ ConfiguredOK' /\ ConsumeOnlyConfigured'
  BY <1>3, ZenonT(30) DEF ExclusiveConsumption, ConsumeOnlyConfigured, ConfiguredOK,
              AddComponentFailed, RestoreCanConsume, MakeFaulty
<1>10. NoSinkLost'
  BY <1>3, ZenonT(30) DEF GraphInv, NoSinkLost, AddComponentFailed, runVars
<1> QED
  BY <1>3, <1>6, <1>7, <1>8, <1>9, <1>10, SMTT(30) DEF GraphInv

\* Memory errors of the configuration functions leave a faulty graph.
LEMMA MemoryErrorStep ==
    ASSUME GraphInv, UserControl, MayConfigure, MakeFaulty,
           UNCHANGED <<confVars, canConsume, runVars, intrVars, stack, ret>>
    PROVE  GraphInv'
<1>1. ~InRun /\ ret.fn = "none"
  BY ConfiguringCalls DEF GraphInv, ReturnOK, MayConfigure
<1>2. /\ ~In("configure") /\ ~In("loop") /\ ~In("consume")
  BY <1>1 DEF InRun
<1> USE DEF confVars, runVars, intrVars, MakeFaulty
<1>3. TypeOK'
  BY SMTT(30) DEF GraphInv, TypeOK, ConfigStates
<1>4. CallsOK' /\ SavedOK' /\ ComponentsOK'
  BY <1>2 DEF GraphInv, CallsOK, SavedOK, ComponentsOK, BeingAdded, In, Top
<1>5. ReturnOK' /\ EndMeansAllSinksEnded' /\ ExclusiveConsumption'
  BY <1>1, SMTT(30) DEF GraphInv, ReturnOK, EndMeansAllSinksEnded, ExclusiveConsumption, Idle,
              InRun, In, Top
<1>6. NoSinkLost' /\ ConfiguredOK' /\ ConsumeOnlyConfigured'
  BY <1>2, SMTT(30) DEF GraphInv, NoSinkLost, ConsumingSink, ConsumeOnlyConfigured, ConfiguredOK, In, Top
<1> QED
  BY <1>3, <1>4, <1>5, <1>6 DEF GraphInv

\* add_port() up to the "port added" listeners.
LEMMA AddPortStep ==
    ASSUME GraphInv, NEW p \in Ports, AddPort(p)
    PROVE  GraphInv'
<1> DEFINE f == [fn |-> "add_port", port |-> p]
<1>1. TypeOK /\ f \in Frames
  BY NewFrames DEF GraphInv
<1>2. UserControl /\ ~Idle
  BY SMTT(30) DEF AddPort, RunningComp, UserControl, In, Idle
<1>3. /\ stack' \in Seq(Frames) /\ DOMAIN stack' = 1..(Len(stack) + 1)
      /\ \A i \in 1..Len(stack) : stack'[i] = stack[i]
      /\ stack'[Len(stack) + 1] = f
      /\ ConsumingSink = {} /\ ConsumingSink' = {}
      /\ ~Idle' /\ ~InRun' /\ ~In("loop")' /\ ~In("consume")'
      /\ CallsOK' /\ SavedOK'
  BY <1>1, <1>2, PushConfiguring, SMTT(30) DEF AddPort, Push, RunFns, SavingFns
<1>4. TypeOK'
  BY <1>1, <1>3, SMTT(30) DEF TypeOK, AddPort, runVars, intrVars
<1>5. ComponentsOK'
  BY <1>1, <1>3, StackFacts, SMTT(30) DEF GraphInv, ComponentsOK, BeingAdded, AddPort, runVars
<1>6. ReturnOK' /\ EndMeansAllSinksEnded' /\ ExclusiveConsumption'
  BY <1>2, <1>3, ZenonT(30) DEF GraphInv, ReturnOK, EndMeansAllSinksEnded, ExclusiveConsumption,
                    AddPort, runVars
<1>7. NoSinkLost' /\ ConfiguredOK' /\ ConsumeOnlyConfigured'
  BY <1>3, ZenonT(30) DEF GraphInv, NoSinkLost, ConsumeOnlyConfigured, ConfiguredOK, AddPort,
              MayConfigure, runVars
<1> QED
  BY <1>3, <1>4, <1>5, <1>6, <1>7, SMTT(30) DEF GraphInv

\* Returning from add_port(), whatever the listeners returned.
LEMMA AddPortReturnStep ==
    ASSUME GraphInv, AddPortOk \/ AddPortFailed
    PROVE  GraphInv'
<1>1. /\ TypeOK /\ ~Idle /\ Top.fn = "add_port" /\ Top.fn \notin RunFns
  BY SMTT(30) DEF GraphInv, AddPortOk, AddPortFailed, In, Idle, RunFns
<1>2. /\ stack' \in Seq(Frames) /\ DOMAIN stack' = 1..(Len(stack) - 1)
      /\ \A i \in 1..(Len(stack) - 1) : stack'[i] = stack[i]
      /\ ConsumingSink = {} /\ ConsumingSink' = {}
      /\ ~InRun' /\ ~In("loop")' /\ ~In("consume")'
      /\ CallsOK' /\ SavedOK'
      /\ configState \notin {"PARTIALLY_CONFIGURED", "CONFIGURED"}
  BY <1>1, PopConfiguring, ZenonT(30) DEF AddPortOk, AddPortFailed
<1>3. /\ configState' \in {configState, "FAULTY"}
      /\ UNCHANGED <<confVars, canConsume, runVars, intrVars, ret>>
  BY SMTT(30) DEF AddPortOk, AddPortFailed, MakeFaulty
<1> USE <1>3 DEF confVars, runVars, intrVars
<1>4. TypeOK'
  BY <1>1, <1>2, SMTT(30) DEF TypeOK, ConfigStates
<1>5. ComponentsOK'
  BY <1>1, <1>2, StackFacts, SMTT(30) DEF GraphInv, ComponentsOK, BeingAdded
<1>6. ReturnOK' /\ EndMeansAllSinksEnded' /\ ExclusiveConsumption'
  BY <1>1, <1>2, ZenonT(30) DEF GraphInv, ReturnOK, EndMeansAllSinksEnded, ExclusiveConsumption
<1>7. NoSinkLost' /\ ConfiguredOK' /\ ConsumeOnlyConfigured'
  BY <1>2, ZenonT(30) DEF GraphInv, NoSinkLost, ConsumeOnlyConfigured, ConfiguredOK
<1> QED
  BY <1>2, <1>4, <1>5, <1>6, <1>7, ZenonT(30) DEF GraphInv

\* bt_graph_connect_ports() up to the upstream "port connected" method.
LEMMA ConnectPortsStep ==
    ASSUME GraphInv, NEW up \in ports, NEW down \in ports, ConnectPorts(up, down)
    PROVE  GraphInv'
<1> DEFINE f == [fn |-> "upstream_port_connected", up |-> up, down |-> down,
                 saved |-> canConsume]
<1>1. TypeOK /\ up \in Ports /\ down \in Ports /\ f \in Frames
  BY NewFrames, ZenonT(30) DEF GraphInv, TypeOK
<1>2. /\ stack' \in Seq(Frames) /\ DOMAIN stack' = 1..(Len(stack) + 1)
      /\ \A i \in 1..Len(stack) : stack'[i] = stack[i]
      /\ stack'[Len(stack) + 1] = f
      /\ ConsumingSink = {} /\ ConsumingSink' = {}
      /\ ~Idle' /\ ~InRun' /\ ~In("loop")' /\ ~In("consume")'
      /\ CallsOK' /\ SavedOK'
  BY <1>1, PushConfiguring, SMTT(30) DEF ConnectPorts, Push, RunFns, SavingFns
<1>3. TypeOK'
  <2>1. conns' \subseteq Ports \X Ports
    BY <1>1, SMTT(30) DEF TypeOK, ConnectPorts
  <2> QED
    BY <1>1, <1>2, <2>1, ZenonT(30) DEF TypeOK, ConnectPorts, runVars, intrVars
<1>4. ComponentsOK'
  <2>1. ComponentsOK /\ UNCHANGED <<components, initialized, ended>>
    BY SMTT(30) DEF GraphInv, ConnectPorts, runVars
  <2>2. Len(stack) \in Nat /\ DOMAIN stack = 1..Len(stack) /\ f.fn /= "add_component"
    BY <1>1, StackFacts, SMTT(30)
  <2>3. \A i \in DOMAIN stack' :
            BeingAdded(i)' => i \in DOMAIN stack /\ BeingAdded(i) /\ stack'[i] = stack[i]
    <3>1. PICK n \in Nat : /\ n = Len(stack) /\ DOMAIN stack = 1..n /\ DOMAIN stack' = 1..(n + 1)
                           /\ \A i \in 1..n : stack'[i] = stack[i]
                           /\ stack'[n + 1].fn /= "add_component"
      BY <1>2, <2>2, ZenonT(30)
    <3>2. ASSUME NEW i \in 1..(n + 1), stack'[i].fn = "add_component"
          PROVE  i \in 1..n
      BY <3>1, <3>2
    <3> QED
      BY <3>1, <3>2, ZenonT(30) DEF BeingAdded
  <2> QED
    BY <2>1, <2>3, SMTT(30) DEF ComponentsOK
<1>5. ReturnOK' /\ EndMeansAllSinksEnded' /\ ExclusiveConsumption'
  BY <1>2, ZenonT(30) DEF GraphInv, ReturnOK, EndMeansAllSinksEnded, ExclusiveConsumption,
              ConnectPorts, runVars
<1>6. NoSinkLost' /\ ConfiguredOK' /\ ConsumeOnlyConfigured'
  BY <1>2, ZenonT(30) DEF GraphInv, NoSinkLost, ConsumeOnlyConfigured, ConfiguredOK, ConnectPorts,
              MayConfigure, runVars
<1> QED
  BY <1>2, <1>3, <1>4, <1>5, <1>6, SMTT(30) DEF GraphInv

\* The upstream component accepted the connection.
LEMMA UpstreamPortConnectedStep ==
    ASSUME GraphInv, UpstreamPortConnectedOk
    PROVE  GraphInv'
<1> DEFINE f == [Top EXCEPT !.fn = "downstream_port_connected"]
<1>1. /\ TypeOK /\ stack /= <<>> /\ ~Idle /\ Top.fn = "upstream_port_connected"
      /\ stack \in Seq(Frames) /\ stack' = Append(Front(stack), f)
  BY DEF GraphInv, TypeOK, UpstreamPortConnectedOk, In, Idle, Replace
<1>2. /\ Top \in Frames /\ Top = stack[Len(stack)] /\ Len(stack) \in Nat \ {0}
      /\ DOMAIN stack = 1..Len(stack)
  BY <1>1, StackFacts
<1>3. /\ f \in Frames /\ f.fn = "downstream_port_connected" /\ f.saved = Top.saved
  BY <1>1, <1>2, NextFrames, ZenonT(30)
<1> HIDE DEF f
<1>4. /\ stack' \in Seq(Frames) /\ Len(stack') = Len(stack)
      /\ \A i \in 1..(Len(stack) - 1) : stack'[i] = stack[i]
      /\ stack'[Len(stack)] = f
      /\ Last(stack') = f
  BY <1>1, <1>3, ReplaceTop
<1>5. DOMAIN stack' = 1..Len(stack) /\ stack' /= <<>>
  BY <1>2, <1>4, LenProperties, EmptySeq
<1>6. /\ \A i \in 1..Len(stack) : stack[i].fn \notin RunFns
      /\ ~InRun /\ ConsumingSink = {}
  BY <1>1, ConfiguringCalls DEF GraphInv, UserControl, In
<1>7. /\ ~InRun' /\ ~Idle' /\ ConsumingSink' = {}
      /\ ~In("configure")' /\ ~In("loop")' /\ ~In("consume")'
  BY <1>3, <1>4, <1>5 DEF InRun, In, Top, Idle, ConsumingSink
<1>8. UNCHANGED <<configState, confVars, canConsume, runVars, intrVars, ret>>
  BY SMTT(30) DEF UpstreamPortConnectedOk
<1> USE <1>8 DEF confVars, runVars, intrVars
<1>9. TypeOK'
  BY <1>1, <1>4, SMTT(30) DEF TypeOK
<1>10. CallsOK'
  BY <1>2, <1>3, <1>4, <1>5, <1>6, <1>7, SMTT(30) DEF GraphInv, CallsOK, RunFns
<1>11. SavedOK'
  <2>1. Len(stack) > 1 => ~Top.saved
    BY <1>1, <1>2, SMTT(30) DEF GraphInv, SavedOK, SavingFns
  <2>2. \A i \in 1..(Len(stack) - 1) :
          i > 1 /\ stack'[i].fn \in SavingFns => ~stack'[i].saved
    BY <1>2, <1>4 DEF GraphInv, SavedOK
  <2>3. Len(stack) > 1 => ~stack'[Len(stack)].saved
    BY <1>3, <1>4, <2>1, ZenonT(30)
  <2>4. ASSUME NEW i \in DOMAIN stack' PROVE i \in 1..(Len(stack) - 1) \/ i = Len(stack)
    BY <1>2, <1>5, SMTT(30)
  <2> QED
    BY <1>5, <2>2, <2>3, <2>4, SMTT(30) DEF SavedOK
<1>12. ComponentsOK'
  <2>1. \A i \in DOMAIN stack' :
          BeingAdded(i)' => BeingAdded(i) /\ stack'[i] = stack[i]
    BY <1>2, <1>3, <1>4, <1>5, SMTT(30) DEF BeingAdded
  <2> QED
    BY <1>2, <1>5, <2>1, SMTT(30) DEF GraphInv, ComponentsOK
<1>13. ReturnOK' /\ EndMeansAllSinksEnded' /\ ExclusiveConsumption'
  BY <1>1, <1>7, SMTT(30) DEF GraphInv, ReturnOK, EndMeansAllSinksEnded, ExclusiveConsumption
<1>14. NoSinkLost' /\ ConfiguredOK' /\ ConsumeOnlyConfigured'
  BY <1>6, <1>7, SMTT(30) DEF GraphInv, NoSinkLost, ConsumeOnlyConfigured, ConfiguredOK
<1> QED
  BY <1>9, <1>10, <1>11, <1>12, <1>13, <1>14, SMTT(30) DEF GraphInv

\* Returning from bt_graph_connect_ports(), with a connection or without.
LEMMA ConnectPortsReturnStep ==
    ASSUME GraphInv, DownstreamPortConnectedOk \/ PortConnectedFailed
    PROVE  GraphInv'
<1>1. /\ TypeOK /\ ~Idle /\ Top.fn \in SavingFns /\ Top.fn \notin RunFns
      /\ Top.fn \in {"upstream_port_connected", "downstream_port_connected"}
  BY SMTT(30) DEF GraphInv, DownstreamPortConnectedOk, PortConnectedFailed, In, Idle,
         RunFns, SavingFns
<1>2. Top.saved \in BOOLEAN
  BY <1>1, StackFacts, FrameFields, SMTT(30)
<1>3. /\ stack' \in Seq(Frames) /\ DOMAIN stack' = 1..(Len(stack) - 1)
      /\ \A i \in 1..(Len(stack) - 1) : stack'[i] = stack[i]
      /\ ConsumingSink = {} /\ ConsumingSink' = {}
      /\ ~InRun' /\ ~In("loop")' /\ ~In("consume")'
      /\ CallsOK' /\ SavedOK'
      /\ configState \notin {"PARTIALLY_CONFIGURED", "CONFIGURED"}
      /\ Top.saved => Idle'
  BY <1>1, PopConfiguring DEF DownstreamPortConnectedOk, PortConnectedFailed
<1>4. /\ configState' \in {configState, "FAULTY"} /\ canConsume' = Top.saved
      /\ conns' \subseteq conns
      /\ UNCHANGED <<components, initialized, ports, hasSink, runVars, intrVars, ret>>
  BY SMTT(30) DEF DownstreamPortConnectedOk, PortConnectedFailed, MakeFaulty,
         RestoreCanConsume, confVars
<1> USE <1>4 DEF runVars, intrVars
<1>5. TypeOK'
  BY <1>1, <1>2, <1>3, SMTT(30) DEF TypeOK, ConfigStates
<1>6. ComponentsOK'
  BY <1>1, <1>3, StackFacts, SMTT(30) DEF GraphInv, ComponentsOK, BeingAdded
<1>7. ReturnOK' /\ EndMeansAllSinksEnded' /\ ExclusiveConsumption'
  BY <1>3, ZenonT(30) DEF GraphInv, ReturnOK, EndMeansAllSinksEnded, ExclusiveConsumption
<1>8. NoSinkLost' /\ ConfiguredOK' /\ ConsumeOnlyConfigured'
  BY <1>3, ZenonT(30) DEF GraphInv, NoSinkLost, ConsumeOnlyConfigured, ConfiguredOK
<1> QED
  BY <1>3, <1>5, <1>6, <1>7, <1>8, SMTT(30) DEF GraphInv

---------------------------------------------------------------------------
(* The run functions *)

\* The stack of a run function in progress holds its only frame.
LEMMA RunningCalls ==
    ASSUME GraphInv, ~Idle, Top.fn \in RunFns
    PROVE  /\ Len(stack) = 1 /\ DOMAIN stack = {1} /\ stack[1] = Top
           /\ Top \in Frames /\ Front(stack) = <<>> /\ ~canConsume
<1>1. TypeOK /\ CallsOK /\ ExclusiveConsumption
  BY DEF GraphInv
<1>2. Len(stack) = 1 /\ Top = stack[1] /\ Top \in Frames /\ DOMAIN stack = 1..1
  BY <1>1, StackFacts DEF CallsOK
<1>3. Front(stack) = <<>>
  <2>1. Front(stack) \in Seq(Frames) /\ Len(Front(stack)) = 0
    <3>1. stack \in Seq(Frames) /\ stack /= <<>>
      BY <1>1 DEF TypeOK, Idle
    <3>2. Front(stack) \in Seq(Frames) /\ Len(Front(stack)) = Len(stack) - 1
      BY <3>1, FrontLast
    <3> QED
      BY <1>2, <3>2
  <2> QED
    BY <2>1, EmptySeq
<1> QED
  BY <1>1, <1>2, <1>3 DEF ExclusiveConsumption

\* What a run function which leaves one frame f on the stack has to keep.
LEMMA OneFrame ==
    ASSUME TypeOK, NEW f \in Frames, stack' = Append(<<>>, f)
    PROVE  /\ stack' \in Seq(Frames) /\ Len(stack') = 1 /\ DOMAIN stack' = {1}
           /\ stack'[1] = f /\ Top' = f /\ ~Idle'
<1>1. /\ stack' \in Seq(Frames) /\ Len(stack') = 1 /\ DOMAIN stack' = {1}
      /\ stack'[1] = f /\ Last(stack') = f /\ stack' /= <<>>
  BY SingleTop
<1> QED
  BY <1>1 DEF Top, Idle

\* A step of a run function which keeps the topology: it is enough to look at
\* the frame it leaves.
LEMMA RunStepInv ==
    ASSUME GraphInv, UNCHANGED <<confVars, intrVars>>,
           TypeOK',
           ret'.fn /= "none"
             => configState' \in {"PARTIALLY_CONFIGURED", "CONFIGURED"},
           NEW f \in Frames, f.fn \in RunFns,
           stack' = Append(<<>>, f), ~canConsume',
           f.fn = "configure" => configState' = "PARTIALLY_CONFIGURED",
           f.fn \in {"loop", "consume"} => configState' = "CONFIGURED",
           f.fn /= "abort" => ret'.fn = "none",
           ended' \subseteq initialized,
           NoSinkLost', EndMeansAllSinksEnded', ConfiguredOK'
    PROVE  GraphInv'
<1> USE DEF confVars
<1>1. /\ Len(stack') = 1 /\ DOMAIN stack' = {1}
      /\ stack'[1] = f /\ Top' = f /\ ~Idle'
  BY OneFrame DEF GraphInv
<1>2. \A fn : In(fn)' <=> f.fn = fn
  BY <1>1 DEF In, Idle
<1>3. CallsOK'
  BY <1>1, <1>2 DEF CallsOK
<1>4. SavedOK'
  BY <1>1, SMTT(30) DEF SavedOK, RunFns, SavingFns
<1>5. ComponentsOK'
  BY <1>1 DEF GraphInv, ComponentsOK, BeingAdded, RunFns
<1>6. ReturnOK'
  BY <1>2 DEF ReturnOK, InRun
<1>7. ExclusiveConsumption' /\ ConsumeOnlyConfigured'
  BY <1>2 DEF ExclusiveConsumption, ConsumeOnlyConfigured, ConfiguredOK
<1> QED
  BY <1>3, <1>4, <1>5, <1>6, <1>7 DEF GraphInv

\* A run function which returns leaves an empty stack.
LEMMA ReturnInv ==
    ASSUME GraphInv, UNCHANGED <<confVars, intrVars>>,
           configState' \in {"PARTIALLY_CONFIGURED", "CONFIGURED"},
           TypeOK', stack' = <<>>, ended' \subseteq initialized,
           NoSinkLost', EndMeansAllSinksEnded', ConfiguredOK'
    PROVE  GraphInv'
<1>1. DOMAIN stack' = {} /\ Idle' /\ \A fn : ~In(fn)'
  BY DEF Idle, In
<1>2. CallsOK' /\ SavedOK'
  BY <1>1, SMTT(30) DEF CallsOK, SavedOK
<1>3. ComponentsOK'
  BY <1>1 DEF GraphInv, ComponentsOK, confVars
<1>4. ReturnOK' /\ ExclusiveConsumption' /\ ConsumeOnlyConfigured'
  BY <1>1 DEF ReturnOK, InRun, ExclusiveConsumption, ConsumeOnlyConfigured
<1> QED
  BY <1>2, <1>3, <1>4 DEF GraphInv

\* bt_graph_run() and bt_graph_run_once() up to configure_graph() or the loop.
LEMMA CallStep ==
    ASSUME GraphInv, NEW fn \in {"run", "run_once"}, Call(fn)
    PROVE  GraphInv'
<1>1. TypeOK /\ Idle /\ stack = <<>> /\ configState /= "FAULTY"
  BY DEF GraphInv, Call, RunPre, Idle
<1>2. ConsumingSink = {}
  BY <1>1, SMTT(30) DEF ConsumingSink, In
<1>3. UNCHANGED <<confVars, runVars, intrVars>>
  BY SMTT(30) DEF Call
<1> USE <1>3 DEF confVars, runVars, intrVars
<1>4. CASE ChecksCanConsume(fn) /\ ~canConsume
  <2> DEFINE f == [fn |-> "abort"]
  <2>1. /\ stack' = Append(<<>>, f) /\ UNCHANGED <<configState, canConsume, ret>>
        /\ f \in Frames
    BY <1>1, <1>4, NewFrames, ZenonT(30) DEF Call, Push
  <2>2. stack' \in Seq(Frames) /\ Top' = f /\ ~Idle'
    BY <1>1, <2>1, OneFrame, ZenonT(30)
  <2>3. TypeOK'
    BY <1>1, <2>1, <2>2, SMTT(30) DEF TypeOK
  <2>4. NoSinkLost' /\ EndMeansAllSinksEnded'
    BY <1>2, <2>1, <2>2, ZenonT(30)
    DEF GraphInv, NoSinkLost, ConsumingSink, In, EndMeansAllSinksEnded
  <2> QED
    BY <1>4, <2>1, <2>3, <2>4, RunStepInv, ZenonT(30)
    DEF GraphInv, ReturnOK, ComponentsOK, ConfiguredOK, RunFns
<1>5. CASE ~(ChecksCanConsume(fn) /\ ~canConsume)
  <2> DEFINE f == [fn |-> IF configState = "CONFIGURED" THEN "loop" ELSE "configure",
                   caller |-> fn]
  <2>1. /\ stack' = Append(<<>>, f) /\ canConsume' = FALSE /\ ret' = NoReturn
        /\ configState' = IF configState = "CONFIGURED" THEN "CONFIGURED"
                          ELSE "PARTIALLY_CONFIGURED"
        /\ f \in Frames
    BY <1>1, <1>5, NewFrames, ZenonT(30) DEF Call, Push
  <2>2. stack' \in Seq(Frames) /\ Top' = f /\ ~Idle'
    BY <1>1, <2>1, OneFrame, ZenonT(30)
  <2>3. TypeOK'
    BY <1>1, <2>1, <2>2, ZenonT(30) DEF TypeOK, NoReturn, ConfigStates
  <2>4. NoSinkLost' /\ EndMeansAllSinksEnded'
    BY <1>2, <2>1, <2>2, ZenonT(30)
    DEF GraphInv, NoSinkLost, ConsumingSink, In, EndMeansAllSinksEnded, NoReturn
  <2>5. configState = "CONFIGURED" => Range(components) \cap Sinks \subseteq gicCalled
    BY DEF GraphInv, ConfiguredOK
  <2> QED
    BY <2>1, <2>3, <2>4, <2>5, RunStepInv, ZenonT(30)
    DEF GraphInv, ComponentsOK, ConfiguredOK, RunFns, NoReturn
<1> QED
  BY <1>4, <1>5, SMTT(30)

\* configure_graph() notifies one more sink.
LEMMA ConfigureSinkOkStep ==
    ASSUME GraphInv, ConfigureSinkOk
    PROVE  GraphInv'
<1>1. /\ TypeOK /\ ~Idle /\ Top.fn = "configure" /\ Top.fn \in RunFns
  BY SMTT(30) DEF GraphInv, ConfigureSinkOk, In, Idle, RunFns
<1>2. /\ configState = "PARTIALLY_CONFIGURED" /\ InRun
  BY <1>1 DEF GraphInv, CallsOK, ConfigureSinkOk, InRun
<1>3. PICK i \in ToConfigure : gicCalled' = gicCalled \cup {components[i]}
  BY DEF ConfigureSinkOk
<1>4. components[i] \in Sinks
  BY <1>3 DEF ToConfigure
<1>5. UNCHANGED <<configState, confVars, canConsume, sinks, sinksLength,
                  ended, since, intrVars, stack, ret>>
  BY SMTT(30) DEF ConfigureSinkOk
<1> USE <1>5 DEF confVars, intrVars
<1>6. TypeOK'
  BY <1>1, <1>3, <1>4, SMTT(30) DEF TypeOK
<1>7. CallsOK' /\ SavedOK' /\ ComponentsOK'
  BY ZenonT(30) DEF GraphInv, CallsOK, SavedOK, ComponentsOK, BeingAdded, In, Top
<1>8. ReturnOK' /\ EndMeansAllSinksEnded' /\ ExclusiveConsumption'
  BY SMTT(30) DEF GraphInv, ReturnOK, EndMeansAllSinksEnded, ExclusiveConsumption, Idle,
         InRun, In, Top
<1>9. NoSinkLost' /\ ConfiguredOK' /\ ConsumeOnlyConfigured'
  BY <1>1, <1>2, SMTT(30) DEF GraphInv, NoSinkLost, ConsumingSink, ConfiguredOK,
                    ConsumeOnlyConfigured, In, Top
<1> QED
  BY <1>6, <1>7, <1>8, <1>9 DEF GraphInv

\* configure_graph() fails: the graph stays partially configured.
LEMMA ConfigureSinkFailedStep ==
    ASSUME GraphInv, ConfigureSinkFailed
    PROVE  GraphInv'
<1>1. /\ TypeOK /\ ~Idle /\ Top.fn = "configure" /\ Top.fn \in RunFns
  BY DEF GraphInv, ConfigureSinkFailed, In, Idle, RunFns
<1>2. configState = "PARTIALLY_CONFIGURED"
  BY SMTT(30) DEF GraphInv, CallsOK, ConfigureSinkFailed
<1>3. Front(stack) = <<>> /\ Top \in Frames /\ Top.caller \in {"run", "run_once"}
  BY <1>1, RunningCalls, FrameFields
<1>4. /\ stack' = <<>> /\ UNCHANGED <<configState, confVars, runVars, intrVars>>
      /\ ret' = [fn |-> Top.caller, status |-> "ERROR", interrupted |-> FALSE]
      /\ canConsume' = IF Top.caller = "run" THEN TRUE ELSE canConsume
  BY <1>3, SMTT(30) DEF ConfigureSinkFailed, Pop
<1> USE <1>4 DEF confVars, runVars, intrVars
<1>5. TypeOK'
  <2>1. stack' \in Seq(Frames)
    BY EmptySeq
  <2> QED
    BY <1>1, <1>3, <2>1, ZenonT(30) DEF TypeOK
<1>6. ConsumingSink = {} /\ ConsumingSink' = {}
  BY <1>1, SMTT(30) DEF ConsumingSink, In
<1>7. NoSinkLost' /\ EndMeansAllSinksEnded' /\ ConfiguredOK'
  BY <1>6 DEF GraphInv, NoSinkLost, EndMeansAllSinksEnded, ConfiguredOK
<1> QED
  BY <1>2, <1>5, <1>7, ReturnInv, ZenonT(30) DEF GraphInv, ComponentsOK

\* configure_graph() succeeds.
LEMMA ConfigureDoneStep ==
    ASSUME GraphInv, ConfigureDone
    PROVE  GraphInv'
<1> DEFINE f == [Top EXCEPT !.fn = "loop"]
<1>1. /\ TypeOK /\ ~Idle /\ Top.fn = "configure" /\ Top.fn \in RunFns /\ InRun
  BY DEF GraphInv, ConfigureDone, In, Idle, RunFns, InRun
<1>2. Front(stack) = <<>> /\ Top \in Frames /\ ~canConsume
  BY <1>1, RunningCalls
<1>3. f \in Frames /\ f.fn = "loop"
  BY <1>1, <1>2, NextFrames, ZenonT(30)
<1>4. /\ stack' = Append(<<>>, f) /\ configState' = "CONFIGURED"
      /\ UNCHANGED <<confVars, canConsume, runVars, intrVars, ret>>
  BY <1>2 DEF ConfigureDone, Replace
<1> HIDE DEF f
<1> USE <1>4 DEF confVars, runVars, intrVars
<1>5. /\ stack' \in Seq(Frames) /\ Top' = f /\ ~Idle'
  BY <1>1, <1>3, OneFrame, SMTT(30)
<1>6. TypeOK'
  BY <1>1, <1>5 DEF TypeOK, ConfigStates
<1>7. ConsumingSink = {} /\ ConsumingSink' = {}
  BY <1>1, <1>3, <1>5 DEF ConsumingSink, In
<1>8. ConfiguredOK'
  BY SMTT(30) DEF ConfigureDone, ToConfigure, ConfiguredOK, Range
<1>9. NoSinkLost' /\ EndMeansAllSinksEnded' /\ ret.fn = "none"
  BY <1>1, <1>7, SMTT(30) DEF GraphInv, NoSinkLost, EndMeansAllSinksEnded, ReturnOK
<1> QED
  BY <1>2, <1>3, <1>6, <1>8, <1>9, RunStepInv, ZenonT(30) DEF GraphInv, ComponentsOK, RunFns

\* bt_graph_run() returns because of an interrupter, or a run function finds no
\* sink to consume.
LEMMA LoopReturnStep ==
    ASSUME GraphInv, RunInterrupted \/ NothingToConsume
    PROVE  GraphInv'
<1>1. /\ TypeOK /\ ~Idle /\ Top.fn = "loop" /\ Top.fn \in RunFns
  BY ZenonT(30) DEF GraphInv, RunInterrupted, NothingToConsume, In, Idle, RunFns
<1>2. configState = "CONFIGURED"
  BY ZenonT(30) DEF GraphInv, CallsOK, RunInterrupted, NothingToConsume
<1>3. Front(stack) = <<>> /\ Top \in Frames /\ Top.caller \in {"run", "run_once"}
  BY <1>1, RunningCalls, FrameFields, ZenonT(30)
<1>4. /\ stack' = <<>> /\ UNCHANGED <<configState, confVars, runVars, intrVars>>
      /\ canConsume' = TRUE
      /\ \/ ret' = [fn |-> Top.caller, status |-> "AGAIN", interrupted |-> TRUE]
         \/ /\ sinks = <<>>
            /\ ret' = [fn |-> Top.caller,
                       status |-> IF Top.caller = "run" THEN "OK" ELSE "END",
                       interrupted |-> FALSE]
  BY <1>3, SMTT(30) DEF RunInterrupted, NothingToConsume, Return, Pop
<1> USE <1>4 DEF confVars, runVars, intrVars
<1>5. TypeOK'
  <2>1. stack' \in Seq(Frames)
    BY EmptySeq
  <2>2. PICK st \in {"OK", "END", "AGAIN"}, b \in BOOLEAN :
          ret' = [fn |-> Top.caller, status |-> st, interrupted |-> b]
    BY <1>3, ZenonT(30)
  <2>3. ret' \in [fn : {"none", "run", "run_once"},
                  status : {"OK", "END", "AGAIN", "ERROR"}, interrupted : BOOLEAN]
    BY <1>3, <2>2
  <2> QED
    BY <1>1, <2>1, <2>3, ZenonT(30) DEF TypeOK
<1>6. ConsumingSink = {} /\ ConsumingSink' = {}
  BY <1>1, SMTT(30) DEF ConsumingSink, In
<1>7. NoSinkLost' /\ ConfiguredOK'
  BY <1>6, SMTT(30) DEF GraphInv, NoSinkLost, ConfiguredOK
<1>8. EndMeansAllSinksEnded'
  BY <1>3, <1>6, SMTT(30) DEF GraphInv, NoSinkLost, EndMeansAllSinksEnded, Range
<1> QED
  BY <1>2, <1>5, <1>7, <1>8, ReturnInv, ZenonT(30) DEF GraphInv, ComponentsOK

\* consume_no_check() pops the link of the sink to consume.
LEMMA ConsumeHeadStep ==
    ASSUME GraphInv, ConsumeHead
    PROVE  GraphInv'
<1> DEFINE s == Head(sinks)
           f == [fn |-> "consume", caller |-> Top.caller, sink |-> s]
<1>1. /\ TypeOK /\ ~Idle /\ Top.fn = "loop" /\ Top.fn \in RunFns /\ InRun
  BY ZenonT(30) DEF GraphInv, ConsumeHead, In, Idle, RunFns, InRun
<1>2. /\ configState = "CONFIGURED" /\ ret.fn = "none"
  BY <1>1, ZenonT(30) DEF GraphInv, CallsOK, ReturnOK, ConsumeHead
<1>3. /\ Front(stack) = <<>> /\ ~canConsume
      /\ Top \in Frames /\ Top.caller \in {"run", "run_once"}
  BY <1>1, RunningCalls, FrameFields, SMTT(30)
<1>4. s \in Sinks /\ sinks' \in Seq(Sinks)
  BY <1>1, HeadTailProperties, SMTT(30) DEF TypeOK, ConsumeHead
<1>6. /\ stack' = Append(<<>>, f) /\ f \in Frames
      /\ UNCHANGED <<configState, confVars, canConsume, gicCalled, ended, intrVars, ret>>
  BY <1>3, <1>4, NewFrames, ZenonT(30) DEF ConsumeHead, Replace
<1>5. f.fn = "consume" /\ f.fn \in RunFns /\ f.sink = s
  BY DEF RunFns
<1> HIDE DEF f
<1>7. /\ stack' \in Seq(Frames) /\ Top' = f /\ ~Idle'
  BY <1>1, <1>6, OneFrame, SMTT(30)
<1> USE <1>6 DEF confVars, intrVars
<1>8. TypeOK'
  <2>1. sinksLength' \in 0..(GuintModulus - 1)
    BY <1>1, GraphAssumption, SMTT(30) DEF TypeOK, ConsumeHead, Dec
  <2>2. since' \in [Sinks -> SUBSET Sinks]
    BY <1>1, <1>4 DEF TypeOK, ConsumeHead
  <2> QED
    BY <1>1, <1>4, <1>7, <2>1, <2>2, SMTT(30) DEF TypeOK
<1>9. ConsumingSink = {} /\ ConsumingSink' = {s}
  BY <1>1, <1>5, <1>7, SMTT(30) DEF ConsumingSink, In, Idle
<1>10. NoSinkLost'
  <2>1. \A i, j \in DOMAIN sinks : sinks[i] = sinks[j] => i = j
    BY SMTT(30) DEF GraphInv, NoSinkLost
  <2>2. sinks \in Seq(Sinks) /\ sinks /= <<>> /\ sinks' = Tail(sinks)
    BY <1>1, SMTT(30) DEF TypeOK, ConsumeHead
  <2>3. /\ \A i, j \in DOMAIN sinks' : sinks'[i] = sinks'[j] => i = j
        /\ Range(sinks') = Range(sinks) \ {s} /\ s \in Range(sinks)
    BY <2>1, <2>2, TailSet
  <2> QED
    BY <1>9, <2>3 DEF GraphInv, NoSinkLost
<1>11. EndMeansAllSinksEnded' /\ ConfiguredOK'
  BY DEF GraphInv, EndMeansAllSinksEnded, ConfiguredOK
<1> QED
  BY <1>2, <1>3, <1>5, <1>8, <1>10, <1>11, RunStepInv, ZenonT(30) DEF GraphInv, ComponentsOK

\* What the run functions do with the status of a sink.
LEMMA AfterConsumeStep ==
    ASSUME GraphInv, In("consume"), NEW status \in {"OK", "AGAIN", "ERROR", "END"},
           NEW length, AfterConsume(status, length),
           UNCHANGED <<configState, confVars, gicCalled, since, intrVars>>,
           sinks' \in Seq(Sinks), sinksLength' \in 0..(GuintModulus - 1),
           ended' \subseteq initialized \cap Sinks,
           \A i, j \in DOMAIN sinks' : sinks'[i] = sinks'[j] => i = j,
           Range(sinks') = (initialized \cap Sinks) \ ended',
           status = "END" => sinks' = <<>>
    PROVE  GraphInv'
<1>1. /\ TypeOK /\ ~Idle /\ Top.fn = "consume" /\ Top.fn \in RunFns /\ InRun
  BY SMTT(30) DEF GraphInv, In, Idle, RunFns, InRun
<1>2. /\ configState = "CONFIGURED" /\ ret.fn = "none"
  BY <1>1, SMTT(30) DEF GraphInv, CallsOK, ReturnOK
<1>3. /\ Front(stack) = <<>> /\ ~canConsume
      /\ Top \in Frames /\ Top.caller \in {"run", "run_once"}
  BY <1>1, RunningCalls, FrameFields
<1> USE DEF confVars, intrVars
<1>4. ConfiguredOK'
  BY SMTT(30) DEF GraphInv, ConfiguredOK
<1>5. ASSUME NEW st \in {"OK", "AGAIN", "ERROR", "END"}, Return(st, FALSE),
             Top.caller = "run_once" => st = status,
             Top.caller = "run" => st /= "END" /\ (st = "OK" => status = "END")
      PROVE  GraphInv'
  <2>1. /\ stack' = <<>> /\ canConsume' = TRUE
        /\ ret' = [fn |-> Top.caller, status |-> st, interrupted |-> FALSE]
    BY <1>3, <1>5, ZenonT(30) DEF Return, Pop
  <2>2. TypeOK'
    <3>1. stack' \in Seq(Frames)
      BY <2>1, EmptySeq, SMTT(30)
    <3> QED
      BY <1>1, <1>3, <2>1, <3>1, ZenonT(30) DEF TypeOK
  <2>3. ConsumingSink' = {}
    BY <2>1 DEF ConsumingSink, In
  <2>4. NoSinkLost'
    BY <2>3, SMTT(30) DEF NoSinkLost
  <2>5. EndMeansAllSinksEnded'
    BY <1>3, <1>5, <2>1, SMTT(30) DEF EndMeansAllSinksEnded, Range
  <2> QED
    BY <1>2, <1>4, <2>1, <2>2, <2>4, <2>5, ReturnInv, SMTT(30)
<1>6. ASSUME Replace([fn |-> "loop", caller |-> "run"]), UNCHANGED <<canConsume, ret>>
      PROVE  GraphInv'
  <2> DEFINE f == [fn |-> "loop", caller |-> "run"]
  <2>1. stack' = Append(<<>>, f) /\ f \in Frames
    BY <1>3, <1>6, NewFrames, ZenonT(30) DEF Replace
  <2>2. /\ stack' \in Seq(Frames) /\ Top' = f
    BY <1>1, <2>1, OneFrame, ZenonT(30)
  <2>3. TypeOK'
    BY <1>1, <1>6, <2>2, ZenonT(30) DEF TypeOK
  <2>4. ConsumingSink' = {}
    BY <2>2, SMTT(30) DEF ConsumingSink, In
  <2>5. NoSinkLost' /\ EndMeansAllSinksEnded'
    BY <1>2, <1>6, <2>4, SMTT(30) DEF NoSinkLost, EndMeansAllSinksEnded
  <2> QED
    BY <1>2, <1>3, <1>4, <1>6, <2>1, <2>3, <2>5, RunStepInv, SMTT(30) DEF RunFns
<1>7. CASE Top.caller = "run_once"
  BY <1>5, <1>7, ZenonT(30) DEF AfterConsume
<1>8. CASE Top.caller = "run"
  BY <1>5, <1>6, <1>8, ZenonT(30) DEF AfterConsume
<1> QED
  BY <1>3, <1>7, <1>8

\* The sink goes back to the tail of the queue.
LEMMA ConsumeContinuesStep ==
    ASSUME GraphInv, NEW status \in {"OK", "AGAIN", "ERROR"}, ConsumeContinues(status)
    PROVE  GraphInv'
<1> DEFINE s == Top.sink
<1>1. /\ TypeOK /\ ~Idle /\ Top.fn = "consume" /\ In("consume") /\ ConsumingSink = {s}
  BY SMTT(30) DEF GraphInv, ConsumeContinues, In, Idle, ConsumingSink
<1>2. s \in Sinks
  BY <1>1, StackFacts, FrameFields, SMTT(30)
<1>3. /\ s \notin Range(sinks) /\ Range(sinks) \cup {s} = (initialized \cap Sinks) \ ended
      /\ \A i, j \in DOMAIN sinks : sinks[i] = sinks[j] => i = j
      /\ ended \subseteq initialized \cap Sinks
  BY <1>1, ZenonT(30) DEF GraphInv, NoSinkLost, ComponentsOK, TypeOK
<1>4. /\ sinks' \in Seq(Sinks) /\ sinksLength' \in 0..(GuintModulus - 1)
      /\ Range(sinks') = Range(sinks) \cup {s}
      /\ \A i, j \in DOMAIN sinks' : sinks'[i] = sinks'[j] => i = j
  BY <1>1, <1>2, <1>3, PushSinkProperties, ZenonT(30) DEF ConsumeContinues
<1>5. /\ AfterConsume(status, sinksLength')
      /\ UNCHANGED <<configState, confVars, gicCalled, ended, since, intrVars>>
  BY SMTT(30) DEF ConsumeContinues
<1> QED
  BY <1>1, <1>3, <1>4, <1>5, AfterConsumeStep, ZenonT(30)

\* The sink ended and leaves the queue.
LEMMA ConsumeEndedStep ==
    ASSUME GraphInv, ConsumeEnded
    PROVE  GraphInv'
<1> DEFINE s == Top.sink
<1>1. /\ TypeOK /\ ~Idle /\ Top.fn = "consume" /\ In("consume") /\ ConsumingSink = {s}
  BY DEF GraphInv, ConsumeEnded, In, Idle, ConsumingSink
<1>2. s \in Sinks
  BY <1>1, StackFacts, FrameFields, SMTT(30)
<1>3. /\ s \notin Range(sinks) /\ Range(sinks) \cup {s} = (initialized \cap Sinks) \ ended
      /\ \A i, j \in DOMAIN sinks : sinks[i] = sinks[j] => i = j
      /\ ended \subseteq initialized \cap Sinks
  BY <1>1, ZenonT(30) DEF GraphInv, NoSinkLost, ComponentsOK, TypeOK
<1>4. /\ sinks' = sinks /\ ended' = ended \cup {s}
      /\ AfterConsume(EndStatus, sinksLength')
      /\ UNCHANGED <<configState, confVars, gicCalled, since, intrVars>>
  BY SMTT(30) DEF ConsumeEnded
<1>5. sinksLength' \in 0..(GuintModulus - 1)
  BY <1>1, GraphAssumption, SMTT(30) DEF TypeOK, ConsumeEnded, Dec
<1>6. /\ sinks' \in Seq(Sinks) /\ ended' \subseteq initialized \cap Sinks
      /\ \A i, j \in DOMAIN sinks' : sinks'[i] = sinks'[j] => i = j
      /\ Range(sinks') = (initialized \cap Sinks) \ ended'
  BY <1>1, <1>3, <1>4 DEF TypeOK
<1>7. /\ EndStatus \in {"OK", "AGAIN", "ERROR", "END"}
      /\ EndStatus = "END" => sinks' = <<>>
  BY <1>4 DEF EndStatus
<1> QED
  BY <1>1, <1>4, <1>5, <1>6, <1>7, AfterConsumeStep

\* Threads which set and reset interrupters do not disturb the graph.
LEMMA InterruptStep ==
    ASSUME GraphInv, Interrupt(Interrupters) \/ UNCHANGED vars
    PROVE  GraphInv'
<1>1. UNCHANGED <<configState, confVars, canConsume, runVars, stack, ret>>
  BY SMTT(30) DEF Interrupt, SetInterrupter, ResetInterrupter, AddInterrupter, vars, intrVars
<1>2. interrupters' \subseteq Interrupters /\ isSet' \in [Interrupters -> BOOLEAN]
  BY ZenonT(30) DEF GraphInv, TypeOK, Interrupt, SetInterrupter, ResetInterrupter,
         AddInterrupter, vars, intrVars
<1> USE <1>1 DEF confVars, runVars
<1>3. TypeOK'
  BY <1>2, ZenonT(30) DEF GraphInv, TypeOK
<1>4. CallsOK' /\ SavedOK' /\ ComponentsOK'
  BY ZenonT(30) DEF GraphInv, CallsOK, SavedOK, ComponentsOK, BeingAdded, In, Top
<1>5. ReturnOK' /\ EndMeansAllSinksEnded' /\ ExclusiveConsumption'
  BY SMTT(30) DEF GraphInv, ReturnOK, EndMeansAllSinksEnded, ExclusiveConsumption, Idle,
         InRun, In, Top
<1>6. NoSinkLost' /\ ConfiguredOK' /\ ConsumeOnlyConfigured'
  BY ZenonT(30) DEF GraphInv, NoSinkLost, ConsumingSink, ConfiguredOK, ConsumeOnlyConfigured,
         In, Top
<1> QED
  BY <1>3, <1>4, <1>5, <1>6, SMTT(30) DEF GraphInv

---------------------------------------------------------------------------
(* The theorems *)

\* Every step of the graph keeps the inductive invariant.
LEMMA GraphNext ==
    ASSUME GraphInv, [Next]_vars
    PROVE  GraphInv'
<1>1. CASE Configure(Comps, Ports)
  <2>1. ASSUME NEW c \in Comps, AddComponent(c) \/ AddComponentMemoryError(c)
        PROVE  GraphInv'
    BY <2>1, AddComponentStep, MemoryErrorStep DEF AddComponentMemoryError
  <2>2. ASSUME NEW p \in Ports, AddPort(p) PROVE GraphInv'
    BY <2>2, AddPortStep
  <2>3. ASSUME NEW up \in ports, NEW down \in ports,
               ConnectPorts(up, down) \/ ConnectPortsMemoryError(up, down)
        PROVE  GraphInv'
    BY <2>3, ConnectPortsStep, MemoryErrorStep DEF ConnectPortsMemoryError
  <2> QED
    BY <1>1, <2>1, <2>2, <2>3, AddComponentOkStep, AddComponentFailedStep,
       AddPortReturnStep, UpstreamPortConnectedStep, ConnectPortsReturnStep, SMTT(30)
    DEF Configure
<1>2. CASE Run
  <2>1. ASSUME NEW status \in {"OK", "AGAIN", "ERROR"}, ConsumeContinues(status)
        PROVE  GraphInv'
    BY <2>1, ConsumeContinuesStep
  <2>2. CASE Call("run") \/ Call("run_once")
    BY <2>2, CallStep
  <2>3. CASE RunStep
    BY <2>1, <2>3, ConfigureSinkOkStep, ConfigureSinkFailedStep,
       ConfigureDoneStep, LoopReturnStep, ConsumeHeadStep, ConsumeEndedStep
    DEF RunStep
  <2> QED
    BY <1>2, <2>2, <2>3 DEF Run
<1>3. CASE Interrupt(Interrupters) \/ UNCHANGED vars
  BY <1>3, InterruptStep
<1> QED
  BY <1>1, <1>2, <1>3 DEF Next

\* Whatever the methods of the components, the listeners and the interrupting
\* threads do, the inductive invariant holds.
THEOREM GraphInvariance == Spec => []GraphInv
<1>1. GraphInv /\ [Next]_vars => GraphInv'
  BY GraphNext
<1> QED
  BY <1>1, GraphInit, PTL DEF Spec

\* The state of the graph is well typed: the length of the queue of sinks stays
\* within a guint even when the code decrements it twice.
THEOREM TypeCorrect == Spec => []TypeOK
  BY GraphInvariance, PTL DEF GraphInv

\* No sink is lost nor in the queue twice, for any number of sinks.
THEOREM SinksKept == Spec => []NoSinkLost
  BY GraphInvariance, PTL DEF GraphInv

\* The end of the graph is reported only when all its sinks ended.
THEOREM EndIsEnd == Spec => []EndMeansAllSinksEnded
  BY GraphInvariance, PTL DEF GraphInv

\* No user code runs within the graph while the graph may be consumed, however
\* deeply configuration functions are nested.
THEOREM ConsumptionIsExclusive == Spec => []ExclusiveConsumption
  BY GraphInvariance, PTL DEF GraphInv

\* A sink consumes only when every sink's "graph is configured" method succeeded.
THEOREM ConsumesConfigured == Spec => []ConsumeOnlyConfigured
  BY GraphInvariance, PTL DEF GraphInv

\* Once the graph was run, no step adds or removes a component, a port or a
\* connection: no configuration function is in progress then (CallsOK).
THEOREM TopologyIsFrozen == Spec => TopologyFrozen
<1> DEFINE Was == configState \in {"PARTIALLY_CONFIGURED", "CONFIGURED"}
<1>1. GraphInv /\ [Next]_vars => [Was => UNCHANGED confVars]_vars
  <2> SUFFICES ASSUME GraphInv, Next, Was PROVE UNCHANGED confVars
    BY DEF vars
  <2>1. ~Configure(Comps, Ports)
    <3>1. ~MayConfigure
      BY DEF MayConfigure
    <3>2. ~Idle => Top.fn \in RunFns
      BY StackFacts DEF GraphInv, CallsOK
    <3> QED
      BY <3>1, <3>2, ZenonT(30)
      DEF Configure, AddComponent, AddComponentMemoryError, AddComponentOk,
          AddComponentFailed, AddPort, AddPortOk, AddPortFailed, ConnectPorts,
          ConnectPortsMemoryError, UpstreamPortConnectedOk,
          DownstreamPortConnectedOk, PortConnectedFailed, In, Idle, RunFns
  <2>2. CASE Run
    BY <2>2, ZenonT(30) DEF Run, Call, RunStep, ConfigureSinkOk, ConfigureSinkFailed,
                ConfigureDone, RunInterrupted, NothingToConsume, ConsumeHead,
                ConsumeContinues, ConsumeEnded
  <2>3. CASE Interrupt(Interrupters)
    BY <2>3 DEF Interrupt, SetInterrupter, ResetInterrupter, AddInterrupter
  <2> QED
    BY <2>1, <2>2, <2>3 DEF Next
<1> QED
  BY <1>1, GraphInvariance, PTL DEF Spec, TopologyFrozen

---------------------------------------------------------------------------
(* Connections *)

\* A faulty graph stays faulty.
LEMMA FaultyForever ==
    ASSUME GraphInv, [Next]_vars, configState = "FAULTY"
    PROVE  configState' = "FAULTY"
<1>1. ~MayConfigure
  BY DEF MayConfigure
<1>2. CASE Configure(Comps, Ports)
  BY <1>1, <1>2, ZenonT(30)
  DEF Configure, AddComponent, AddComponentMemoryError, AddComponentOk,
      AddComponentFailed, AddPort, AddPortOk, AddPortFailed, ConnectPorts,
      ConnectPortsMemoryError, UpstreamPortConnectedOk,
      DownstreamPortConnectedOk, PortConnectedFailed, MakeFaulty
<1>3. CASE Run
  <2>1. ~In("configure")
    BY DEF GraphInv, CallsOK
  <2> QED
    BY <1>3, <2>1, ZenonT(30)
    DEF Run, Call, RunPre, RunStep, ConfigureSinkOk, ConfigureSinkFailed,
        ConfigureDone, RunInterrupted, NothingToConsume, ConsumeHead,
        ConsumeContinues, ConsumeEnded
<1>4. CASE Interrupt(Interrupters)
  BY <1>4 DEF Interrupt, SetInterrupter, ResetInterrupter, AddInterrupter
<1>5. CASE UNCHANGED vars
  BY <1>5 DEF vars
<1> QED
  BY <1>2, <1>3, <1>4, <1>5 DEF Next

\* Only two steps of a graph which does not become faulty change its ports and
\* connections: the one adds a port, the other connects two free ports.
LEMMA TopologySteps ==
    ASSUME GraphInv, [Next]_vars
    PROVE  \/ configState' = "FAULTY"
           \/ UNCHANGED <<ports, conns>>
           \/ ports \subseteq ports' /\ conns' = conns
           \/ \E up, down \in ports : /\ ~IsConnected(up) /\ ~IsConnected(down)
                                      /\ conns' = conns \cup {<<up, down>>}
                                      /\ ports' = ports
<1>1. CASE Configure(Comps, Ports)
  <2>1. ASSUME NEW up \in ports, NEW down \in ports, ConnectPorts(up, down)
        PROVE  /\ ~IsConnected(up) /\ ~IsConnected(down)
               /\ conns' = conns \cup {<<up, down>>} /\ ports' = ports
    BY <2>1 DEF ConnectPorts
  <2>2. ASSUME NEW p \in Ports, AddPort(p) PROVE ports \subseteq ports' /\ conns' = conns
    BY <2>2 DEF AddPort
  <2>3. ASSUME NEW c \in Comps, AddComponent(c) PROVE UNCHANGED <<ports, conns>>
    BY <2>3 DEF AddComponent
  <2>4. ASSUME AddComponentOk \/ AddPortOk \/ UpstreamPortConnectedOk
                \/ DownstreamPortConnectedOk
        PROVE  UNCHANGED <<ports, conns>>
    BY <2>4, ZenonT(30) DEF AddComponentOk, AddPortOk, UpstreamPortConnectedOk,
                    DownstreamPortConnectedOk, confVars
  <2>5. ASSUME \/ \E c \in Comps : AddComponentMemoryError(c)
               \/ AddComponentFailed \/ AddPortFailed \/ PortConnectedFailed
               \/ \E up, down \in ports : ConnectPortsMemoryError(up, down)
        PROVE  configState' = "FAULTY"
    BY <2>5, ZenonT(30) DEF AddComponentMemoryError, AddComponentFailed, AddPortFailed,
                    PortConnectedFailed, ConnectPortsMemoryError, MakeFaulty
  <2> QED
    BY <1>1, <2>1, <2>2, <2>3, <2>4, <2>5, ZenonT(30) DEF Configure
<1>2. CASE Run
  BY <1>2, ZenonT(30)
  DEF Run, Call, RunStep, ConfigureSinkOk, ConfigureSinkFailed, ConfigureDone,
      RunInterrupted, NothingToConsume, ConsumeHead, ConsumeContinues,
      ConsumeEnded, confVars
<1>3. CASE Interrupt(Interrupters)
  BY <1>3 DEF Interrupt, SetInterrupter, ResetInterrupter, AddInterrupter, confVars
<1>4. CASE UNCHANGED vars
  BY <1>4 DEF vars, confVars
<1> QED
  BY <1>1, <1>2, <1>3, <1>4 DEF Next

\* As long as the graph is usable, its connections join ports which exist, and
\* no port has two: a new connection takes two ports which have none
\* (bt_graph_connect_ports()), and what removes ports leaves a faulty graph.
THEOREM ConnectionsAreSound == Spec => []ConnectionsSound
<1>1. Init => ConnectionsSound
  BY SMTT(30) DEF Init, ConnectionsSound
<1>2. GraphInv /\ ConnectionsSound /\ [Next]_vars => ConnectionsSound'
  <2> SUFFICES ASSUME GraphInv, ConnectionsSound, [Next]_vars,
                      configState' # "FAULTY"
               PROVE  /\ \A c \in conns' : {c[1], c[2]} \subseteq ports'
                      /\ \A c, d \in conns' :
                            {c[1], c[2]} \cap {d[1], d[2]} # {} => c = d
    BY DEF ConnectionsSound
  <2>1. /\ \A c \in conns : {c[1], c[2]} \subseteq ports
        /\ \A c, d \in conns : {c[1], c[2]} \cap {d[1], d[2]} # {} => c = d
    BY FaultyForever DEF ConnectionsSound
  <2>2. CASE ports \subseteq ports' /\ conns' = conns
    BY <2>1, <2>2, SMTT(30)
  <2>3. ASSUME NEW up \in ports, NEW down \in ports,
               ~IsConnected(up), ~IsConnected(down),
               conns' = conns \cup {<<up, down>>}, ports' = ports
        PROVE  /\ \A c \in conns' : {c[1], c[2]} \subseteq ports'
               /\ \A c, d \in conns' :
                     {c[1], c[2]} \cap {d[1], d[2]} # {} => c = d
    <3>0. PICK e : e = <<up, down>>
      BY ZenonT(30)
    <3>1. e = <<up, down>> /\ e[1] = up /\ e[2] = down
      BY <3>0
    <3>2. \A c \in conns : up \notin {c[1], c[2]} /\ down \notin {c[1], c[2]}
      BY <2>3 DEF IsConnected
    <3>3. conns' = conns \cup {e}
      BY <2>3, <3>1
    <3> QED
      BY <2>1, <2>3, <3>1, <3>2, <3>3
  <2> QED
    BY <2>2, <2>3, TopologySteps, SMTT(30)
<1> QED
  BY <1>1, <1>2, GraphInvariance, PTL DEF Spec
============================================================================
