---------------------------- MODULE MuxerProofs ----------------------------
(***************************************************************************)
(* Proofs about the muxer (Muxer.tla) for any number of upstream message   *)
(* iterators, any contents, batch sizes and capacities, and any number of  *)
(* "try again" answers, errors and seeks.                                  *)
(***************************************************************************)
EXTENDS Muxer, SequenceTheorems, TLAPS

\* Where an upstream iterator is while no upstream iterator failed: its
\* discard is pending exactly while it's in the heap, and it's there only
\* after the current cycle reloaded it.
InPlace(u) ==
    /\ heap[u] = IF mustDiscard[u] THEN 1 ELSE 0
    /\ mustDiscard[u] <=> buf[u] # <<>>
    /\ mustDiscard[u] => u \in reloaded

\* The inductive invariant.
MuxerInv ==
    /\ TypeOK
    /\ \A u \in Upstreams : pos[u] <= Len(content[u])
    /\ pc # "idle" => state = "ACTIVE"
    /\ errors = 0 /\ state # "SEEK_FAILED" => \A u \in Upstreams : InPlace(u)
    /\ NoAssertionFails

---------------------------------------------------------------------------
\* A sequence of messages is one of messages whose elements are messages.
LEMMA TracesAreSequences == Traces \subseteq Seq(Message)
  BY DEF Traces

\* The n elements of a sequence after the first p.
LEMMA Batch ==
    ASSUME NEW S, NEW s \in Seq(S), NEW p \in Nat, NEW n \in Nat \ {0}, p + n <= Len(s)
    PROVE  /\ SubSeq(s, p + 1, p + n) \in Seq(S)
           /\ Len(SubSeq(s, p + 1, p + n)) = n
           /\ \A i \in 1 .. n : SubSeq(s, p + 1, p + n)[i] = s[p + i]
<1>1. PICK from \in Int, to \in Int : from = p + 1 /\ to = p + n
  OBVIOUS
<1>2. \A i \in from .. to : s[i] \in S
  BY <1>1, ElementOfSeq
<1>3. /\ SubSeq(s, from, to) \in Seq(S)
      /\ Len(SubSeq(s, from, to)) = IF from <= to THEN to - from + 1 ELSE 0
      /\ \A i \in 1 .. (to - from + 1) : SubSeq(s, from, to)[i] = s[from + i - 1]
  BY <1>2, SubSeqProperties
<1>4. /\ from <= to /\ to - from + 1 = n
      /\ \A i \in 1 .. n : from + i - 1 = p + i
  BY <1>1
<1> QED
  BY <1>1, <1>3, <1>4

\* reload(): what each outcome brings.
LEMMA LoadCases ==
    ASSUME TypeOK, \A v \in Upstreams : pos[v] <= Len(content[v]),
           NEW u \in Upstreams, NEW b \in Seq(Message), NEW load \in Loads(u, b)
    PROVE  /\ load.msgs \in Seq(Message)
           /\ \/ b # <<>> /\ load.what = "More" /\ load.msgs = b
              \/ /\ b = <<>> /\ load.what = "More"
                 /\ load.msgs # <<>>
                 /\ pos[u] + Len(load.msgs) <= Len(content[u])
                 /\ \A i \in 1 .. Len(load.msgs) : load.msgs[i] = content[u][pos[u] + i]
              \/ b = <<>> /\ load.what = "NoMore" /\ load.msgs = <<>> /\ pos[u] = Len(content[u])
              \/ b = <<>> /\ load.what = "TryAgain" /\ load.msgs = <<>> /\ agains < MaxAgains
              \/ b = <<>> /\ load.what = "Error" /\ load.msgs = <<>> /\ errors < MaxErrors
<1>1. CASE b # <<>>
  BY <1>1 DEF Loads
<1>2. CASE b = <<>>
  <2>1. /\ content[u] \in Seq(Message) /\ Len(content[u]) \in Nat
        /\ pos[u] \in Nat /\ pos[u] <= Len(content[u])
    BY DEF TypeOK
  <2>2. \/ \E n \in 1 .. UpBatch :
            /\ n <= Len(content[u]) - pos[u]
            /\ load = [what |-> "More", msgs |-> SubSeq(content[u], pos[u] + 1, pos[u] + n)]
        \/ Len(content[u]) - pos[u] = 0 /\ load = [what |-> "NoMore", msgs |-> <<>>]
        \/ agains < MaxAgains /\ load = [what |-> "TryAgain", msgs |-> <<>>]
        \/ errors < MaxErrors /\ load = [what |-> "Error", msgs |-> <<>>]
    BY <1>2 DEF Loads
  <2>3. ASSUME NEW n \in 1 .. UpBatch, n <= Len(content[u]) - pos[u],
               load = [what |-> "More", msgs |-> SubSeq(content[u], pos[u] + 1, pos[u] + n)]
        PROVE  /\ load.what = "More"
               /\ load.msgs \in Seq(Message)
               /\ load.msgs # <<>>
               /\ pos[u] + Len(load.msgs) <= Len(content[u])
               /\ \A i \in 1 .. Len(load.msgs) : load.msgs[i] = content[u][pos[u] + i]
    <3>1. n \in Nat \ {0}
      BY MuxerAssumption
    <3>2. pos[u] + n <= Len(content[u])
      BY <2>1, <2>3, <3>1
    <3>3. load.what = "More" /\ load.msgs = SubSeq(content[u], pos[u] + 1, pos[u] + n)
      BY <2>3, ZenonT(30)
    <3>4. PICK s \in Seq(Message), p \in Nat : s = content[u] /\ p = pos[u]
      BY <2>1
    <3>5. p + n <= Len(s) /\ load.msgs = SubSeq(s, p + 1, p + n)
      BY <3>2, <3>3, <3>4
    <3>6. /\ SubSeq(s, p + 1, p + n) \in Seq(Message)
          /\ Len(SubSeq(s, p + 1, p + n)) = n
          /\ \A i \in 1 .. n : SubSeq(s, p + 1, p + n)[i] = s[p + i]
      BY <3>1, <3>5, Batch, ZenonT(30)
    <3>7. /\ load.msgs \in Seq(Message) /\ Len(load.msgs) = n
          /\ \A i \in 1 .. n : load.msgs[i] = content[u][pos[u] + i]
      BY <3>4, <3>5, <3>6, ZenonT(30)
    <3> QED
      BY <3>1, <3>2, <3>3, <3>7, ZenonT(30)
  <2>4. <<>> \in Seq(Message)
    BY EmptySeq
  <2>5. CASE \E n \in 1 .. UpBatch :
               /\ n <= Len(content[u]) - pos[u]
               /\ load = [what |-> "More", msgs |-> SubSeq(content[u], pos[u] + 1, pos[u] + n)]
    BY <1>2, <2>3, <2>5, ZenonT(30)
  <2>6. CASE Len(content[u]) - pos[u] = 0 /\ load = [what |-> "NoMore", msgs |-> <<>>]
    BY <1>2, <2>1, <2>4, <2>6
  <2>7. CASE agains < MaxAgains /\ load = [what |-> "TryAgain", msgs |-> <<>>]
    BY <1>2, <2>4, <2>7
  <2>8. CASE errors < MaxErrors /\ load = [what |-> "Error", msgs |-> <<>>]
    BY <1>2, <2>4, <2>8
  <2> QED
    BY <2>2, <2>5, <2>6, <2>7, <2>8, ZenonT(30)
<1> QED
  BY <1>1, <1>2

\* next() returns: what it leaves.
LEMMA ReturnLeaves ==
    ASSUME TypeOK, NEW exc \in {"None", "TryAgain", "Error"},
           NEW msgs \in Seq(MarkedMessage), Return(exc, msgs)
    PROVE  /\ pc' = "idle"
           /\ out' \in Seq(MarkedMessage)
           /\ delivered' \in Seq(MarkedMessage)
           /\ saved' \in {"None", "Error"}
           /\ status' \in {"OK", "END", "AGAIN", "ERROR"}
           /\ state' \in {state, "ENDED"}
           /\ state = "SEEK_FAILED" \/ state' # "SEEK_FAILED"
<1>1. delivered \in Seq(MarkedMessage) /\ saved \in {"None", "Error"} /\ state \in UpStates
  BY DEF TypeOK
<1>2. delivered \o msgs \in Seq(MarkedMessage) /\ <<>> \in Seq(MarkedMessage)
  BY <1>1, ConcatProperties, EmptySeq
<1>3. status' \in {"OK", "END", "AGAIN", "ERROR"}
  BY DEF Return
<1> QED
  BY <1>1, <1>2, <1>3 DEF Return, UpStates

\* reload() of one upstream iterator: types, and what it leaves alone.
LEMMA ReloadLeaves ==
    ASSUME TypeOK, \A v \in Upstreams : pos[v] <= Len(content[v]),
           NEW u \in Upstreams, NEW b \in Seq(Message), NEW load \in Loads(u, b),
           Reload(u, b, load)
    PROVE  /\ buf' \in [Upstreams -> Seq(Message)]
           /\ pos' \in [Upstreams -> Nat]
           /\ upState' \in [Upstreams -> UpStates]
           /\ mustDiscard' \in [Upstreams -> BOOLEAN]
           /\ agains' \in Nat /\ errors' \in Nat
           /\ \A v \in Upstreams : pos'[v] <= Len(content[v])
           /\ \A v \in Upstreams \ {u} : buf'[v] = buf[v] /\ (mustDiscard'[v] <=> mustDiscard[v])
           /\ mustDiscard'[u] <=> load.what = "More"
           /\ load.what = "More" <=> buf'[u] # <<>>
           /\ errors' = 0 => errors = 0 /\ load.what # "Error"
           /\ load.what \in {"More", "NoMore", "TryAgain", "Error"}
<1>1. /\ load.msgs \in Seq(Message)
      /\ Len(load.msgs) \in Nat
      /\ load.what \in {"More", "NoMore", "TryAgain", "Error"}
      /\ load.what = "More" <=> load.msgs # <<>>
      /\ b = <<>> => pos[u] + Len(load.msgs) <= Len(content[u])
  <2>1. load.msgs \in Seq(Message)
    BY LoadCases
  <2>2. Len(<<>>) = 0 /\ pos[u] \in Nat /\ pos[u] <= Len(content[u])
    BY DEF TypeOK
  <2> QED
    BY <2>1, <2>2, LoadCases
<1>2. /\ buf \in [Upstreams -> Seq(Message)] /\ pos \in [Upstreams -> Nat]
      /\ upState \in [Upstreams -> UpStates] /\ agains \in Nat /\ errors \in Nat
  BY DEF TypeOK
<1>3. /\ buf' \in [Upstreams -> Seq(Message)]
      /\ buf'[u] = load.msgs
      /\ \A v \in Upstreams \ {u} : buf'[v] = buf[v]
  BY <1>1, <1>2 DEF Reload
<1>4. /\ pos' \in [Upstreams -> Nat]
      /\ \A v \in Upstreams : pos'[v] <= Len(content[v])
  BY <1>1, <1>2, SMTT(30) DEF Reload
<1>5. upState' \in [Upstreams -> UpStates]
  BY <1>2 DEF Reload, UpStates
<1>6. /\ mustDiscard' \in [Upstreams -> BOOLEAN]
      /\ mustDiscard'[u] <=> load.what = "More"
      /\ \A v \in Upstreams \ {u} : mustDiscard'[v] <=> mustDiscard[v]
  <2>1. mustDiscard \in [Upstreams -> BOOLEAN]
    BY DEF TypeOK
  <2>2. mustDiscard' = [mustDiscard EXCEPT ![u] = load.what = "More"]
    BY DEF Reload
  <2> QED
    BY <2>1, <2>2, ZenonT(30)
<1>7. /\ agains' \in Nat /\ errors' \in Nat
      /\ errors' = 0 => errors = 0 /\ load.what # "Error"
  BY <1>1, <1>2 DEF Reload
<1> QED
  BY <1>1, <1>3, <1>4, <1>5, <1>6, <1>7

---------------------------------------------------------------------------
\* The initial state satisfies the inductive invariant.
LEMMA InitInv == Init => MuxerInv
<1> SUFFICES ASSUME Init PROVE MuxerInv
  OBVIOUS
<1>1. TypeOK
  <2>1. content \in [Upstreams -> Seq(Message)]
    BY TracesAreSequences DEF Init
  <2>2. AllUpstreams \in Seq(Upstreams)
    BY MuxerAssumption DEF AllUpstreams, Upstreams
  <2>3. <<>> \in Seq(Message) /\ <<>> \in Seq(MarkedMessage)
    BY EmptySeq
  <2> QED
    BY <2>1, <2>2, <2>3 DEF Init, TypeOK, UpStates
<1>2. \A u \in Upstreams : pos[u] <= Len(content[u])
  <2>1. \A u \in Upstreams : pos[u] = 0 /\ Len(content[u]) \in Nat
    BY <1>1 DEF Init, TypeOK
  <2> QED
    BY <2>1
<1>3. \A u \in Upstreams : InPlace(u)
  BY DEF Init, InPlace
<1> QED
  BY <1>1, <1>2, <1>3 DEF MuxerInv, Init, NoAssertionFails

\* _ensureFullHeap() reloads an upstream iterator which isn't in the heap.
LEMMA FillReloadInv == MuxerInv /\ FillReload => MuxerInv'
<1> SUFFICES ASSUME MuxerInv, FillReload PROVE MuxerInv'
  OBVIOUS
<1>1. \A i \in Pending : toReload[i] \in Upstreams \ reloaded
  BY DEF Pending, MuxerInv, TypeOK
<1>2. PICK u \in Upstreams \ reloaded : \E load \in Loads(u, buf[u]) :
                /\ reloaded' = reloaded \cup {u}
                /\ Reload(u, buf[u], load)
                /\ heap' = IF load.what = "More" THEN Insert(heap, u) ELSE heap
                /\ IF Throws(load) THEN Return(load.what, out) ELSE GoOn(out)
                /\ failed' = CASE mustDiscard[u] -> "assertion"
                               [] ~MayReload(u, buf[u]) -> "precondition"
                               [] OTHER -> failed
  BY <1>1 DEF FillReload
<1>3. PICK load \in Loads(u, buf[u]) :
                /\ reloaded' = reloaded \cup {u}
                /\ Reload(u, buf[u], load)
                /\ heap' = IF load.what = "More" THEN Insert(heap, u) ELSE heap
                /\ IF Throws(load) THEN Return(load.what, out) ELSE GoOn(out)
                /\ failed' = CASE mustDiscard[u] -> "assertion"
                               [] ~MayReload(u, buf[u]) -> "precondition"
                               [] OTHER -> failed
  BY <1>2
<1>4. /\ pc \in {"fill", "refill"} /\ state = "ACTIVE"
      /\ UNCHANGED <<live, content, clockOf, toReload, clock, seeks>>
  BY DEF FillReload, Running, MuxerInv
<1>5. TypeOK /\ \A v \in Upstreams : pos[v] <= Len(content[v])
  BY DEF MuxerInv
<1>6. buf[u] \in Seq(Message) /\ out \in Seq(MarkedMessage)
  BY <1>2, <1>5 DEF TypeOK
<1>7. /\ buf' \in [Upstreams -> Seq(Message)]
      /\ pos' \in [Upstreams -> Nat]
      /\ upState' \in [Upstreams -> UpStates]
      /\ mustDiscard' \in [Upstreams -> BOOLEAN]
      /\ agains' \in Nat /\ errors' \in Nat
      /\ \A v \in Upstreams : pos'[v] <= Len(content[v])
      /\ \A v \in Upstreams \ {u} : buf'[v] = buf[v] /\ (mustDiscard'[v] <=> mustDiscard[v])
      /\ mustDiscard'[u] <=> load.what = "More"
      /\ load.what = "More" <=> buf'[u] # <<>>
      /\ errors' = 0 => errors = 0 /\ load.what # "Error"
      /\ load.what \in {"More", "NoMore", "TryAgain", "Error"}
  BY <1>2, <1>3, <1>5, <1>6, ReloadLeaves
<1>8. /\ out' \in Seq(MarkedMessage) /\ delivered' \in Seq(MarkedMessage)
      /\ saved' \in {"None", "Error"}
      /\ status' \in {"NONE", "OK", "END", "AGAIN", "ERROR"}
      /\ pc' \in {"idle", "fill", "refill", "merge"}
      /\ pc' # "idle" => state' = "ACTIVE"
      /\ state' \in {"ACTIVE", "ENDED"}
  <2>1. CASE Throws(load)
    BY <1>3, <1>4, <1>5, <1>6, <1>7, <2>1, ReturnLeaves DEF Throws
  <2>2. CASE ~Throws(load)
    BY <1>3, <1>4, <1>5, <1>6, <2>2 DEF GoOn, TypeOK
  <2> QED
    BY <2>1, <2>2
<1>9. heap' \in [Upstreams -> Nat] /\ failed' \in {"no", "assertion", "precondition"}
  <2>1. heap \in [Upstreams -> Nat] /\ failed \in {"no", "assertion", "precondition"}
    BY <1>5 DEF TypeOK
  <2>2. heap' \in [Upstreams -> Nat]
    BY <1>2, <1>3, <2>1 DEF Insert
  <2>3. failed' \in {"no", "assertion", "precondition"}
    BY <1>3, <2>1
  <2> QED
    BY <2>2, <2>3
<1>10. TypeOK'
  <2>1. reloaded' \subseteq Upstreams /\ seeks' \in Nat /\ state' \in UpStates
    BY <1>2, <1>3, <1>4, <1>5, <1>8, SMTT(30) DEF TypeOK, UpStates
  <2>2. /\ live' \in Modes /\ content' \in [Upstreams -> Seq(Message)]
        /\ clockOf' \in [Upstreams -> Clocks] /\ toReload' \in Seq(Upstreams)
        /\ clock' \in Clocks \cup {NoClock}
    BY <1>4, <1>5 DEF TypeOK
  <2> QED
    BY <1>7, <1>8, <1>9, <2>1, <2>2, ZenonT(30) DEF TypeOK
<1>11. ASSUME errors' = 0
       PROVE  (\A v \in Upstreams : InPlace(v)') /\ failed' # "assertion"
  <2>1. \A v \in Upstreams : InPlace(v)
    BY <1>4, <1>7, <1>11 DEF MuxerInv
  <2>2. ~mustDiscard[u] /\ heap[u] = 0
    BY <1>2, <2>1 DEF InPlace
  <2>3. failed' # "assertion"
    BY <1>3, <1>7, <1>11, <2>2 DEF MuxerInv, NoAssertionFails
  <2>4. InPlace(u)'
    <3>1. heap'[u] = IF load.what = "More" THEN 1 ELSE 0
      BY <1>2, <1>3, <1>5, <2>2 DEF Insert, TypeOK
    <3>2. u \in reloaded'
      BY <1>3
    <3>3. CASE load.what = "More"
      BY <1>7, <3>1, <3>2, <3>3 DEF InPlace
    <3>4. CASE load.what # "More"
      BY <1>7, <3>1, <3>4 DEF InPlace
    <3> QED
      BY <3>3, <3>4
  <2>5. ASSUME NEW v \in Upstreams \ {u} PROVE InPlace(v)'
    <3>1. heap'[v] = heap[v] /\ (v \in reloaded => v \in reloaded')
      BY <1>2, <1>3, <1>5, <2>5, SMTT(30) DEF Insert, TypeOK
    <3> QED
      BY <1>7, <2>1, <2>5, <3>1, ZenonT(30) DEF InPlace
  <2> QED
    BY <2>3, <2>4, <2>5
<1> QED
  BY <1>4, <1>7, <1>8, <1>10, <1>11 DEF MuxerInv, NoAssertionFails

\* _next() appends a message of an upstream iterator which is in the heap,
\* and reloads it.
LEMMA MergeOldestInv ==
    ASSUME MuxerInv, NEW u \in Upstreams, MergeOldest(u)
    PROVE  MuxerInv'
<1> DEFINE rest == Discard(buf[u])
           msgs == Append(out, From(u, Head(buf[u])))
<1>1. PICK load \in Loads(u, rest) :
        /\ Reload(u, rest, load)
        /\ heap' = MergeHeap(u, load)
        /\ toReload' = IF load.what = "TryAgain" THEN Append(toReload, u) ELSE toReload
        /\ IF Throws(load) THEN Return(load.what, msgs) ELSE GoOn(msgs)
        /\ failed' = CASE ~mustDiscard[u] -> "assertion"
                       [] ~MayReload(u, rest) -> "precondition"
                       [] OTHER -> failed
  BY DEF MergeOldest
<1>2. /\ pc = "merge" /\ state = "ACTIVE" /\ heap[u] > 0 /\ buf[u] # <<>>
      /\ clock' = clockOf[u]
      /\ UNCHANGED <<live, content, clockOf, reloaded, seeks>>
  BY DEF MergeOldest, Selects, Running, Tops, InHeap, HeapIsReady, MuxerInv
<1>3. TypeOK /\ \A v \in Upstreams : pos[v] <= Len(content[v])
  BY DEF MuxerInv
<1>4. rest \in Seq(Message) /\ Head(buf[u]) \in Message
  BY <1>2, <1>3, HeadTailProperties DEF TypeOK, Discard
<1>5. msgs \in Seq(MarkedMessage)
  <2>1. From(u, Head(buf[u])) \in MarkedMessage
    BY <1>4 DEF From, MarkedMessage, Message
  <2> QED
    BY <1>3, <2>1, AppendProperties DEF TypeOK
<1> HIDE DEF rest, msgs
<1>6. /\ buf' \in [Upstreams -> Seq(Message)]
      /\ pos' \in [Upstreams -> Nat]
      /\ upState' \in [Upstreams -> UpStates]
      /\ mustDiscard' \in [Upstreams -> BOOLEAN]
      /\ agains' \in Nat /\ errors' \in Nat
      /\ \A v \in Upstreams : pos'[v] <= Len(content[v])
      /\ \A v \in Upstreams \ {u} : buf'[v] = buf[v] /\ (mustDiscard'[v] <=> mustDiscard[v])
      /\ mustDiscard'[u] <=> load.what = "More"
      /\ load.what = "More" <=> buf'[u] # <<>>
      /\ errors' = 0 => errors = 0 /\ load.what # "Error"
      /\ load.what \in {"More", "NoMore", "TryAgain", "Error"}
  BY <1>1, <1>3, <1>4, ReloadLeaves
<1>7. /\ out' \in Seq(MarkedMessage) /\ delivered' \in Seq(MarkedMessage)
      /\ saved' \in {"None", "Error"}
      /\ status' \in {"NONE", "OK", "END", "AGAIN", "ERROR"}
      /\ pc' \in {"idle", "fill", "refill", "merge"}
      /\ pc' # "idle" => state' = "ACTIVE"
      /\ state' \in {"ACTIVE", "ENDED"}
  <2>1. CASE Throws(load)
    BY <1>1, <1>2, <1>3, <1>5, <1>6, <2>1, ReturnLeaves DEF Throws
  <2>2. CASE ~Throws(load)
    BY <1>1, <1>2, <1>3, <1>5, <2>2 DEF GoOn, TypeOK
  <2> QED
    BY <2>1, <2>2
<1>8. /\ heap' \in [Upstreams -> Nat]
      /\ heap'[u] = IF load.what \in {"NoMore", "TryAgain"} THEN heap[u] - 1 ELSE heap[u]
      /\ \A v \in Upstreams \ {u} : heap'[v] = heap[v]
  <2>1. heap \in [Upstreams -> Nat]
    BY <1>3 DEF TypeOK
  <2> QED
    BY <1>1, <1>2, <2>1 DEF MergeHeap, Remove
<1>9. toReload' \in Seq(Upstreams)
  BY <1>1, <1>3, AppendProperties DEF TypeOK
<1>10. TypeOK'
  <2>1. clock' \in Clocks /\ failed' \in {"no", "assertion", "precondition"}
    BY <1>1, <1>2, <1>3 DEF TypeOK
  <2> QED
    BY <1>2, <1>3, <1>6, <1>7, <1>8, <1>9, <2>1, ZenonT(30) DEF TypeOK, UpStates
<1>11. ASSUME errors' = 0
       PROVE  (\A v \in Upstreams : InPlace(v)') /\ failed' # "assertion"
  <2>1. \A v \in Upstreams : InPlace(v)
    BY <1>2, <1>6, <1>11 DEF MuxerInv
  <2>2. mustDiscard[u] /\ heap[u] = 1 /\ u \in reloaded
    BY <1>2, <2>1 DEF InPlace
  <2>3. failed' # "assertion"
    BY <1>1, <1>6, <1>11, <2>2, SMTT(30) DEF MuxerInv, NoAssertionFails
  <2>4. InPlace(u)'
    BY <1>2, <1>6, <1>8, <1>11, <2>2 DEF InPlace
  <2>5. ASSUME NEW v \in Upstreams \ {u} PROVE InPlace(v)'
    BY <1>2, <1>6, <1>8, <2>1, <2>5, ZenonT(30) DEF InPlace
  <2> QED
    BY <2>3, <2>4, <2>5
<1> QED
  BY <1>2, <1>6, <1>7, <1>10, <1>11 DEF MuxerInv, NoAssertionFails

\* The ends of a call which change nothing else.
LEMMA ReturnInv ==
    ASSUME MuxerInv, NEW exc \in {"None", "TryAgain", "Error"}, Return(exc, out),
           UNCHANGED <<upVars, bufVars, heapVars, clock, bounds, failed>>, pc # "idle"
    PROVE  MuxerInv'
<1>1. TypeOK /\ out \in Seq(MarkedMessage) /\ state = "ACTIVE"
  BY DEF MuxerInv, TypeOK
<1>2. /\ pc' = "idle"
      /\ out' \in Seq(MarkedMessage)
      /\ delivered' \in Seq(MarkedMessage)
      /\ saved' \in {"None", "Error"}
      /\ status' \in {"OK", "END", "AGAIN", "ERROR"}
      /\ state' \in {"ACTIVE", "ENDED"}
  BY <1>1, ReturnLeaves
<1>3. TypeOK'
  BY <1>1, <1>2 DEF TypeOK, UpStates, upVars, bufVars, heapVars, bounds
<1>4. \A u \in Upstreams : InPlace(u) => InPlace(u)'
  BY DEF InPlace, bufVars, heapVars
<1> QED
  BY <1>1, <1>2, <1>3, <1>4 DEF MuxerInv, NoAssertionFails, upVars, bounds

\* A new cycle starts in live mode only when the heap is empty.
LEMMA MergeEmptyInv == MuxerInv /\ MergeEmpty => MuxerInv'
<1> SUFFICES ASSUME MuxerInv, MergeEmpty PROVE MuxerInv'
  OBVIOUS
<1>1. TypeOK /\ state = "ACTIVE" /\ pc = "merge" /\ InHeap = {}
  BY DEF MuxerInv, MergeEmpty, Running
<1>2. CASE ~live
  <2>1. Return("None", out) /\ UNCHANGED <<upVars, bufVars, heapVars, clock, bounds, failed>>
    BY <1>2 DEF MergeEmpty
  <2> QED
    BY <1>1, <2>1, ReturnInv
<1>3. CASE live
  <2>1. /\ reloaded' = {} /\ toReload' = AllUpstreams /\ pc' = "refill"
        /\ UNCHANGED <<heap, out, delivered, saved, status, state, upVars, bufVars, clock,
                       bounds, failed>>
    BY <1>3 DEF MergeEmpty
  <2>2. AllUpstreams \in Seq(Upstreams)
    BY MuxerAssumption DEF AllUpstreams, Upstreams
  <2>3. TypeOK'
    BY <1>1, <2>1, <2>2, SMTT(30) DEF TypeOK, upVars, bufVars, bounds
  <2>4. ASSUME NEW u \in Upstreams, InPlace(u) PROVE InPlace(u)'
    <3>1. heap[u] = 0
      BY <1>1, <2>4, SMTT(30) DEF InHeap, TypeOK
    <3> QED
      BY <2>1, <2>4, <3>1 DEF InPlace, bufVars
  <2> QED
    BY <1>1, <2>1, <2>3, <2>4 DEF MuxerInv, NoAssertionFails, upVars, bounds
<1> QED
  BY <1>2, <1>3

\* seekBeginning() empties the heap, and all that it relates to if no
\* upstream iterator refuses.
LEMMA SeekBeginningInv ==
    ASSUME MuxerInv, NEW done \in 0 .. Ports, SeekBeginning(done)
    PROVE  MuxerInv'
<1>1. TypeOK /\ pc = "idle"
  BY DEF MuxerInv, SeekBeginning, Running
<1>2. TypeOK'
  <2>1. <<>> \in Seq(Message) /\ <<>> \in Seq(MarkedMessage) /\ <<>> \in Seq(Upstreams)
    BY EmptySeq
  <2>2. AllUpstreams \in Seq(Upstreams)
    BY MuxerAssumption DEF AllUpstreams, Upstreams
  <2>3. /\ buf' \in [Upstreams -> Seq(Message)] /\ pos' \in [Upstreams -> Nat]
        /\ heap' \in [Upstreams -> Nat] /\ upState' \in [Upstreams -> UpStates]
    BY <1>1, <2>1, SMTT(30) DEF TypeOK, SeekBeginning, UpStates
  <2>4. mustDiscard' \in [Upstreams -> BOOLEAN]
    BY DEF SeekBeginning
  <2>5. /\ toReload' \in Seq(Upstreams) /\ state' \in UpStates
        /\ status' \in {"OK", "AGAIN"} /\ delivered' \in Seq(MarkedMessage)
    <3>1. CASE done = Ports
      BY <2>1, <2>2, <3>1, SMTT(30) DEF SeekBeginning, UpStates
    <3>2. CASE done # Ports
      BY <1>1, <2>1, <3>2, SMTT(30) DEF TypeOK, SeekBeginning, UpStates
    <3> QED
      BY <3>1, <3>2
  <2>6. saved' = "None" /\ seeks' \in Nat
    BY <1>1 DEF TypeOK, SeekBeginning
  <2> QED
    BY <1>1, <2>3, <2>4, <2>5, <2>6, ZenonT(30) DEF TypeOK, SeekBeginning
<1>3. \A u \in Upstreams : pos'[u] <= Len(content'[u])
  <2>1. \A u \in Upstreams : Len(content[u]) \in Nat /\ pos[u] <= Len(content[u])
    BY <1>1 DEF MuxerInv, TypeOK
  <2> QED
    BY <2>1 DEF SeekBeginning
<1>4. ASSUME state' # "SEEK_FAILED", NEW u \in Upstreams PROVE InPlace(u)'
  <2>1. done = Ports /\ u <= done
    BY <1>4 DEF SeekBeginning, Upstreams
  <2>2. heap'[u] = 0 /\ buf'[u] = <<>>
    BY <2>1 DEF SeekBeginning
  <2>3. ~(u > done)
    BY <2>1, MuxerAssumption DEF Upstreams
  <2>4. ~mustDiscard'[u]
    BY <2>3, ZenonT(30) DEF SeekBeginning
  <2> QED
    BY <2>2, <2>4, SMTT(30) DEF InPlace
<1> QED
  BY <1>1, <1>2, <1>3, <1>4, SMTT(30) DEF MuxerInv, NoAssertionFails, SeekBeginning

\* Every step preserves the inductive invariant.
LEMMA NextInv == MuxerInv /\ [Next]_vars => MuxerInv'
<1> SUFFICES ASSUME MuxerInv, [Next]_vars PROVE MuxerInv'
  OBVIOUS
<1> USE DEF upVars, bufVars, heapVars, bounds
<1>1. CASE NextThrowsSaved
  BY <1>1, SMTT(30) DEF NextThrowsSaved, MayCallNext, Running, MuxerInv, TypeOK, InPlace, NoAssertionFails
<1>2. CASE NextCall
  BY <1>2 DEF NextCall, MayCallNext, Running, MuxerInv, TypeOK, InPlace, NoAssertionFails
<1>3. CASE FillReload
  BY <1>3, FillReloadInv, SMTT(30)
<1>4. CASE FillDone
  BY <1>4 DEF FillDone, Running, MuxerInv, TypeOK, InPlace, NoAssertionFails
<1>5. CASE RefillDone
  BY <1>5, ReturnInv DEF RefillDone, Running
<1>6. CASE MergeFull
  BY <1>6, ReturnInv, SMTT(30) DEF MergeFull, Running
<1>7. CASE MergeEmpty
  BY <1>7, MergeEmptyInv
<1>8. CASE MergeStale
  <2>1. errors # 0
    <3>1. PICK u \in Upstreams : heap[u] > 0 /\ buf[u] = <<>>
      BY <1>8 DEF MergeStale, HeapIsReady, InHeap
    <3>2. state = "ACTIVE"
      BY <1>8 DEF MergeStale, Running, MuxerInv
    <3> QED
      BY <3>1, <3>2, SMTT(30) DEF MuxerInv, InPlace
  <2> QED
    BY <1>8, <2>1 DEF MergeStale, Running, MuxerInv, TypeOK, InPlace, NoAssertionFails
<1>9. ASSUME NEW u \in Upstreams, MergeUncorrelated(u) PROVE MuxerInv'
  BY <1>9, ReturnInv DEF MergeUncorrelated, Selects, Running
<1>10. ASSUME NEW u \in Upstreams, MergeOldest(u) PROVE MuxerInv'
  BY <1>10, MergeOldestInv, SMTT(30)
<1>11. CASE CanSeekBeginning
  BY <1>11 DEF CanSeekBeginning, Running, MuxerInv, TypeOK, InPlace, NoAssertionFails
<1>12. ASSUME NEW done \in 0 .. Ports, SeekBeginning(done) PROVE MuxerInv'
  BY <1>12, SeekBeginningInv, SMTT(30)
<1>13. CASE UNCHANGED vars
  BY <1>13 DEF vars, MuxerInv, TypeOK, InPlace, NoAssertionFails
<1> QED
  BY <1>1, <1>2, <1>3, <1>4, <1>5, <1>6, <1>7, <1>8, <1>9, <1>10, <1>11, <1>12, <1>13 DEF Next

---------------------------------------------------------------------------
\* The inductive invariant holds in every state.
LEMMA MuxerInvariant == Spec => []MuxerInv
  BY InitInv, NextInv, PTL DEF Spec

\* As long as no upstream iterator failed, the heap of muxer::MsgIter has
\* each upstream iterator exactly while its current message is to be
\* discarded, whatever the number of ports, "try again" answers and seeks.
THEOREM HeapSoundness == Spec => []HeapIsSound
<1>1. MuxerInv => HeapIsSound
  BY DEF MuxerInv, InPlace, HeapIsSound
<1> QED
  BY <1>1, MuxerInvariant, PTL

\* As long as no upstream iterator failed, msg() and discard() have a
\* message, and reload() has none to discard (the assertions of
\* upstream-msg-iter.cpp).
THEOREM AssertionsHold == Spec => []NoAssertionFails
  BY MuxerInvariant, PTL DEF MuxerInv

---------------------------------------------------------------------------
(* What the steps do with the messages *)

\* The messages b are the last ones which the upstream iterator returned.
Held(u, b) ==
    /\ Len(b) <= pos[u]
    /\ \A i \in 1 .. Len(b) : b[i] = content[u][(pos[u] - Len(b)) + i]

\* No message left of the upstream iterator goes before one of msgs.
NoneBefore(msgs, u) ==
    \A i \in 1 .. Len(msgs), k \in (pos[u] - Len(buf[u])) + 1 .. Len(content[u]) :
        msgs[i].ts # NoTime /\ content[u][k].ts # NoTime => msgs[i].ts <= content[u][k].ts

\* When the muxer isn't in live mode, what isn't reloaded before the first
\* message is never in the heap, so that nothing left in the heap's upstream
\* iterators goes before a message which downstream has.
OrderOK(msgs) ==
    /\ pc # "refill"
    /\ pc = "merge" => Pending = {}
    /\ Pending # {} => msgs = <<>>
    /\ \A u \in InHeap : NoneBefore(msgs, u)
    /\ InTimeOrder(msgs)

\* The inductive invariant.
DeliveryInv ==
    /\ MuxerInv
    /\ content \in [Upstreams -> Traces]
    /\ \A u \in Upstreams : Held(u, buf[u])
    /\ pc = "idle" => out = <<>>
    /\ InHeap \subseteq reloaded
    /\ NothingLostOrRepeated
    /\ ~live => OrderOK(Merged)

---------------------------------------------------------------------------
(* The messages of one upstream iterator among those of downstream. *)

\* There's none before the first message.
LEMMA NothingHasFirst == \A u, trace : HasFirst(<<>>, u, trace, 0)
<1> SUFFICES ASSUME NEW u, NEW trace PROVE HasFirst(<<>>, u, trace, 0)
  OBVIOUS
<1>1. Len(<<>>) = 0 /\ 1 .. 0 = {}
  OBVIOUS
<1>2. [i \in {} |-> i] \in [{} -> {}]
  OBVIOUS
<1> QED
  BY <1>1, <1>2, ZenonT(30) DEF HasFirst

\* _next() appends the message which follows those that downstream has.
LEMMA AppendHasFirst ==
    ASSUME NEW msgs \in Seq(MarkedMessage), NEW x \in MarkedMessage, NEW u, NEW trace,
           NEW n \in Nat, HasFirst(msgs, u, trace, n)
    PROVE  /\ x.up # u => HasFirst(Append(msgs, x), u, trace, n)
           /\ x.up = u /\ x = From(u, trace[n + 1]) => HasFirst(Append(msgs, x), u, trace, n + 1)
<1>1. PICK t \in Seq(MarkedMessage), l \in Nat : t = Append(msgs, x) /\ l = Len(msgs)
  BY LenProperties, AppendProperties, ZenonT(30)
<1>2. /\ Len(t) = l + 1
      /\ \A i \in 1 .. l : t[i] = msgs[i]
      /\ t[l + 1] = x
  BY <1>1, AppendProperties
<1>3. PICK place \in [1 .. n -> 1 .. l] :
        /\ \A i, j \in 1 .. n : i < j => place[i] < place[j]
        /\ \A i \in 1 .. n : msgs[place[i]] = From(u, trace[i])
        /\ \A k \in 1 .. l : msgs[k].up = u => \E i \in 1 .. n : place[i] = k
  BY <1>1, Zenon DEF HasFirst
<1>4. ASSUME x.up # u PROVE HasFirst(t, u, trace, n)
  <2>1. place \in [1 .. n -> 1 .. l + 1]
    BY <1>3
  <2>2. \A i \in 1 .. n : t[place[i]] = From(u, trace[i])
    BY <1>2, <1>3
  <2>3. ASSUME NEW k \in 1 .. l + 1, t[k].up = u
        PROVE  \E i \in 1 .. n : place[i] = k
    <3>1. k # l + 1
      BY <1>2, <1>4, <2>3
    <3>2. k \in 1 .. l
      BY <3>1
    <3> QED
      BY <1>2, <1>3, <2>3, <3>2, Zenon
  <2> QED
    <3> SUFFICES \E p \in [1 .. n -> 1 .. l + 1] :
                    /\ \A i, j \in 1 .. n : i < j => p[i] < p[j]
                    /\ \A i \in 1 .. n : t[p[i]] = From(u, trace[i])
                    /\ \A k \in 1 .. l + 1 : t[k].up = u => \E i \in 1 .. n : p[i] = k
      <4>1. Len(t) = l + 1
        BY <1>2
      <4> QED
        BY <4>1, ZenonT(30) DEF HasFirst
    <3> QED
      BY <1>3, <2>1, <2>2, <2>3, ZenonT(30)
<1>5. ASSUME x.up = u, x = From(u, trace[n + 1]) PROVE HasFirst(t, u, trace, n + 1)
  <2>1. PICK f : f = [i \in 1 .. n + 1 |-> IF i = n + 1 THEN l + 1 ELSE place[i]]
    BY ZenonT(30)
  <2>2. f[n + 1] = l + 1 /\ \A i \in 1 .. n : f[i] = place[i] /\ place[i] \in 1 .. l
    <3>1. n + 1 \in 1 .. n + 1 /\ \A i \in 1 .. n : i \in 1 .. n + 1 /\ i # n + 1
      OBVIOUS
    <3>2. \A i \in 1 .. n : place[i] \in 1 .. l
      OBVIOUS
    <3> QED
      BY <2>1, <3>1, <3>2, Zenon
  <2>3. \A i \in 1 .. n + 1 : i \in 1 .. n \/ i = n + 1
    OBVIOUS
  <2>4. f \in [1 .. n + 1 -> 1 .. l + 1]
    BY <2>1, <2>2, <2>3
  <2>5. \A i, j \in 1 .. n + 1 : i < j => f[i] < f[j]
    <3> SUFFICES ASSUME NEW i \in 1 .. n + 1, NEW j \in 1 .. n + 1, i < j
                 PROVE  f[i] < f[j]
      OBVIOUS
    <3>1. i \in 1 .. n
      BY <2>3
    <3>2. CASE j = n + 1
      BY <2>2, <3>1, <3>2
    <3>3. CASE j \in 1 .. n
      BY <1>3, <2>2, <3>1, <3>3
    <3> QED
      BY <2>3, <3>2, <3>3
  <2>6. \A i \in 1 .. n + 1 : t[f[i]] = From(u, trace[i])
    <3> SUFFICES ASSUME NEW i \in 1 .. n + 1 PROVE t[f[i]] = From(u, trace[i])
      OBVIOUS
    <3>1. CASE i = n + 1
      BY <1>2, <1>5, <2>2, <3>1
    <3>2. CASE i \in 1 .. n
      <4>1. f[i] = place[i] /\ place[i] \in 1 .. l
        BY <2>2, <3>2
      <4>2. msgs[place[i]] = From(u, trace[i])
        BY <1>3, <3>2
      <4> QED
        BY <1>2, <4>1, <4>2
    <3> QED
      BY <2>3, <3>1, <3>2
  <2>7. ASSUME NEW k \in 1 .. l + 1, t[k].up = u
        PROVE  \E i \in 1 .. n + 1 : f[i] = k
    <3>1. CASE k = l + 1
      BY <2>2, <3>1
    <3>2. CASE k \in 1 .. l
      <4>1. PICK i \in 1 .. n : place[i] = k
        BY <1>2, <1>3, <2>7, <3>2, Zenon
      <4>2. f[i] = k /\ i \in 1 .. n + 1
        BY <2>2, <4>1
      <4> QED
        BY <4>2
    <3> QED
      BY <3>1, <3>2
  <2> QED
    <3> SUFFICES \E p \in [1 .. n + 1 -> 1 .. l + 1] :
                    /\ \A i, j \in 1 .. n + 1 : i < j => p[i] < p[j]
                    /\ \A i \in 1 .. n + 1 : t[p[i]] = From(u, trace[i])
                    /\ \A k \in 1 .. l + 1 : t[k].up = u => \E i \in 1 .. n + 1 : p[i] = k
      <4>1. Len(t) = l + 1
        BY <1>2
      <4> QED
        BY <4>1, ZenonT(30) DEF HasFirst
    <3> QED
      BY <2>4, <2>5, <2>6, <2>7, ZenonT(30)
<1> QED
  BY <1>1, <1>4, <1>5

---------------------------------------------------------------------------
(* What the steps do with the messages. *)

\* reload() keeps what is held, and takes nothing.
LEMMA ReloadTakesNothing ==
    ASSUME MuxerInv, NEW u \in Upstreams, NEW b \in Seq(Message), Held(u, b),
           NEW load \in Loads(u, b), Reload(u, b, load), content' = content
    PROVE  /\ Held(u, buf[u])'
           /\ buf'[u] \in Seq(Message) /\ pos'[u] \in Nat
           /\ pos'[u] - Len(buf'[u]) = pos[u] - Len(b)
           /\ \A v \in Upstreams \ {u} : pos'[v] = pos[v] /\ buf'[v] = buf[v]
<1>1. /\ TypeOK /\ \A v \in Upstreams : pos[v] <= Len(content[v])
  BY DEF MuxerInv
<1>2. /\ load.msgs \in Seq(Message)
      /\ \/ b # <<>> /\ load.msgs = b
         \/ /\ b = <<>>
            /\ \A i \in 1 .. Len(load.msgs) : load.msgs[i] = content[u][pos[u] + i]
         \/ b = <<>> /\ load.msgs = <<>>
  BY <1>1, LoadCases
<1>3. /\ buf \in [Upstreams -> Seq(Message)] /\ pos \in [Upstreams -> Nat]
      /\ Len(load.msgs) \in Nat /\ Len(<<>>) = 0
  <2>1. buf \in [Upstreams -> Seq(Message)] /\ pos \in [Upstreams -> Nat]
    BY <1>1 DEF TypeOK
  <2> QED
    BY <1>2, <2>1, LenProperties
<1>4. /\ buf'[u] = load.msgs
      /\ pos'[u] = IF b = <<>> THEN pos[u] + Len(load.msgs) ELSE pos[u]
      /\ \A v \in Upstreams \ {u} : pos'[v] = pos[v] /\ buf'[v] = buf[v]
  BY <1>3 DEF Reload
<1>5. CASE b # <<>>
  BY <1>2, <1>3, <1>4, <1>5, SMTT(30) DEF Held
<1>6. CASE b = <<>>
  <2>1. PICK l \in Nat, p \in Nat : l = Len(load.msgs) /\ p = pos[u]
    BY <1>3
  <2>2. pos'[u] = p + l /\ Len(buf'[u]) = l /\ Len(b) = 0
    BY <1>3, <1>4, <1>6, <2>1
  <2>3. (p + l) - l = p /\ p - 0 = p /\ l <= p + l
    OBVIOUS
  <2>4. \A i \in 1 .. l : buf'[u][i] = content[u][p + i]
    BY <1>2, <1>3, <1>4, <1>6, <2>1
  <2>5. Held(u, buf[u])'
    BY <2>2, <2>3, <2>4 DEF Held
  <2>6. p + l \in Nat /\ pos'[u] - Len(buf'[u]) = pos[u] - Len(b)
    BY <2>1, <2>2, <2>3
  <2> QED
    BY <1>2, <1>4, <2>2, <2>5, <2>6, ZenonT(30)
<1> QED
  BY <1>5, <1>6

\* Nothing is lost when the messages appended so far are delivered.
LEMMA MergedUnchanged ==
    ASSUME TypeOK, NEW msgs \in Seq(MarkedMessage),
           delivered' = delivered \o msgs, out' = <<>>
    PROVE  Merged' = delivered \o msgs
<1>1. delivered \o msgs \in Seq(MarkedMessage)
  BY ConcatProperties DEF TypeOK
<1>2. (delivered \o msgs) \o <<>> = delivered \o msgs
  BY <1>1, ConcatEmptySeq
<1> QED
  BY <1>2 DEF Merged

\* A message appended to the array is one more that downstream has.
LEMMA MergedAppend ==
    ASSUME TypeOK, NEW x \in MarkedMessage
    PROVE  /\ Merged \in Seq(MarkedMessage)
           /\ delivered \o Append(out, x) = Append(Merged, x)
<1>1. delivered \in Seq(MarkedMessage) /\ out \in Seq(MarkedMessage)
  BY DEF TypeOK
<1>2. Merged \in Seq(MarkedMessage)
  BY <1>1, ConcatProperties DEF Merged
<1>3. delivered \o Append(out, x) = Append(delivered \o out, x)
  BY <1>1
<1> QED
  BY <1>2, <1>3 DEF Merged

\* Downstream has the messages msgs after next() has returned them, and also
\* when it goes on.
LEMMA ReturnOrGoOn ==
    ASSUME TypeOK, NEW what, NEW msgs \in Seq(MarkedMessage),
           \/ what # "None" /\ Return(what, msgs)
           \/ GoOn(msgs)
    PROVE  /\ Merged' = delivered \o msgs
           /\ pc' \in {pc, "idle"} /\ state' = state
           /\ pc # "idle" /\ pc' = "idle" => out' = <<>>
<1>1. CASE what # "None" /\ Return(what, msgs)
  BY <1>1, MergedUnchanged, SMTT(30) DEF Return
<1>2. CASE GoOn(msgs)
  BY <1>2 DEF GoOn, Merged
<1> QED
  BY <1>1, <1>2

\* One turn of _ensureFullHeap(): nothing is taken or delivered.
LEMMA FillReloadEffect ==
    ASSUME DeliveryInv, FillReload
    PROVE  /\ Pending # {}
           /\ \E u \in Upstreams :
                /\ reloaded' = reloaded \cup {u}
                /\ InHeap' \subseteq InHeap \cup {u}
                /\ Held(u, buf[u])'
                /\ pos'[u] - Len(buf'[u]) = pos[u] - Len(buf[u])
                /\ \A v \in Upstreams \ {u} : pos'[v] = pos[v] /\ buf'[v] = buf[v]
           /\ Merged' = Merged
           /\ pc \in {"fill", "refill"} /\ pc' \in {pc, "idle"} /\ state' = state
           /\ pc' = "idle" => out' = <<>>
           /\ UNCHANGED <<live, content, toReload>>
<1>1. TypeOK /\ MuxerInv /\ UNCHANGED <<live, content, toReload>> /\ pc \in {"fill", "refill"}
  BY DEF DeliveryInv, MuxerInv, FillReload, Running
<1>2. \A i \in Pending : toReload[i] \in Upstreams
  BY <1>1 DEF Pending, TypeOK
<1>3. PICK u \in Upstreams : \E load \in Loads(u, buf[u]) :
                /\ reloaded' = reloaded \cup {u}
                /\ Reload(u, buf[u], load)
                /\ heap' = IF load.what = "More" THEN Insert(heap, u) ELSE heap
                /\ IF Throws(load) THEN Return(load.what, out) ELSE GoOn(out)
                /\ failed' = CASE mustDiscard[u] -> "assertion"
                               [] ~MayReload(u, buf[u]) -> "precondition"
                               [] OTHER -> failed
  BY <1>2 DEF FillReload
<1>4. PICK load \in Loads(u, buf[u]) :
                /\ reloaded' = reloaded \cup {u}
                /\ Reload(u, buf[u], load)
                /\ heap' = IF load.what = "More" THEN Insert(heap, u) ELSE heap
                /\ IF Throws(load) THEN Return(load.what, out) ELSE GoOn(out)
  BY <1>3
<1>5. Pending # {}
  BY DEF FillReload
<1>6. /\ Held(u, buf[u])'
      /\ pos'[u] - Len(buf'[u]) = pos[u] - Len(buf[u])
      /\ \A v \in Upstreams \ {u} : pos'[v] = pos[v] /\ buf'[v] = buf[v]
  <2>1. buf[u] \in Seq(Message) /\ Held(u, buf[u])
    BY <1>1 DEF DeliveryInv, TypeOK
  <2> QED
    BY <1>1, <1>4, <2>1, ReloadTakesNothing, ZenonT(30)
<1>7. InHeap' \subseteq InHeap \cup {u}
  <2>1. heap \in [Upstreams -> Nat]
    BY <1>1 DEF TypeOK
  <2> QED
    BY <1>4, <2>1 DEF InHeap, Insert
<1>8. /\ Merged' = Merged /\ pc' \in {pc, "idle"} /\ state' = state
      /\ pc' = "idle" => out' = <<>>
  <2>1. out \in Seq(MarkedMessage)
    BY <1>1 DEF TypeOK
  <2>2. \/ load.what # "None" /\ Return(load.what, out)
        \/ GoOn(out)
    BY <1>4 DEF Throws
  <2>3. pc # "idle"
    BY <1>1
  <2> QED
    BY <1>1, <2>1, <2>2, <2>3, ReturnOrGoOn, ZenonT(30) DEF Merged
<1> QED
  BY <1>1, <1>4, <1>5, <1>6, <1>7, <1>8, ZenonT(30)

\* One turn of _next(): one message is taken, and appended.
LEMMA MergeOldestEffect ==
    ASSUME DeliveryInv, NEW u \in Upstreams, MergeOldest(u)
    PROVE  /\ Held(u, buf[u])'
           /\ pos'[u] - Len(buf'[u]) = (pos[u] - Len(buf[u])) + 1
           /\ Head(buf[u]) = content[u][(pos[u] - Len(buf[u])) + 1]
           /\ From(u, Head(buf[u])) \in MarkedMessage
           /\ \A v \in Upstreams \ {u} : pos'[v] = pos[v] /\ buf'[v] = buf[v]
           /\ Merged' = Append(Merged, From(u, Head(buf[u])))
           /\ InHeap' \subseteq InHeap
           /\ u \in reloaded /\ Pending' = Pending
           /\ pc = "merge" /\ pc' \in {pc, "idle"} /\ state' = state
           /\ pc' = "idle" => out' = <<>>
           /\ UNCHANGED <<live, content, reloaded>>
<1> DEFINE rest == Discard(buf[u])
           msgs == Append(out, From(u, Head(buf[u])))
<1>1. PICK load \in Loads(u, rest) :
        /\ Reload(u, rest, load)
        /\ heap' = MergeHeap(u, load)
        /\ toReload' = IF load.what = "TryAgain" THEN Append(toReload, u) ELSE toReload
        /\ IF Throws(load) THEN Return(load.what, msgs) ELSE GoOn(msgs)
  BY DEF MergeOldest
<1>2. /\ buf[u] # <<>> /\ u \in InHeap /\ pc = "merge"
      /\ UNCHANGED <<live, content, reloaded>>
  BY DEF MergeOldest, Selects, Running, Tops, HeapIsReady
<1>3. /\ TypeOK /\ MuxerInv /\ buf[u] \in Seq(Message) /\ pos[u] \in Nat
      /\ Held(u, buf[u]) /\ u \in reloaded
  <2>1. MuxerInv /\ Held(u, buf[u]) /\ u \in reloaded
    BY <1>2 DEF DeliveryInv
  <2>2. TypeOK
    BY <2>1 DEF MuxerInv
  <2> QED
    BY <2>1, <2>2, SMTT(30) DEF TypeOK
<1>4. /\ rest \in Seq(Message) /\ Len(rest) = Len(buf[u]) - 1 /\ Len(buf[u]) \in Nat \ {0}
      /\ \A i \in 1 .. Len(rest) : rest[i] = buf[u][i + 1]
      /\ Head(buf[u]) = buf[u][1] /\ Head(buf[u]) \in Message
  BY <1>2, <1>3, HeadTailProperties, EmptySeq DEF Discard
<1>5. From(u, Head(buf[u])) \in MarkedMessage
  BY <1>4 DEF From, MarkedMessage, Message
<1>6. msgs \in Seq(MarkedMessage)
  BY <1>3, <1>5, AppendProperties DEF TypeOK
<1> HIDE DEF rest
<1>7. Held(u, rest)
  <2>1. Len(rest) <= pos[u]
    BY <1>3, <1>4 DEF Held
  <2>2. ASSUME NEW i \in 1 .. Len(rest)
        PROVE  rest[i] = content[u][(pos[u] - Len(rest)) + i]
    <3>1. /\ i + 1 \in 1 .. Len(buf[u])
          /\ (pos[u] - Len(rest)) + i = (pos[u] - Len(buf[u])) + (i + 1)
      <4>1. PICK p \in Nat, l \in Nat : p = pos[u] /\ l = Len(buf[u]) /\ Len(rest) = l - 1
        BY <1>3, <1>4
      <4>2. i \in 1 .. l - 1
        BY <4>1
      <4>3. i + 1 \in 1 .. l /\ (p - (l - 1)) + i = (p - l) + (i + 1)
        BY <4>2
      <4> QED
        BY <4>1, <4>3
    <3>2. buf[u][i + 1] = content[u][(pos[u] - Len(buf[u])) + (i + 1)]
      BY <1>3, <3>1, SMTT(30) DEF Held
    <3> QED
      BY <1>4, <3>1, <3>2
  <2> QED
    BY <2>1, <2>2 DEF Held
<1>8. /\ Held(u, buf[u])'
      /\ pos'[u] - Len(buf'[u]) = pos[u] - Len(rest)
      /\ \A v \in Upstreams \ {u} : pos'[v] = pos[v] /\ buf'[v] = buf[v]
  BY <1>1, <1>2, <1>3, <1>4, <1>7, ReloadTakesNothing, ZenonT(30)
<1>9. pos'[u] - Len(buf'[u]) = (pos[u] - Len(buf[u])) + 1
  <2>1. PICK p \in Nat, l \in Nat : p = pos[u] /\ l = Len(buf[u]) /\ Len(rest) = l - 1
    BY <1>3, <1>4, ZenonT(30)
  <2>2. p - (l - 1) = (p - l) + 1
    OBVIOUS
  <2> QED
    BY <1>8, <2>1, <2>2, ZenonT(30)
<1>10. Head(buf[u]) = content[u][(pos[u] - Len(buf[u])) + 1]
  BY <1>3, <1>4 DEF Held
<1>11. InHeap' \subseteq InHeap
  <2>1. heap \in [Upstreams -> Nat]
    BY <1>3 DEF TypeOK
  <2> QED
    BY <1>1, <1>2, <2>1 DEF InHeap, MergeHeap, Remove
<1>12. Pending' = Pending
  <2>1. toReload \in Seq(Upstreams)
    BY <1>3 DEF TypeOK
  <2>2. PICK n \in Nat : n = Len(toReload)
    BY <2>1, LenProperties
  <2>3. CASE toReload' = Append(toReload, u)
    <3>1. /\ DOMAIN toReload' = 1 .. n + 1 /\ DOMAIN toReload = 1 .. n
          /\ \A i \in 1 .. n : toReload'[i] = toReload[i]
          /\ toReload'[n + 1] = u
      BY <2>1, <2>2, <2>3, AppendProperties, LenProperties
    <3>2. \A i \in 1 .. n + 1 : i \in 1 .. n \/ i = n + 1
      OBVIOUS
    <3>3. \A i \in 1 .. n : i \in 1 .. n + 1
      OBVIOUS
    <3> QED
      BY <1>2, <1>3, <3>1, <3>2, <3>3 DEF Pending
  <2>4. CASE toReload' = toReload
    BY <1>2, <2>4 DEF Pending
  <2> QED
    BY <1>1, <2>3, <2>4
<1>13. /\ Merged' = delivered \o msgs
       /\ pc' \in {pc, "idle"} /\ state' = state
       /\ pc' = "idle" => out' = <<>>
  <2>1. \/ load.what # "None" /\ Return(load.what, msgs)
        \/ GoOn(msgs)
    BY <1>1 DEF Throws
  <2>2. pc # "idle"
    BY <1>2
  <2> HIDE DEF msgs
  <2> QED
    BY <1>3, <1>6, <2>1, <2>2, ReturnOrGoOn, ZenonT(30)
<1>14. Merged' = Append(Merged, From(u, Head(buf[u])))
  BY <1>3, <1>5, <1>13, MergedAppend, ZenonT(30)
<1> QED
  BY <1>2, <1>3, <1>5, <1>8, <1>9, <1>10, <1>11, <1>12, <1>13, <1>14, ZenonT(30)

---------------------------------------------------------------------------
(* The order of the messages. *)

\* Facts about an upstream iterator, from the invariant.
LEMMA UpstreamFacts ==
    ASSUME DeliveryInv, NEW u \in Upstreams
    PROVE  /\ content[u] \in Seq(Message) /\ Len(content[u]) \in Nat
           /\ DOMAIN content[u] = 1 .. Len(content[u])
           /\ InTimeOrder(content[u])
           /\ buf[u] \in Seq(Message) /\ Len(buf[u]) \in Nat /\ pos[u] \in Nat
           /\ pos[u] <= Len(content[u]) /\ Len(buf[u]) <= pos[u]
           /\ \A k \in 1 .. Len(content[u]) : content[u][k].ts \in Nat
<1>1. /\ content[u] \in Seq(Message) /\ buf[u] \in Seq(Message) /\ pos[u] \in Nat
      /\ pos[u] <= Len(content[u]) /\ Len(buf[u]) <= pos[u]
  BY ZenonT(30) DEF DeliveryInv, MuxerInv, TypeOK, Held
<1>2. InTimeOrder(content[u])
  BY DEF DeliveryInv, Traces
<1>3. \A k \in 1 .. Len(content[u]) : content[u][k] \in Message
  BY <1>1, ElementOfSeq
<1>4. \A m \in Message : m.ts \in Nat
  BY MuxerAssumption, SMTT(30) DEF Message, NoTime
<1> QED
  BY <1>1, <1>2, <1>3, <1>4, LenProperties, SMTT(30)

\* The message which the heap selects doesn't go after any message left in
\* the upstream iterators of the heap.
LEMMA SelectedGoesFirst ==
    ASSUME DeliveryInv, NEW u \in Upstreams, Selects(u), Head(buf[u]).ts # NoTime,
           NEW v \in InHeap, NEW k \in (pos[v] - Len(buf[v])) + 1 .. Len(content[v]),
           content[v][k].ts # NoTime
    PROVE  Head(buf[u]).ts <= content[v][k].ts
<1>1. /\ v \in Upstreams /\ buf[v] # <<>> /\ u \in InHeap /\ buf[u] # <<>>
      /\ ~Older(Head(buf[v]), Head(buf[u]))
  BY DEF Selects, HeapIsReady, Tops, InHeap
<1>2. PICK c \in Seq(Message), n \in Nat, p \in Nat, l \in Nat :
        /\ c = content[v] /\ n = Len(content[v]) /\ p = pos[v] /\ l = Len(buf[v])
        /\ DOMAIN c = 1 .. n /\ InTimeOrder(c) /\ p <= n /\ l <= p
        /\ \A i \in 1 .. n : c[i].ts \in Nat
  BY <1>1, UpstreamFacts, ZenonT(30)
<1>3. buf[v] \in Seq(Message) /\ buf[u] \in Seq(Message)
  BY <1>1, UpstreamFacts, SMTT(30)
<1>4. l # 0 /\ Head(buf[v]) = buf[v][1]
  BY <1>1, <1>2, <1>3, EmptySeq, SMTT(30)
<1>5. Head(buf[v]) = c[(p - l) + 1]
  <2>1. Held(v, buf[v]) /\ 1 \in 1 .. Len(buf[v])
    <3>1. 1 \in 1 .. l
      BY <1>4
    <3> QED
      BY <1>1, <1>2, <3>1, ZenonT(30) DEF DeliveryInv
  <2> QED
    BY <1>2, <1>4, <2>1, SMTT(30) DEF Held
<1>6. Head(buf[v]) \in Message /\ Head(buf[u]) \in Message
  BY <1>1, <1>3, HeadTailProperties
<1>7. Head(buf[v]).ts \in Nat /\ Head(buf[u]).ts \in Nat
  BY <1>6, MuxerAssumption, SMTT(30) DEF Message, NoTime
<1>8. Head(buf[v]).ts # NoTime /\ Head(buf[u]).ts <= Head(buf[v]).ts
  BY <1>1, <1>7 DEF Older
<1>9. k \in (p - l) + 1 .. n /\ c[k].ts # NoTime
  BY <1>2, SMTT(30)
<1>10. CASE k = (p - l) + 1
  BY <1>2, <1>5, <1>8, <1>10, SMTT(30)
<1>11. CASE k # (p - l) + 1
  <2>1. (p - l) + 1 \in 1 .. n /\ k \in 1 .. n /\ (p - l) + 1 < k
    <3>1. p <= n /\ l <= p
      BY <1>2
    <3>2. PICK i \in Int : i = k
      BY <1>9
    <3>3. i \in (p - l) + 1 .. n /\ i # (p - l) + 1
      BY <1>9, <1>11, <3>2
    <3>4. (p - l) + 1 \in 1 .. n /\ i \in 1 .. n /\ (p - l) + 1 < i
      BY <1>4, <3>1, <3>3
    <3> QED
      BY <3>2, <3>4
  <2>2. c[(p - l) + 1].ts <= c[k].ts
    BY <1>2, <1>5, <1>8, <1>9, <2>1, ZenonT(30) DEF InTimeOrder
  <2>3. c[k].ts \in Nat
    BY <1>2, <2>1
  <2>4. Head(buf[u]).ts <= c[k].ts
    <3>1. PICK a \in Nat, b \in Nat, d \in Nat :
            a = Head(buf[u]).ts /\ b = Head(buf[v]).ts /\ d = c[k].ts
      BY <1>7, <2>3, ZenonT(30)
    <3>2. a <= b /\ b <= d
      BY <1>5, <1>8, <2>2, <3>1, SMTT(30)
    <3>3. a <= d
      BY <3>2
    <3> QED
      BY <3>1, <3>3
  <2> QED
    BY <1>2, <2>4
<1> QED
  BY <1>10, <1>11, SMTT(30)

\* A sequence with one more element.
LEMMA OneMore ==
    ASSUME NEW S, NEW q \in Seq(S), NEW e \in S, NEW n \in Nat, n = Len(q)
    PROVE  /\ Len(Append(q, e)) = n + 1 /\ DOMAIN q = 1 .. n /\ DOMAIN Append(q, e) = 1 .. n + 1
           /\ \A i \in 1 .. n : Append(q, e)[i] = q[i]
           /\ Append(q, e)[n + 1] = e
  BY AppendProperties, LenProperties

\* A message whose upstream iterator leads the heap goes at the end.
LEMMA OrderAfterMerge ==
    ASSUME DeliveryInv, ~live, NEW u \in Upstreams, MergeOldest(u)
    PROVE  OrderOK(Merged)'
<1> DEFINE m == From(u, Head(buf[u]))
<1>1. /\ pos'[u] - Len(buf'[u]) = (pos[u] - Len(buf[u])) + 1
      /\ Head(buf[u]) = content[u][(pos[u] - Len(buf[u])) + 1]
      /\ \A v \in Upstreams \ {u} : pos'[v] = pos[v] /\ buf'[v] = buf[v]
      /\ m \in MarkedMessage
      /\ Merged' = Append(Merged, m)
      /\ InHeap' \subseteq InHeap
      /\ Pending' = Pending
      /\ pc = "merge" /\ pc' \in {pc, "idle"}
      /\ UNCHANGED <<live, content, reloaded>>
  BY MergeOldestEffect
<1>2. Selects(u) /\ u \in InHeap /\ buf[u] # <<>>
  BY DEF MergeOldest, Selects, Tops, HeapIsReady
<1>3. m.ts = Head(buf[u]).ts
  BY SMTT(30) DEF From
<1>4. /\ Pending = {} /\ InTimeOrder(Merged) /\ \A v \in InHeap : NoneBefore(Merged, v)
  <2>1. OrderOK(Merged)
    BY DEF DeliveryInv
  <2> QED
    BY <1>1, <2>1, ZenonT(30) DEF OrderOK
<1>5. Merged \in Seq(MarkedMessage)
  <2>1. TypeOK
    BY DEF DeliveryInv, MuxerInv
  <2> QED
    BY <1>1, <2>1, MergedAppend, ZenonT(30)
<1>6. PICK n \in Nat : n = Len(Merged)
  BY <1>5, LenProperties, ZenonT(30)
<1> HIDE DEF m
<1>7. /\ Len(Merged') = n + 1 /\ DOMAIN Merged = 1 .. n /\ DOMAIN Merged' = 1 .. n + 1
      /\ \A i \in 1 .. n : Merged'[i] = Merged[i]
      /\ Merged'[n + 1] = m
  <2>1. m \in MarkedMessage /\ Merged' = Append(Merged, m)
    BY <1>1, ZenonT(30)
  <2>2. /\ Len(Append(Merged, m)) = n + 1 /\ DOMAIN Merged = 1 .. n
        /\ DOMAIN Append(Merged, m) = 1 .. n + 1
        /\ \A i \in 1 .. n : Append(Merged, m)[i] = Merged[i]
        /\ Append(Merged, m)[n + 1] = m
    BY <1>5, <1>6, <2>1, OneMore
  <2> QED
    BY <2>1, <2>2, ZenonT(30)
<1>8. ASSUME NEW v \in InHeap'
      PROVE  NoneBefore(Merged, v)'
  <2>1. v \in InHeap /\ v \in Upstreams
    BY <1>1, SMTT(30) DEF InHeap
  <2>2. \A k \in (pos'[v] - Len(buf'[v])) + 1 .. Len(content[v]) :
            k \in (pos[v] - Len(buf[v])) + 1 .. Len(content[v])
    <3>1. pos[v] \in Nat /\ Len(buf[v]) \in Nat /\ Len(content[v]) \in Nat
      BY <2>1, UpstreamFacts, SMTT(30)
    <3>2. CASE v = u
      <4>1. PICK p \in Nat, l \in Nat : p = pos[v] /\ l = Len(buf[v])
        BY <3>1
      <4>2. pos'[v] - Len(buf'[v]) = (p - l) + 1
        BY <1>1, <3>2, <4>1, ZenonT(30)
      <4> QED
        BY <3>1, <4>1, <4>2
    <3>3. CASE v # u
      BY <1>1, <2>1, <3>3, SMTT(30)
    <3> QED
      BY <3>2, <3>3, SMTT(30)
  <2>3. ASSUME NEW i \in 1 .. n + 1,
               NEW k \in (pos'[v] - Len(buf'[v])) + 1 .. Len(content[v]),
               Merged'[i].ts # NoTime, content[v][k].ts # NoTime
        PROVE  Merged'[i].ts <= content[v][k].ts
    <3>1. CASE i \in 1 .. n
      BY <1>4, <1>6, <1>7, <2>1, <2>2, <2>3, <3>1, SMTT(30) DEF NoneBefore
    <3>2. CASE i = n + 1
      <4>1. Head(buf[u]).ts # NoTime
        BY <1>3, <1>7, <2>3, <3>2, SMTT(30)
      <4>2. Head(buf[u]).ts <= content[v][k].ts
        BY <1>2, <2>1, <2>2, <2>3, <4>1, SelectedGoesFirst, SMTT(30)
      <4> QED
        BY <1>3, <1>7, <3>2, <4>2, SMTT(30)
    <3> QED
      BY <3>1, <3>2, SMTT(30)
  <2>4. content' = content /\ Len(Merged') = n + 1
    BY <1>1, <1>7, ZenonT(30)
  <2> QED
    BY <2>3, <2>4, ZenonT(30) DEF NoneBefore
<1>9. InTimeOrder(Merged')
  <2> SUFFICES ASSUME NEW i \in 1 .. n + 1, NEW j \in 1 .. n + 1, i < j,
                      Merged'[i].ts # NoTime, Merged'[j].ts # NoTime
               PROVE  Merged'[i].ts <= Merged'[j].ts
    BY <1>7, SMTT(30) DEF InTimeOrder
  <2>1. CASE j \in 1 .. n
    <3>1. i \in 1 .. n
      BY <2>1, SMTT(30)
    <3> QED
      BY <1>4, <1>7, <2>1, <3>1, SMTT(30) DEF InTimeOrder
  <2>2. CASE j = n + 1
    <3>1. i \in 1 .. n
      BY <2>2, SMTT(30)
    <3>2. (pos[u] - Len(buf[u])) + 1 \in (pos[u] - Len(buf[u])) + 1 .. Len(content[u])
      <4>1. /\ pos[u] \in Nat /\ Len(buf[u]) \in Nat /\ Len(content[u]) \in Nat
            /\ pos[u] <= Len(content[u]) /\ buf[u] \in Seq(Message)
        BY UpstreamFacts, SMTT(30)
      <4>2. Len(buf[u]) # 0
        BY <1>2, <4>1, EmptySeq, SMTT(30)
      <4> QED
        BY <4>1, <4>2, SMTT(30)
    <3>3. NoneBefore(Merged, u)
      BY <1>2, <1>4
    <3> QED
      BY <1>1, <1>3, <1>6, <1>7, <2>2, <3>1, <3>2, <3>3, SMTT(30) DEF NoneBefore
  <2> QED
    BY <2>1, <2>2, SMTT(30)
<1> QED
  BY <1>1, <1>4, <1>8, <1>9, SMTT(30) DEF OrderOK

----------------------------------------------------------------------------
(* What downstream gets *)

\* A step which takes nothing leaves downstream what it has.
LEMMA NothingTaken ==
    ASSUME NothingLostOrRepeated, content' = content, Merged' = Merged,
           state' # "SEEK_FAILED" => state # "SEEK_FAILED",
           \A u \in Upstreams : pos'[u] - Len(buf'[u]) = pos[u] - Len(buf[u])
    PROVE  NothingLostOrRepeated'
  BY DEF NothingLostOrRepeated, Taken

\* A step which only changes where the call is.
LEMMA QuietStep ==
    ASSUME DeliveryInv, MuxerInv', UNCHANGED <<upVars, bufVars, heap, toReload, reloaded>>,
           Merged' = Merged, pc' = "idle" => out' = <<>>,
           state' # "SEEK_FAILED" => state # "SEEK_FAILED",
           pc' \in {pc, "idle", "fill"} \/ (pc' = "merge" /\ Pending = {})
    PROVE  DeliveryInv'
<1>1. UNCHANGED <<live, content, pos, buf, heap, toReload, reloaded>>
  BY DEF upVars, bufVars
<1>2. \A u \in Upstreams : Held(u, buf[u])'
  BY <1>1, ZenonT(30) DEF DeliveryInv, Held
<1>3. InHeap' = InHeap /\ Pending' = Pending
  BY <1>1 DEF InHeap, Pending
<1>4. NothingLostOrRepeated'
  BY <1>1, NothingTaken, ZenonT(30) DEF DeliveryInv
<1>5. ~live => OrderOK(Merged)'
  BY <1>1, <1>3, ZenonT(30) DEF DeliveryInv, OrderOK, NoneBefore
<1> QED
  BY <1>1, <1>2, <1>3, <1>4, <1>5 DEF DeliveryInv

\* The end of a call which takes nothing.
LEMMA ReturnStep ==
    ASSUME DeliveryInv, MuxerInv', pc # "idle", NEW exc, Return(exc, out),
           UNCHANGED <<upVars, bufVars, heapVars>>
    PROVE  DeliveryInv'
<1>1. TypeOK /\ out \in Seq(MarkedMessage)
  BY SMTT(30) DEF DeliveryInv, MuxerInv, TypeOK
<1>2. Merged' = Merged
  BY <1>1, MergedUnchanged, ZenonT(30) DEF Return, Merged
<1>3. state' # "SEEK_FAILED" => state # "SEEK_FAILED"
  BY ZenonT(30) DEF DeliveryInv, MuxerInv
<1> QED
  BY <1>2, <1>3, QuietStep, SMTT(30) DEF Return, heapVars

\* Nothing was delivered yet when something is to be reloaded, except in live
\* mode.
LEMMA FillReloadStep == DeliveryInv /\ MuxerInv' /\ FillReload => DeliveryInv'
<1> SUFFICES ASSUME DeliveryInv, MuxerInv', FillReload PROVE DeliveryInv'
  BY SMTT(30)
<1>1. /\ Pending # {} /\ Merged' = Merged
      /\ pc \in {"fill", "refill"} /\ pc' \in {pc, "idle"} /\ state' = state
      /\ pc' = "idle" => out' = <<>>
      /\ UNCHANGED <<live, content, toReload>>
  BY FillReloadEffect, ZenonT(30)
<1>2. PICK u \in Upstreams :
        /\ reloaded' = reloaded \cup {u}
        /\ InHeap' \subseteq InHeap \cup {u}
        /\ Held(u, buf[u])'
        /\ pos'[u] - Len(buf'[u]) = pos[u] - Len(buf[u])
        /\ \A v \in Upstreams \ {u} : pos'[v] = pos[v] /\ buf'[v] = buf[v]
  BY FillReloadEffect, ZenonT(30)
<1>3. \A v \in Upstreams : Held(v, buf[v])'
  BY <1>1, <1>2, SMTT(30) DEF DeliveryInv, Held
<1>4. NothingLostOrRepeated'
  BY <1>1, <1>2, NothingTaken, ZenonT(30) DEF DeliveryInv
<1>5. ASSUME ~live PROVE OrderOK(Merged)'
  <2>1. Merged = <<>> /\ pc = "fill"
    BY <1>1, <1>5 DEF DeliveryInv, OrderOK
  <2>2. Merged' = <<>> /\ pc' # "merge" /\ pc' # "refill"
    BY <1>1, <2>1
  <2>3. Len(<<>>) = 0 /\ DOMAIN <<>> = {}
    OBVIOUS
  <2>4. InTimeOrder(Merged') /\ \A v \in InHeap' : NoneBefore(Merged, v)'
    BY <2>2, <2>3 DEF InTimeOrder, NoneBefore
  <2> QED
    BY <2>2, <2>4 DEF OrderOK
<1>6. InHeap' \subseteq reloaded'
  BY <1>2, ZenonT(30) DEF DeliveryInv
<1> QED
  BY <1>1, <1>3, <1>4, <1>5, <1>6, ZenonT(30) DEF DeliveryInv

\* The message taken is the next one of its upstream iterator.
LEMMA MergeOldestStep ==
    ASSUME DeliveryInv, MuxerInv', NEW u \in Upstreams, MergeOldest(u)
    PROVE  DeliveryInv'
<1> DEFINE m == From(u, Head(buf[u]))
<1>1. /\ Held(u, buf[u])'
      /\ pos'[u] - Len(buf'[u]) = (pos[u] - Len(buf[u])) + 1
      /\ Head(buf[u]) = content[u][(pos[u] - Len(buf[u])) + 1]
      /\ m \in MarkedMessage
      /\ \A v \in Upstreams \ {u} : pos'[v] = pos[v] /\ buf'[v] = buf[v]
      /\ Merged' = Append(Merged, m)
      /\ InHeap' \subseteq InHeap
      /\ state' = state
      /\ pc' = "idle" => out' = <<>>
      /\ UNCHANGED <<live, content, reloaded>>
  BY MergeOldestEffect, ZenonT(30)
<1>2. m.up = u /\ m = From(u, content[u][Taken(u) + 1])
  BY <1>1, ZenonT(30) DEF From, Taken
<1> HIDE DEF m
<1>3. Merged \in Seq(MarkedMessage)
  BY <1>1, MergedAppend, ZenonT(30) DEF DeliveryInv, MuxerInv
<1>4. ASSUME NEW v \in Upstreams PROVE Held(v, buf[v])'
  <2>1. CASE v = u
    BY <1>1, <2>1, ZenonT(30)
  <2>2. CASE v # u
    <3>1. pos'[v] = pos[v] /\ buf'[v] = buf[v] /\ content' = content /\ Held(v, buf[v])
      BY <1>1, <2>2, ZenonT(30) DEF DeliveryInv
    <3> QED
      BY <3>1 DEF Held
  <2> QED
    BY <2>1, <2>2, Zenon
<1>5. ASSUME state' # "SEEK_FAILED", NEW v \in Upstreams
      PROVE  HasFirst(Merged, v, content[v], Taken(v))'
  <2>1. HasFirst(Merged, v, content[v], Taken(v))
    BY <1>1, <1>5, ZenonT(30) DEF DeliveryInv, NothingLostOrRepeated
  <2>2. Taken(v) \in Nat
    BY UpstreamFacts DEF Taken
  <2>3. CASE v = u
    <3>1. Taken(v)' = Taken(v) + 1
      BY <1>1, <2>3, ZenonT(30) DEF Taken
    <3>2. HasFirst(Append(Merged, m), v, content[v], Taken(v) + 1)
      BY <1>1, <1>2, <1>3, <2>1, <2>2, <2>3, AppendHasFirst, ZenonT(30)
    <3> QED
      BY <1>1, <3>1, <3>2, ZenonT(30)
  <2>4. CASE v # u
    <3>1. Taken(v)' = Taken(v)
      BY <1>1, <1>5, <2>4, ZenonT(30) DEF Taken
    <3>2. HasFirst(Append(Merged, m), v, content[v], Taken(v))
      BY <1>1, <1>2, <1>3, <2>1, <2>2, <2>4, AppendHasFirst, ZenonT(30)
    <3> QED
      BY <1>1, <3>1, <3>2, ZenonT(30)
  <2> QED
    BY <2>3, <2>4, ZenonT(30)
<1>6. NothingLostOrRepeated'
  BY <1>5 DEF NothingLostOrRepeated
<1>7. ~live => OrderOK(Merged)'
  BY OrderAfterMerge
<1> QED
  BY <1>1, <1>4, <1>6, <1>7, ZenonT(30) DEF DeliveryInv

\* A new cycle starts in live mode only.
LEMMA MergeEmptyStep == DeliveryInv /\ MuxerInv' /\ MergeEmpty => DeliveryInv'
<1> SUFFICES ASSUME DeliveryInv, MuxerInv', MergeEmpty PROVE DeliveryInv'
  OBVIOUS
<1>1. CASE ~live
  <2>1. Return("None", out) /\ UNCHANGED <<upVars, bufVars, heapVars>> /\ pc # "idle"
    BY <1>1 DEF MergeEmpty, Running
  <2> QED
    BY <2>1, ReturnStep
<1>2. CASE live
  <2>1. /\ pc' = "refill" /\ InHeap = {}
        /\ UNCHANGED <<heap, out, delivered, state, upVars, bufVars>>
    BY <1>2, ZenonT(30) DEF MergeEmpty
  <2>2. UNCHANGED <<live, content, pos, buf>> /\ Merged' = Merged
    BY <2>1 DEF upVars, bufVars, Merged
  <2>3. \A u \in Upstreams : Held(u, buf[u])'
    BY <2>2, ZenonT(30) DEF DeliveryInv, Held
  <2>4. InHeap' = {}
    BY <2>1, SMTT(30) DEF InHeap
  <2>5. NothingLostOrRepeated'
    BY <2>1, <2>2, NothingTaken, ZenonT(30) DEF DeliveryInv
  <2> QED
    BY <1>2, <2>1, <2>2, <2>3, <2>4, <2>5 DEF DeliveryInv
<1> QED
  BY <1>1, <1>2

\* seekBeginning(): downstream starts again with nothing if no upstream
\* iterator refuses.
LEMMA SeekBeginningStep ==
    ASSUME DeliveryInv, MuxerInv', NEW done \in 0 .. Ports, SeekBeginning(done)
    PROVE  DeliveryInv'
<1>1. /\ pc = "idle" /\ out = <<>> /\ UNCHANGED <<live, content, reloaded, pc, out>>
      /\ heap' = [u \in Upstreams |-> 0]
  BY ZenonT(30) DEF SeekBeginning, Running, DeliveryInv
<1>2. InHeap' = {}
  BY <1>1 DEF InHeap
<1>3. ASSUME NEW u \in Upstreams PROVE Held(u, buf[u])'
  <2>1. CASE u <= done
    <3>1. pos'[u] = 0 /\ buf'[u] = <<>>
      BY <2>1, ZenonT(30) DEF SeekBeginning
    <3> QED
      BY <3>1 DEF Held
  <2>2. CASE ~(u <= done)
    <3>1. pos'[u] = pos[u] /\ buf'[u] = buf[u]
      BY <2>2, ZenonT(30) DEF SeekBeginning
    <3> QED
      BY <1>1, <3>1, ZenonT(30) DEF Held, DeliveryInv
  <2> QED
    BY <2>1, <2>2
<1>4. Len(<<>>) = 0 /\ DOMAIN <<>> = {} /\ <<>> \o <<>> = <<>>
  BY SMTT(30)
<1>5. CASE done = Ports
  <2>1. /\ toReload' = AllUpstreams /\ delivered' = <<>>
    BY <1>5, ZenonT(30) DEF SeekBeginning
  <2>2. Merged' = <<>>
    BY <1>1, <1>4, <2>1 DEF Merged
  <2>3. ASSUME NEW u \in Upstreams PROVE HasFirst(Merged, u, content[u], Taken(u))'
    <3>1. u <= done
      BY <1>5 DEF Upstreams
    <3>2. pos'[u] = 0 /\ buf'[u] = <<>>
      BY <3>1, ZenonT(30) DEF SeekBeginning
    <3>3. Taken(u)' = 0
      <4>1. Len(buf'[u]) = 0
        BY <1>4, <3>2, Zenon
      <4>2. 0 - 0 = 0
        OBVIOUS
      <4> QED
        BY <3>2, <4>1, <4>2, ZenonT(30) DEF Taken
    <3>4. HasFirst(<<>>, u, content'[u], 0)
      BY NothingHasFirst
    <3> QED
      BY <2>2, <3>3, <3>4
  <2>4. InTimeOrder(Merged')
    BY <1>4, <2>2 DEF InTimeOrder
  <2>5. OrderOK(Merged)'
    BY <1>1, <1>2, <2>2, <2>4, SMTT(30) DEF OrderOK
  <2> QED
    BY <1>1, <1>2, <1>3, <2>3, <2>5, ZenonT(30) DEF DeliveryInv, NothingLostOrRepeated
<1>6. CASE done # Ports
  <2>1. toReload' = <<>> /\ state' = "SEEK_FAILED" /\ delivered' = delivered
    BY <1>6, ZenonT(30) DEF SeekBeginning
  <2>2. Merged' = Merged
    BY <1>1, <2>1 DEF Merged
  <2>3. Pending' = {}
    BY <1>4, <2>1 DEF Pending
  <2>4. ~live => OrderOK(Merged)'
    BY <1>1, <1>2, <2>2, <2>3, ZenonT(30) DEF DeliveryInv, OrderOK
  <2> QED
    BY <1>1, <1>2, <1>3, <2>1, <2>4, ZenonT(30) DEF DeliveryInv, NothingLostOrRepeated
<1> QED
  BY <1>5, <1>6, SMTT(30)

\* The initial state satisfies the inductive invariant.
LEMMA DeliveryInit == Init => DeliveryInv
<1> SUFFICES ASSUME Init PROVE DeliveryInv
  OBVIOUS
<1>1. MuxerInv
  BY InitInv
<1>2. Len(<<>>) = 0 /\ DOMAIN <<>> = {} /\ <<>> \o <<>> = <<>>
  OBVIOUS
<1>3. Merged = <<>> /\ InHeap = {}
  BY <1>2 DEF Init, Merged, InHeap
<1>4. ASSUME NEW u \in Upstreams
      PROVE  Held(u, buf[u]) /\ HasFirst(Merged, u, content[u], Taken(u))
  <2>1. pos[u] = 0 /\ buf[u] = <<>>
    BY DEF Init
  <2>2. Held(u, buf[u]) /\ Taken(u) = 0
    <3>1. Len(buf[u]) = 0 /\ 0 - 0 = 0 /\ 0 <= 0 /\ 1 .. 0 = {}
      BY <1>2, <2>1
    <3>2. Taken(u) = 0
      BY <2>1, <3>1, ZenonT(30) DEF Taken
    <3> QED
      BY <2>1, <3>1, <3>2 DEF Held
  <2> QED
    BY <1>3, <2>2, NothingHasFirst
<1>5. OrderOK(Merged)
  <2>1. InTimeOrder(Merged)
    BY <1>2, <1>3 DEF InTimeOrder
  <2> QED
    BY <1>3, <2>1, ZenonT(30) DEF OrderOK, Init
<1> QED
  BY <1>1, <1>3, <1>4, <1>5, ZenonT(30) DEF DeliveryInv, NothingLostOrRepeated, Init

\* Every step preserves the inductive invariant.
LEMMA DeliveryNext == DeliveryInv /\ [Next]_vars => DeliveryInv'
<1> SUFFICES ASSUME DeliveryInv, [Next]_vars PROVE DeliveryInv'
  OBVIOUS
<1>1. MuxerInv'
  BY NextInv, ZenonT(30) DEF DeliveryInv
<1>2. CASE NextThrowsSaved \/ CanSeekBeginning \/ MergeStale \/ UNCHANGED vars
  <2>1. UNCHANGED <<upVars, bufVars, heapVars, pc, out, state, delivered>>
    BY <1>2, ZenonT(30) DEF NextThrowsSaved, CanSeekBeginning, MergeStale, vars
  <2>2. Merged' = Merged /\ (pc' = "idle" => out' = <<>>)
    BY <2>1 DEF Merged, DeliveryInv
  <2> QED
    BY <1>1, <2>1, <2>2, QuietStep DEF heapVars
<1>3. CASE NextCall
  <2>1. UNCHANGED <<upVars, bufVars, heapVars, out, state, delivered>> /\ pc' = "fill"
    BY <1>3 DEF NextCall
  <2>2. Merged' = Merged
    BY <2>1 DEF Merged
  <2> QED
    BY <1>1, <2>1, <2>2, QuietStep DEF heapVars
<1>4. CASE FillReload
  BY <1>1, <1>4, FillReloadStep
<1>5. CASE FillDone
  <2>1. /\ UNCHANGED <<upVars, bufVars, heapVars, out, state, delivered>>
        /\ pc' = "merge" /\ Pending = {}
    BY <1>5 DEF FillDone
  <2>2. Merged' = Merged
    BY <2>1 DEF Merged
  <2> QED
    BY <1>1, <2>1, <2>2, QuietStep DEF heapVars
<1>6. CASE RefillDone
  BY <1>1, <1>6, ReturnStep DEF RefillDone, Running
<1>7. CASE MergeFull
  BY <1>1, <1>7, ReturnStep DEF MergeFull, Running
<1>8. CASE MergeEmpty
  BY <1>1, <1>8, MergeEmptyStep
<1>9. ASSUME NEW u \in Upstreams, MergeUncorrelated(u) PROVE DeliveryInv'
  BY <1>1, <1>9, ReturnStep DEF MergeUncorrelated, Selects, Running
<1>10. ASSUME NEW u \in Upstreams, MergeOldest(u) PROVE DeliveryInv'
  BY <1>1, <1>10, MergeOldestStep
<1>11. ASSUME NEW done \in 0 .. Ports, SeekBeginning(done) PROVE DeliveryInv'
  BY <1>1, <1>11, SeekBeginningStep
<1> QED
  BY <1>2, <1>3, <1>4, <1>5, <1>6, <1>7, <1>8, <1>9, <1>10, <1>11, SMTT(30) DEF Next

\* The inductive invariant holds in every state.
LEMMA DeliveryInvariant == Spec => []DeliveryInv
  BY DeliveryInit, DeliveryNext, PTL DEF Spec

---------------------------------------------------------------------------
\* _next() neither loses nor repeats a message, whatever the number of ports,
\* "try again" answers, errors and seeks: downstream got exactly what the
\* upstream iterators returned and muxer::MsgIter doesn't hold any more.
THEOREM DeliveryIsExact == Spec => []NothingLostOrRepeated
  BY DeliveryInvariant, PTL DEF DeliveryInv

\* What downstream gets of muxer::MsgIter never goes back in time when the
\* component isn't in live mode, even if upstream iterators fail or ask to
\* try again, and after any seek.
THEOREM DeliveryIsOrdered == Spec => []DeliversInTimeOrder
<1>1. DeliveryInv => DeliversInTimeOrder
  BY ZenonT(30) DEF DeliveryInv, OrderOK, DeliversInTimeOrder
<1> QED
  BY <1>1, DeliveryInvariant, PTL

---------------------------------------------------------------------------
(***************************************************************************)
(* The muxer implements the ordered merge (OrderedMerge.tla) when it isn't *)
(* in live mode, its upstream iterators neither fail nor ask to try again, *)
(* and downstream doesn't seek.                                            *)
(***************************************************************************)
Offline == Modes = {FALSE} /\ MaxAgains = 0 /\ MaxErrors = 0 /\ MaxSeeks = 0

\* The inductive invariant: the muxer holds nothing of an upstream iterator
\* that it has reloaded only if it ended.
OfflineInv ==
    /\ DeliveryInv
    /\ live = FALSE
    /\ errors = 0
    /\ state # "SEEK_FAILED"
    /\ toReload = AllUpstreams
    /\ pc = "merge" => \A u \in Upstreams : u \in reloaded
    /\ \A u \in Upstreams : u \in reloaded /\ buf[u] = <<>> => pos[u] = Len(content[u])

---------------------------------------------------------------------------
\* Downstream doesn't seek.
LEMMA NoSeekOffline ==
    ASSUME Offline, OfflineInv, NEW done, SeekBeginning(done)
    PROVE  FALSE
<1>1. seeks \in Nat
  BY ZenonT(30) DEF OfflineInv, DeliveryInv, MuxerInv, TypeOK
<1>2. seeks < 0
  BY ZenonT(30) DEF SeekBeginning, Offline
<1> QED
  BY <1>1, <1>2

\* reload() gets a message, unless there's none left.
LEMMA ReloadOffline ==
    ASSUME Offline, OfflineInv, NEW u \in Upstreams, NEW b \in Seq(Message),
           NEW load \in Loads(u, b), Reload(u, b, load)
    PROVE  /\ load.what \in {"More", "NoMore"}
           /\ buf'[u] = <<>> => pos'[u] = Len(content[u])
           /\ errors' = 0
<1>1. TypeOK /\ \A v \in Upstreams : pos[v] <= Len(content[v])
  BY ZenonT(30) DEF OfflineInv, DeliveryInv, MuxerInv
<1>2. /\ agains \in Nat /\ errors = 0 /\ ~(agains < MaxAgains) /\ ~(errors < MaxErrors)
      /\ buf \in [Upstreams -> Seq(Message)] /\ pos \in [Upstreams -> Nat]
  BY <1>1, SMTT(30) DEF OfflineInv, TypeOK, Offline
<1>3. \/ load.what = "More" /\ load.msgs # <<>>
      \/ b = <<>> /\ load.what = "NoMore" /\ load.msgs = <<>> /\ pos[u] = Len(content[u])
  <2>1. \/ load.what = "More" /\ (load.msgs # <<>> \/ (b # <<>> /\ load.msgs = b))
        \/ b = <<>> /\ load.what = "NoMore" /\ load.msgs = <<>> /\ pos[u] = Len(content[u])
        \/ agains < MaxAgains
        \/ errors < MaxErrors
    BY <1>1, LoadCases, ZenonT(30)
  <2> QED
    BY <1>2, <2>1, ZenonT(30)
<1>4. /\ buf'[u] = load.msgs
      /\ pos'[u] = IF b = <<>> THEN pos[u] + Len(load.msgs) ELSE pos[u]
      /\ load.what # "Error" => errors' = errors
  BY <1>2, ZenonT(30) DEF Reload
<1>5. Len(<<>>) = 0 /\ pos[u] + 0 = pos[u]
  BY <1>2, SMTT(30)
<1> QED
  BY <1>2, <1>3, <1>4, <1>5, ZenonT(30)

\* One turn of _ensureFullHeap().
LEMMA FillReloadOffline ==
    ASSUME Offline, OfflineInv, FillReload
    PROVE  /\ \A v \in Upstreams :
                v \in reloaded' /\ buf'[v] = <<>> => pos'[v] = Len(content[v])
           /\ \A v \in Upstreams : Taken(v)' = Taken(v)
           /\ errors' = 0
           /\ pc' # "merge"
           /\ UNCHANGED <<live, content, toReload, state>> /\ Merged' = Merged
<1>1. DeliveryInv /\ TypeOK
  BY ZenonT(30) DEF OfflineInv, DeliveryInv, MuxerInv
<1>2. /\ Merged' = Merged /\ pc' # "merge"
      /\ UNCHANGED <<live, content, toReload, state>>
  BY <1>1, FillReloadEffect, ZenonT(30)
<1>3. \A i \in Pending : toReload[i] \in Upstreams
  BY <1>1 DEF Pending, TypeOK
<1>4. PICK u \in Upstreams : \E load \in Loads(u, buf[u]) :
                /\ reloaded' = reloaded \cup {u}
                /\ Reload(u, buf[u], load)
                /\ heap' = IF load.what = "More" THEN Insert(heap, u) ELSE heap
                /\ IF Throws(load) THEN Return(load.what, out) ELSE GoOn(out)
                /\ failed' = CASE mustDiscard[u] -> "assertion"
                               [] ~MayReload(u, buf[u]) -> "precondition"
                               [] OTHER -> failed
  BY <1>3 DEF FillReload
<1>5. PICK load \in Loads(u, buf[u]) : reloaded' = reloaded \cup {u} /\ Reload(u, buf[u], load)
  BY <1>4
<1>6. buf[u] \in Seq(Message) /\ Held(u, buf[u]) /\ MuxerInv
  BY <1>1, ZenonT(30) DEF TypeOK, DeliveryInv
<1>7. /\ pos'[u] - Len(buf'[u]) = pos[u] - Len(buf[u])
      /\ \A v \in Upstreams \ {u} : pos'[v] = pos[v] /\ buf'[v] = buf[v]
  BY <1>2, <1>5, <1>6, ReloadTakesNothing, ZenonT(30)
<1>8. errors' = 0 /\ (buf'[u] = <<>> => pos'[u] = Len(content[u]))
  BY <1>5, <1>6, ReloadOffline, ZenonT(30)
<1>9. \A v \in Upstreams : v \in reloaded' /\ buf'[v] = <<>> => pos'[v] = Len(content[v])
  BY <1>5, <1>7, <1>8, ZenonT(30) DEF OfflineInv
<1>10. \A v \in Upstreams : Taken(v)' = Taken(v)
  BY <1>7, ZenonT(30) DEF Taken
<1> QED
  BY <1>2, <1>8, <1>9, <1>10, ZenonT(30)

\* One turn of _next(): one message is taken, and appended.
LEMMA MergeOldestOffline ==
    ASSUME Offline, OfflineInv, NEW u \in Upstreams, MergeOldest(u)
    PROVE  /\ \A v \in Upstreams :
                v \in reloaded' /\ buf'[v] = <<>> => pos'[v] = Len(content[v])
           /\ Taken(u)' = Taken(u) + 1
           /\ buf[u] # <<>> /\ Head(buf[u]) = content[u][Taken(u) + 1]
           /\ \A v \in Upstreams \ {u} : Taken(v)' = Taken(v)
           /\ errors' = 0
           /\ Merged' = Append(Merged, From(u, Head(buf[u])))
           /\ UNCHANGED <<live, content, toReload, reloaded, state>>
<1>1. DeliveryInv /\ TypeOK
  BY ZenonT(30) DEF OfflineInv, DeliveryInv, MuxerInv
<1>2. /\ pos'[u] - Len(buf'[u]) = (pos[u] - Len(buf[u])) + 1
      /\ Head(buf[u]) = content[u][(pos[u] - Len(buf[u])) + 1]
      /\ \A v \in Upstreams \ {u} : pos'[v] = pos[v] /\ buf'[v] = buf[v]
      /\ Merged' = Append(Merged, From(u, Head(buf[u])))
      /\ UNCHANGED <<live, content, reloaded, state>>
  BY <1>1, MergeOldestEffect, ZenonT(30)
<1>3. PICK load \in Loads(u, Discard(buf[u])) :
        /\ Reload(u, Discard(buf[u]), load)
        /\ toReload' = IF load.what = "TryAgain" THEN Append(toReload, u) ELSE toReload
  BY DEF MergeOldest
<1>4. buf[u] # <<>> /\ buf[u] \in Seq(Message)
  BY <1>1 DEF MergeOldest, Selects, Tops, HeapIsReady, TypeOK
<1>5. Discard(buf[u]) \in Seq(Message)
  BY <1>4, HeadTailProperties, SMTT(30) DEF Discard
<1>6. /\ errors' = 0 /\ (buf'[u] = <<>> => pos'[u] = Len(content[u]))
      /\ load.what \in {"More", "NoMore"}
  BY <1>3, <1>5, ReloadOffline, ZenonT(30)
<1>7. \A v \in Upstreams : v \in reloaded' /\ buf'[v] = <<>> => pos'[v] = Len(content[v])
  BY <1>2, <1>6, ZenonT(30) DEF OfflineInv
<1>8. toReload' = toReload
  BY <1>3, <1>6, ZenonT(30)
<1> QED
  BY <1>2, <1>4, <1>6, <1>7, <1>8, ZenonT(30) DEF Taken

---------------------------------------------------------------------------
\* The initial state satisfies the inductive invariant.
LEMMA OfflineInit == Offline /\ Init => OfflineInv
<1> SUFFICES ASSUME Offline, Init PROVE OfflineInv
  OBVIOUS
<1>1. DeliveryInv
  BY DeliveryInit
<1>2. live = FALSE
  BY DEF Init, Offline
<1> QED
  BY <1>1, <1>2 DEF Init, OfflineInv

\* Every step preserves the inductive invariant.
LEMMA OfflineNext == Offline /\ OfflineInv /\ [Next]_vars => OfflineInv'
<1> SUFFICES ASSUME Offline, OfflineInv, [Next]_vars PROVE OfflineInv'
  BY ZenonT(30)
<1> USE DEF upVars, bufVars, heapVars, bounds
<1>1. DeliveryInv'
  BY DeliveryNext, SMTT(30) DEF OfflineInv
<1>2. CASE NextThrowsSaved \/ CanSeekBeginning \/ MergeStale \/ UNCHANGED vars
  BY <1>1, <1>2, ZenonT(30) DEF NextThrowsSaved, CanSeekBeginning, MergeStale, vars, OfflineInv
<1>3. CASE NextCall
  BY <1>1, <1>3, ZenonT(30) DEF NextCall, OfflineInv
<1>4. CASE FillReload
  <2>1. /\ \A v \in Upstreams :
            v \in reloaded' /\ buf'[v] = <<>> => pos'[v] = Len(content[v])
        /\ errors' = 0 /\ pc' # "merge" /\ UNCHANGED <<live, content, toReload, state>>
    BY <1>4, FillReloadOffline, ZenonT(30)
  <2> QED
    BY <1>1, <2>1, ZenonT(30) DEF OfflineInv
<1>5. CASE FillDone
  <2>1. \A u \in Upstreams : u \in reloaded
    BY <1>5, ZenonT(30) DEF FillDone, Pending, OfflineInv, AllUpstreams, Upstreams
  <2> QED
    BY <1>1, <1>5, <2>1, ZenonT(30) DEF FillDone, OfflineInv
<1>6. CASE RefillDone
  BY <1>6, ZenonT(30) DEF RefillDone, Running, OfflineInv, DeliveryInv, OrderOK
<1>7. CASE MergeFull
  BY <1>1, <1>7, SMTT(30) DEF MergeFull, Return, OfflineInv
<1>8. CASE MergeEmpty
  <2>1. Return("None", out) /\ UNCHANGED <<upVars, bufVars, heapVars, clock, bounds, failed>>
    BY <1>8, ZenonT(30) DEF MergeEmpty, OfflineInv
  <2> QED
    BY <1>1, <2>1, SMTT(30) DEF Return, OfflineInv
<1>9. ASSUME NEW u \in Upstreams, MergeUncorrelated(u) PROVE OfflineInv'
  BY <1>1, <1>9, SMTT(30) DEF MergeUncorrelated, Return, OfflineInv
<1>10. ASSUME NEW u \in Upstreams, MergeOldest(u) PROVE OfflineInv'
  <2>1. /\ \A v \in Upstreams :
            v \in reloaded' /\ buf'[v] = <<>> => pos'[v] = Len(content[v])
        /\ errors' = 0 /\ UNCHANGED <<live, content, toReload, reloaded, state>>
    BY <1>10, MergeOldestOffline, ZenonT(30)
  <2>2. \A v \in Upstreams : v \in reloaded'
    BY <1>10, <2>1, SMTT(30) DEF MergeOldest, Selects, Running, OfflineInv
  <2> QED
    BY <1>1, <2>1, <2>2, ZenonT(30) DEF OfflineInv
<1>11. ASSUME NEW done \in 0 .. Ports, SeekBeginning(done) PROVE OfflineInv'
  BY <1>11, NoSeekOffline, ZenonT(30)
<1> QED
  BY <1>2, <1>3, <1>4, <1>5, <1>6, <1>7, <1>8, <1>9, <1>10, <1>11, SMTT(30) DEF Next

\* The inductive invariant holds in every state.
LEMMA OfflineInvariant == Offline => (Spec => []OfflineInv)
<1> SUFFICES ASSUME Offline PROVE Spec => []OfflineInv
  OBVIOUS
<1>1. Init => OfflineInv
  BY OfflineInit
<1>2. OfflineInv /\ [Next]_vars => OfflineInv'
  BY OfflineNext, SMTT(30)
<1> QED
  BY <1>1, <1>2, PTL DEF Spec

---------------------------------------------------------------------------
(* The refinement. *)

\* What is left changes only when a message is taken.
LEMMA LeftUnchanged ==
    ASSUME content' = content, \A u \in Upstreams : Taken(u)' = Taken(u)
    PROVE  Left' = Left
  BY ZenonT(30) DEF Left

\* The initial state of the muxer is one of the ordered merge.
LEMMA RefinesInit == Offline /\ Init => Merge!Init
<1> SUFFICES ASSUME Offline, Init PROVE Merge!Init
  OBVIOUS
<1>1. Left \in [Upstreams -> MarkedTraces]
  <2>1. ASSUME NEW u \in Upstreams PROVE Left[u] \in MarkedTraces
    <3>1. content[u] \in Traces /\ content[u] \in Seq(Message)
      BY TracesAreSequences, ZenonT(30) DEF Init
    <3>2. Taken(u) = 0
      BY DEF Init, Taken
    <3>3. Left[u] = [i \in DOMAIN content[u] |-> From(u, content[u][i])]
      BY <3>1, <3>2 DEF Left
    <3> QED
      BY <3>1, <3>3 DEF MarkedTraces
  <2>2. Left = [u \in Upstreams |-> Left[u]]
    BY ZenonT(30) DEF Left
  <2> QED
    BY <2>1, <2>2
<1>2. Merged = <<>>
  BY DEF Init, Merged
<1>3. (state = "ENDED") = FALSE
  BY SMTT(30) DEF Init
<1> QED
  BY <1>1, <1>2, <1>3 DEF Merge!Init

\* Facts about the messages left, from the invariant.
LEMMA LeftFacts ==
    ASSUME OfflineInv, NEW u \in Upstreams
    PROVE  /\ Taken(u) \in Nat /\ Len(content[u]) \in Nat /\ Taken(u) <= Len(content[u])
           /\ content[u] \in Seq(Message) /\ InTimeOrder(content[u])
           /\ Left[u] \in Seq(MarkedMessage)
           /\ Len(Left[u]) = Len(content[u]) - Taken(u)
           /\ \A i \in 1 .. (Len(content[u]) - Taken(u)) :
                Left[u][i] = From(u, content[u][Taken(u) + i])
<1>1. /\ content[u] \in Seq(Message) /\ Len(content[u]) \in Nat
      /\ buf[u] \in Seq(Message) /\ Len(buf[u]) \in Nat /\ pos[u] \in Nat
      /\ pos[u] <= Len(content[u]) /\ Len(buf[u]) <= pos[u]
  BY UpstreamFacts, ZenonT(30) DEF OfflineInv
<1>2. InTimeOrder(content[u])
  BY UpstreamFacts, ZenonT(30) DEF OfflineInv
<1>3. Taken(u) \in Nat /\ Taken(u) <= Len(content[u])
  BY <1>1 DEF Taken
<1>4. Left[u] = [i \in 1 .. (Len(content[u]) - Taken(u)) |-> From(u, content[u][Taken(u) + i])]
  BY ZenonT(30) DEF Left
<1>5. \A i \in 1 .. (Len(content[u]) - Taken(u)) : From(u, content[u][Taken(u) + i]) \in MarkedMessage
  <2> SUFFICES ASSUME NEW i \in 1 .. (Len(content[u]) - Taken(u))
               PROVE  From(u, content[u][Taken(u) + i]) \in MarkedMessage
    BY ZenonT(30)
  <2>1. Taken(u) + i \in 1 .. Len(content[u])
    BY <1>1, <1>3, SMTT(30)
  <2>2. content[u][Taken(u) + i] \in Message
    BY <1>1, <2>1, ElementOfSeq, ZenonT(30)
  <2> QED
    BY <2>2, ZenonT(30) DEF From, Message, MarkedMessage
<1>6. PICK n \in Nat : n = Len(content[u]) - Taken(u)
  BY <1>1, <1>3, SMTT(30)
<1>7. Left[u] \in [1 .. n -> MarkedMessage]
  BY <1>4, <1>5, <1>6, ZenonT(30)
<1>8. Left[u] \in Seq(MarkedMessage) /\ Len(Left[u]) = n
  BY <1>6, <1>7, SMTT(30)
<1> QED
  BY <1>1, <1>2, <1>3, <1>4, <1>6, <1>8, ZenonT(30)

\* The message which the heap selects is not younger than any message left.
LEMMA SelectedIsOldest ==
    ASSUME OfflineInv, NEW u \in Upstreams, Selects(u),
           Head(buf[u]).ts # NoTime, NEW v \in Upstreams,
           NEW i \in 1 .. (Len(content[v]) - Taken(v))
    PROVE  \/ content[v][Taken(v) + i].ts = NoTime
           \/ Head(buf[u]).ts <= content[v][Taken(v) + i].ts
<1>1. DeliveryInv /\ v \in reloaded /\ InPlace(v)
  BY ZenonT(30) DEF Selects, Running, OfflineInv, DeliveryInv, MuxerInv
<1>2. /\ Len(content[v]) \in Nat /\ Len(buf[v]) \in Nat /\ pos[v] \in Nat
      /\ Len(buf[v]) <= pos[v]
  BY <1>1, UpstreamFacts, ZenonT(30)
<1>3. buf[v] # <<>>
  <2>1. buf[v] = <<>> => pos[v] = Len(content[v]) /\ Taken(v) = pos[v] - 0
    BY <1>1, ZenonT(30) DEF OfflineInv, Taken
  <2> QED
    BY <1>2, <2>1, SMTT(30)
<1>4. v \in InHeap
  BY <1>1, <1>3 DEF InPlace, InHeap
<1>5. Taken(v) + i \in (pos[v] - Len(buf[v])) + 1 .. Len(content[v])
  BY <1>2, SMTT(30) DEF Taken
<1> QED
  BY <1>1, <1>4, <1>5, SelectedGoesFirst, ZenonT(30)

\* A turn of _next() is one delivery of the ordered merge.
LEMMA RefinesDeliver ==
    ASSUME Offline, OfflineInv, OfflineInv', NEW u \in Upstreams, MergeOldest(u)
    PROVE  Merge!Deliver(u)
<1>1. /\ Taken(u)' = Taken(u) + 1
      /\ buf[u] # <<>> /\ Head(buf[u]) = content[u][Taken(u) + 1]
      /\ \A v \in Upstreams \ {u} : Taken(v)' = Taken(v)
      /\ Merged' = Append(Merged, From(u, Head(buf[u])))
      /\ UNCHANGED <<content, state>>
  BY MergeOldestOffline, ZenonT(30)
<1>2. /\ Taken(u) \in Nat /\ Len(content[u]) \in Nat
      /\ Left[u] \in Seq(MarkedMessage)
      /\ Len(Left[u]) = Len(content[u]) - Taken(u)
      /\ \A i \in 1 .. (Len(content[u]) - Taken(u)) :
            Left[u][i] = From(u, content[u][Taken(u) + i])
  BY LeftFacts, ZenonT(30)
<1>3. Len(content[u]) - Taken(u) \in Nat \ {0}
  <2>1. /\ buf[u] \in Seq(Message) /\ pos[u] \in Nat /\ pos[u] <= Len(content[u])
        /\ Len(buf[u]) <= pos[u]
    BY UpstreamFacts, ZenonT(30) DEF OfflineInv
  <2>2. Len(buf[u]) \in Nat \ {0}
    BY <1>1, <2>1, EmptySeq, ZenonT(30)
  <2> QED
    BY <1>2, <2>1, <2>2, SMTT(30) DEF Taken
<1>4. Left[u] # <<>> /\ Head(Left[u]) = From(u, Head(buf[u]))
  <2>1. Left[u] # <<>> /\ Head(Left[u]) = Left[u][1] /\ 1 \in 1 .. (Len(content[u]) - Taken(u))
    BY <1>2, <1>3, SMTT(30)
  <2> QED
    BY <1>1, <1>2, <2>1, ZenonT(30)
<1>5. Merge!IsOldest(Head(Left[u]))
  <2>0. PICK m : m = Head(Left[u]) /\ m.ts = Head(buf[u]).ts
    <3>1. From(u, Head(buf[u])).ts = Head(buf[u]).ts
      BY ZenonT(30) DEF From
    <3> QED
      BY <1>4, <3>1, ZenonT(30)
  <2>1. SUFFICES ASSUME m.ts # NoTime, NEW v \in Upstreams, NEW i \in DOMAIN Left[v]
                 PROVE  Left[v][i].ts = NoTime \/ m.ts <= Left[v][i].ts
    BY <2>0, ZenonT(30) DEF Merge!IsOldest
  <2>2. /\ i \in 1 .. (Len(content[v]) - Taken(v))
        /\ Left[v][i] = From(v, content[v][Taken(v) + i])
    BY ZenonT(30) DEF Left
  <2>3. Selects(u)
    BY SMTT(30) DEF MergeOldest
  <2>4. \/ content[v][Taken(v) + i].ts = NoTime
        \/ Head(buf[u]).ts <= content[v][Taken(v) + i].ts
    BY <1>1, <2>0, <2>1, <2>2, <2>3, SelectedIsOldest, ZenonT(30)
  <2>5. From(v, content[v][Taken(v) + i]).ts = content[v][Taken(v) + i].ts
    BY ZenonT(30) DEF From
  <2> QED
    BY <2>0, <2>2, <2>4, <2>5, ZenonT(30)
<1>6. Left' = [Left EXCEPT ![u] = Tail(Left[u])]
  <2>1. Left'[u] = Tail(Left[u])
    <3>1. PICK n \in Nat : n = (Len(content[u]) - Taken(u)) - 1
      BY <1>2, <1>3, SMTT(30)
    <3>2. Left'[u] = [i \in 1 .. n |-> From(u, content[u][(Taken(u) + 1) + i])]
      <4>1. Left'[u] = [i \in 1 .. (Len(content[u]) - (Taken(u) + 1)) |->
                            From(u, content[u][(Taken(u) + 1) + i])]
        BY <1>1, ZenonT(30) DEF Left
      <4>2. Len(content[u]) - (Taken(u) + 1) = n
        BY <1>2, <3>1, SMTT(30)
      <4> QED
        BY <4>1, <4>2, ZenonT(30)
    <3>3. /\ Tail(Left[u]) \in Seq(MarkedMessage) /\ Len(Tail(Left[u])) = n
          /\ \A i \in 1 .. n : Tail(Left[u])[i] = Left[u][i + 1]
      BY <1>2, <1>4, <3>1, HeadTailProperties, SMTT(30)
    <3>4. \A i \in 1 .. n : Left'[u][i] = Tail(Left[u])[i]
      <4> SUFFICES ASSUME NEW i \in 1 .. n PROVE Left'[u][i] = Tail(Left[u])[i]
        BY ZenonT(30)
      <4>1. i + 1 \in 1 .. (Len(content[u]) - Taken(u)) /\ (Taken(u) + 1) + i = Taken(u) + (i + 1)
        BY <1>2, <3>1, SMTT(30)
      <4> QED
        BY <1>2, <3>2, <3>3, <4>1, ZenonT(30)
    <3> QED
      BY <3>2, <3>3, <3>4, SMTT(30)
  <2>2. \A v \in Upstreams \ {u} : Left'[v] = Left[v]
    BY <1>1, ZenonT(30) DEF Left
  <2>3. /\ Left = [v \in Upstreams |-> Left[v]]
        /\ Left' = [v \in Upstreams |-> Left'[v]]
    BY ZenonT(30) DEF Left
  <2> QED
    BY <2>1, <2>2, <2>3, SMTT(30)
<1>7. Merged' = Append(Merged, Head(Left[u]))
  BY <1>1, <1>4, ZenonT(30)
<1>8. state = "ACTIVE"
  BY ZenonT(30) DEF MergeOldest, Selects, Running, OfflineInv, DeliveryInv, MuxerInv
<1> QED
  BY <1>1, <1>4, <1>5, <1>6, <1>7, <1>8, ZenonT(30) DEF Merge!Deliver

\* A return of next() which doesn't tell the end changes nothing for the
\* ordered merge.
LEMMA RefinesReturn ==
    ASSUME OfflineInv, NEW exc, Return(exc, out), exc # "None" \/ out # <<>>,
           UNCHANGED <<content, pos, buf>>
    PROVE  UNCHANGED Merge!mergeVars
<1>1. Left' = Left
  BY LeftUnchanged DEF Taken
<1>2. Merged' = Merged
  <2>1. TypeOK /\ out \in Seq(MarkedMessage)
    BY ZenonT(30) DEF OfflineInv, DeliveryInv, MuxerInv, TypeOK
  <2> QED
    BY <2>1, MergedUnchanged, SMTT(30) DEF Return, Merged
<1>3. state' = state
  BY DEF Return
<1> QED
  BY <1>1, <1>2, <1>3, SMTT(30) DEF Merge!mergeVars

\* The end of the muxer is the end of the ordered merge: an empty heap means
\* that every upstream iterator ended and that nothing is held.
LEMMA RefinesEnd ==
    ASSUME OfflineInv, MergeEmpty, out = <<>>
    PROVE  Merge!End
<1> USE DEF upVars, bufVars
<1>1. /\ pc = "merge" /\ state = "ACTIVE" /\ live = FALSE /\ InHeap = {}
      /\ Return("None", out) /\ UNCHANGED <<content, pos, buf>>
  BY ZenonT(30) DEF MergeEmpty, Running, OfflineInv, DeliveryInv, MuxerInv
<1>2. ASSUME NEW u \in Upstreams PROVE Left[u] = <<>>
  <2>1. heap[u] \in Nat /\ ~(heap[u] > 0)
    BY <1>1, ZenonT(30) DEF InHeap, OfflineInv, DeliveryInv, MuxerInv, TypeOK
  <2>2. InPlace(u)
    BY <1>1, ZenonT(30) DEF OfflineInv, DeliveryInv, MuxerInv
  <2>3. ~mustDiscard[u]
    BY <2>1, <2>2 DEF InPlace
  <2>4. buf[u] = <<>>
    BY <2>2, <2>3, ZenonT(30) DEF InPlace
  <2>5. u \in reloaded
    BY <1>1, ZenonT(30) DEF OfflineInv
  <2>6. pos[u] = Len(content[u])
    BY <2>4, <2>5, SMTT(30) DEF OfflineInv
  <2>7. Taken(u) = Len(content[u])
    BY <2>4, <2>6, LeftFacts, SMTT(30) DEF Taken
  <2>8. Left[u] \in Seq(MarkedMessage) /\ Len(Left[u]) = 0
    BY <2>7, LeftFacts
  <2> QED
    BY <2>8, EmptySeq, SMTT(30)
<1>3. Left' = Left
  BY <1>1, LeftUnchanged DEF Taken
<1>4. Merged' = Merged
  <2>1. TypeOK /\ out \in Seq(MarkedMessage)
    BY ZenonT(30) DEF OfflineInv, DeliveryInv, MuxerInv, TypeOK
  <2> QED
    BY <1>1, <2>1, MergedUnchanged, SMTT(30) DEF Return, Merged
<1>5. state' = "ENDED"
  BY <1>1 DEF Return
<1> QED
  BY <1>1, <1>2, <1>3, <1>4, <1>5, ZenonT(30) DEF Merge!End

\* Every step of the muxer is one of the ordered merge or changes nothing
\* for it.
LEMMA RefinesNext ==
    ASSUME Offline, OfflineInv, OfflineInv', [Next]_vars
    PROVE  [Merge!Next]_(Merge!mergeVars)
<1> USE DEF upVars, bufVars, heapVars, bounds
<1>1. ASSUME UNCHANGED <<content, pos, buf, out, delivered, state>>
      PROVE  UNCHANGED Merge!mergeVars
  BY <1>1, LeftUnchanged, ZenonT(30) DEF Taken, Merged, Merge!mergeVars
<1>2. CASE NextThrowsSaved \/ NextCall \/ FillDone \/ MergeStale \/ CanSeekBeginning \/ UNCHANGED vars
  BY <1>1, <1>2, ZenonT(30) DEF NextThrowsSaved, NextCall, FillDone, MergeStale, CanSeekBeginning, vars
<1>3. CASE FillReload
  <2>1. /\ \A u \in Upstreams : Taken(u)' = Taken(u)
        /\ UNCHANGED <<content, state>> /\ Merged' = Merged
    BY <1>3, FillReloadOffline, ZenonT(30)
  <2> QED
    BY <2>1, LeftUnchanged, SMTT(30) DEF Merge!mergeVars
<1>4. CASE RefillDone
  BY <1>4, ZenonT(30) DEF RefillDone, Running, OfflineInv, DeliveryInv, OrderOK
<1>5. CASE MergeFull
  <2>1. out # <<>>
    BY <1>5, MuxerAssumption, ZenonT(30) DEF MergeFull
  <2> QED
    BY <1>5, <2>1, RefinesReturn, ZenonT(30) DEF MergeFull
<1>6. CASE MergeEmpty
  <2>1. CASE out = <<>>
    BY <1>6, <2>1, RefinesEnd, SMTT(30) DEF Merge!Next
  <2>2. CASE out # <<>>
    BY <1>6, <2>2, RefinesReturn, ZenonT(30) DEF MergeEmpty, OfflineInv
  <2> QED
    BY <2>1, <2>2
<1>7. ASSUME NEW u \in Upstreams, MergeUncorrelated(u)
      PROVE  UNCHANGED Merge!mergeVars
  BY <1>7, RefinesReturn, ZenonT(30) DEF MergeUncorrelated
<1>8. ASSUME NEW u \in Upstreams, MergeOldest(u)
      PROVE  Merge!Next
  BY <1>8, RefinesDeliver, SMTT(30) DEF Merge!Next
<1>9. ASSUME NEW done \in 0 .. Ports, SeekBeginning(done) PROVE FALSE
  BY <1>9, NoSeekOffline, ZenonT(30)
<1> QED
  BY <1>2, <1>3, <1>4, <1>5, <1>6, <1>7, <1>8, <1>9, SMTT(30) DEF Next

\* Offline, the muxer delivers the messages of all its upstream message
\* iterators, each exactly once, ordered by time, and tells the end only
\* after the last of them, for any number of ports, any contents, batch
\* sizes and capacities.
THEOREM OfflineRefinement == Offline => (Spec => ImplementsMerge)
<1> SUFFICES ASSUME Offline PROVE Spec => ImplementsMerge
  OBVIOUS
<1>1. Init => Merge!Init
  BY RefinesInit
<1>2. OfflineInv /\ OfflineInv' /\ [Next]_vars => [Merge!Next]_(Merge!mergeVars)
  BY RefinesNext
<1>3. Spec => []OfflineInv
  BY OfflineInvariant
<1> QED
  BY <1>1, <1>2, <1>3, PTL DEF Spec, ImplementsMerge, Merge!Spec
============================================================================
