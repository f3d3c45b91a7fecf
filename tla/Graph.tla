------------------------------- MODULE Graph -------------------------------
(***************************************************************************)
(* The trace processing graph of the library (src/lib/graph/graph.c, with  *)
(* the parts of component.c, connection.c, port.c and interrupter.h that   *)
(* graph.c calls).                                                         *)
(*                                                                         *)
(* A graph is configured (components are added, their ports are connected) *)
(* and then run (its sinks consume, in turn).  Almost every function of    *)
(* the graph calls a method of the user's components, and such a method    *)
(* may call the graph again: the initialization method of a component adds *)
(* ports, the "port added" listener connects them or adds another          *)
(* component, and so on.  The model therefore keeps the stack of the graph *)
(* functions in progress: a frame is pushed where the code enters user     *)
(* code and popped when the user code returns.                             *)
(*                                                                         *)
(* Other threads and signal handlers only set and reset interrupters.      *)
(***************************************************************************)
EXTENDS Naturals, Sequences, Functions

CONSTANTS
    Sources,        \* component classes are abstracted to the kind of
    Filters,        \* component they instantiate; a component is its name
    Sinks,
    Ports,          \* the ports components may add: [comp, dir]
    Interrupters,   \* interrupter objects, the default one included
    DefaultInterrupter,
    GuintModulus,   \* 2^32 for the `guint` length of a GQueue
    DevMode         \* whether the BT_ASSERT_PRE_DEV() checks are compiled in

Comps == Sources \cup Filters \cup Sinks

\* The kinds of component are disjoint; a source has output ports only and a
\* sink input ports only.
ASSUME GraphAssumption ==
    /\ Sources \cap Filters = {} /\ Sources \cap Sinks = {}
    /\ Filters \cap Sinks = {}
    /\ Ports \subseteq [comp : Comps, dir : {"in", "out"}]
    /\ \A p \in Ports : /\ p.comp \in Sources => p.dir = "out"
                        /\ p.comp \in Sinks => p.dir = "in"
    /\ DefaultInterrupter \in Interrupters
    /\ GuintModulus \in Nat \ {0}
    /\ DevMode \in BOOLEAN

VARIABLES
    configState,    \* graph->config_state
    components,     \* graph->components, in the order of the array
    initialized,    \* the components with component->initialized
    ports,          \* the ports added to their component so far
    conns,          \* graph->connections: pairs <<output port, input port>>
    hasSink,        \* graph->has_sink
    sinks,          \* the links of graph->sinks_to_consume, head first
    sinksLength,    \* graph->sinks_to_consume->length, a guint
    gicCalled,      \* sinks with graph_is_configured_method_called
    canConsume,     \* graph->can_consume
    interrupters,   \* graph->interrupters
    isSet,          \* is_set of each interrupter object
    stack,          \* graph functions in progress, innermost last
    ret,            \* what the last run function returned
    ended,          \* history: sinks whose consuming method returned END
    since           \* history: for each sink, the sinks that consumed since
                    \* its own last turn

confVars == <<components, initialized, ports, conns, hasSink>>
runVars == <<sinks, sinksLength, gicCalled, ended, since>>
intrVars == <<interrupters, isSet>>
vars == <<configState, confVars, canConsume, runVars, intrVars, stack, ret>>

ConfigStates == {"CONFIGURING", "PARTIALLY_CONFIGURED", "CONFIGURED", "FAULTY"}
NoReturn == [fn |-> "none", status |-> "OK", interrupted |-> FALSE]

Init ==
    /\ configState = "CONFIGURING"
    /\ components = <<>> /\ initialized = {} /\ ports = {} /\ conns = {}
    /\ hasSink = FALSE
    /\ sinks = <<>> /\ sinksLength = 0 /\ gicCalled = {}
    /\ canConsume = TRUE
    /\ interrupters = {DefaultInterrupter}
    /\ isSet = [i \in Interrupters |-> FALSE]
    /\ stack = <<>> /\ ret = NoReturn
    /\ ended = {} /\ since = [s \in Sinks |-> Sinks]

---------------------------------------------------------------------------
(* The stack of calls *)

Last(s) == s[Len(s)]
Front(s) == SubSeq(s, 1, Len(s) - 1)

Idle == stack = <<>>
Top == Last(stack)
In(fn) == stack /= <<>> /\ Top.fn = fn
Push(f) == stack' = Append(stack, f)
Pop == stack' = Front(stack)
Replace(f) == stack' = Append(Front(stack), f)

\* The components whose methods the innermost frame runs.  The listeners which
\* bt_graph_notify_port_added() calls belong to the owner of the graph.
RunningComp ==
    CASE In("add_component") -> {Top.comp}
      [] In("upstream_port_connected") -> {Top.up.comp}
      [] In("downstream_port_connected") -> {Top.down.comp}
      [] OTHER -> {}

\* User code that may call the configuration functions of the graph.
UserControl ==
    \/ Idle
    \/ \E fn \in {"add_component", "add_port", "upstream_port_connected",
                  "downstream_port_connected"} : In(fn)

MakeFaulty == configState' = "FAULTY"

MayConfigureUnlessFaulty == configState /= "FAULTY"
MayConfigure == configState = "CONFIGURING"

\* The configuration functions put back the can_consume they found.
RestoreTrue == canConsume' = TRUE
RestoreCanConsume == canConsume' = Top.saved

\* The length of a GQueue counts its links, modulo the width of a guint.
Inc(n) == (n + 1) % GuintModulus
Dec(n) == (n + GuintModulus - 1) % GuintModulus

\* g_queue_push_tail() and g_queue_push_tail_link()
PushSinkLost(s) == sinks' = sinks /\ sinksLength' = Inc(sinksLength)
PushSinkHead(s) == sinks' = <<s>> \o sinks /\ sinksLength' = Inc(sinksLength)
PushSink(s) == sinks' = Append(sinks, s) /\ sinksLength' = Inc(sinksLength)

---------------------------------------------------------------------------
(* Configuration: add_component_with_init_method_data() *)

\* g_ptr_array_remove_fast(): the last element takes the place of the removed.
RemoveFast(s, e) ==
    LET i == CHOOSE j \in DOMAIN s : s[j] = e
    IN  Front([s EXCEPT ![i] = Last(s)])

\* Up to the call of the user's initialization method, which sees the
\* component in the graph.
AddComponent(c) ==
    /\ UserControl
    /\ MayConfigure
    /\ c \notin Range(components)
    /\ components' = Append(components, c)
    /\ canConsume' = FALSE
    /\ Push([fn |-> "add_component", comp |-> c, saved |-> canConsume])
    /\ UNCHANGED <<configState, initialized, ports, conns, hasSink, runVars,
                   intrVars, ret>>

\* The parameters or the component object cannot be allocated.
AddComponentMemoryError(c) ==
    /\ UserControl
    /\ MayConfigure
    /\ c \notin Range(components)
    /\ MakeFaulty
    /\ UNCHANGED <<confVars, canConsume, runVars, intrVars, stack, ret>>

\* The initialization method returned OK.
AddComponentOk ==
    /\ In("add_component")
    /\ initialized' = initialized \cup {Top.comp}
    /\ IF Top.comp \in Sinks
       THEN /\ hasSink' = TRUE
            /\ PushSink(Top.comp)
       ELSE UNCHANGED <<hasSink, sinks, sinksLength>>
    /\ RestoreCanConsume
    /\ Pop
    /\ UNCHANGED <<configState, components, ports, conns, gicCalled, ended,
                   since, intrVars, ret>>

\* The initialization method failed: the component leaves the graph and, as
\* this was its last reference, is destroyed with its ports.
AddComponentFailed ==
    /\ In("add_component")
    /\ components' = RemoveFast(components, Top.comp)
    /\ ports' = {p \in ports : p.comp /= Top.comp}
    /\ MakeFaulty
    /\ RestoreCanConsume
    /\ Pop
    /\ UNCHANGED <<initialized, conns, hasSink, runVars, intrVars, ret>>

---------------------------------------------------------------------------
(* Configuration: add_port() of component.c and the "port added" listeners *)

AddPort(p) ==
    /\ p.comp \in RunningComp
    /\ MayConfigure
    /\ p \notin ports
    /\ ports' = ports \cup {p}
    /\ Push([fn |-> "add_port", port |-> p])
    /\ UNCHANGED <<configState, components, initialized, conns, hasSink,
                   canConsume, runVars, intrVars, ret>>

AddPortOk ==
    /\ In("add_port")
    /\ Pop
    /\ UNCHANGED <<configState, confVars, canConsume, runVars, intrVars, ret>>

\* A listener failed.  The port stays in the array of its component.
AddPortFailed ==
    /\ In("add_port")
    /\ MakeFaulty
    /\ Pop
    /\ UNCHANGED <<confVars, canConsume, runVars, intrVars, ret>>

---------------------------------------------------------------------------
(* Configuration: bt_graph_connect_ports() *)

IsConnectedUpstream(p) == \E c \in conns : p = c[1]
IsConnected(p) == \E c \in conns : p \in {c[1], c[2]}

\* Up to the call of the upstream component's "port connected" method.
ConnectPorts(up, down) ==
    /\ UserControl
    /\ MayConfigure
    /\ up.dir = "out" /\ down.dir = "in"
    /\ ~IsConnected(up) /\ ~IsConnected(down)
    /\ conns' = conns \cup {<<up, down>>}
    /\ canConsume' = FALSE
    /\ Push([fn |-> "upstream_port_connected", up |-> up, down |-> down,
             saved |-> canConsume])
    /\ UNCHANGED <<configState, components, initialized, ports, hasSink,
                   runVars, intrVars, ret>>

ConnectPortsMemoryError(up, down) ==
    /\ UserControl
    /\ MayConfigure
    /\ up.dir = "out" /\ down.dir = "in"
    /\ ~IsConnected(up) /\ ~IsConnected(down)
    /\ MakeFaulty
    /\ UNCHANGED <<confVars, canConsume, runVars, intrVars, stack, ret>>

\* The upstream component accepted: notify the downstream component.
UpstreamPortConnectedOk ==
    /\ In("upstream_port_connected")
    /\ Replace([Top EXCEPT !.fn = "downstream_port_connected"])
    /\ UNCHANGED <<configState, confVars, canConsume, runVars, intrVars, ret>>

DownstreamPortConnectedOk ==
    /\ In("downstream_port_connected")
    /\ RestoreCanConsume
    /\ Pop
    /\ UNCHANGED <<configState, confVars, runVars, intrVars, ret>>

\* One of the two methods failed: bt_connection_end() disconnects both ports
\* and the connection, no longer referenced, leaves the graph.
PortConnectedFailed ==
    /\ In("upstream_port_connected") \/ In("downstream_port_connected")
    /\ conns' = conns \ {<<Top.up, Top.down>>}
    /\ MakeFaulty
    /\ RestoreCanConsume
    /\ Pop
    /\ UNCHANGED <<components, initialized, ports, hasSink, runVars, intrVars,
                   ret>>

---------------------------------------------------------------------------
(* Running: bt_graph_run(), bt_graph_run_once() and configure_graph() *)

\* The preconditions the API documents for the two run functions.
RunPre ==
    /\ Idle
    /\ configState /= "FAULTY"
    /\ hasSink

\* BT_ASSERT_PRE() and, in a developer build, BT_ASSERT_PRE_DEV() abort the
\* process.
ChecksCanConsume(fn) == fn = "run" \/ DevMode
Aborted == In("abort")

Call(fn) ==
    /\ RunPre
    /\ IF ChecksCanConsume(fn) /\ ~canConsume
       THEN /\ Push([fn |-> "abort"])
            /\ UNCHANGED <<configState, canConsume, ret>>
       ELSE /\ canConsume' = FALSE
            /\ ret' = NoReturn
            /\ IF configState = "CONFIGURED"
               THEN /\ Push([fn |-> "loop", caller |-> fn])
                    /\ UNCHANGED configState
               ELSE /\ configState' = "PARTIALLY_CONFIGURED"
                    /\ Push([fn |-> "configure", caller |-> fn])
    /\ UNCHANGED <<confVars, runVars, intrVars>>

\* The components which configure_graph() still has to notify, by their index.
ToConfigureFromSecond ==
    {i \in DOMAIN components : i > 1 /\ components[i] \in Sinks \ gicCalled}
ToConfigure ==
    {i \in DOMAIN components : components[i] \in Sinks \ gicCalled}

\* The next sink's "graph is configured" method returned OK.
ConfigureSinkOk ==
    /\ In("configure")
    /\ ToConfigure /= {}
    /\ \E i \in ToConfigure :
          /\ \A j \in ToConfigure : i <= j
          /\ gicCalled' = gicCalled \cup {components[i]}
    /\ UNCHANGED <<configState, confVars, canConsume, sinks, sinksLength,
                   ended, since, intrVars, stack, ret>>

\* It failed: bt_graph_run() restores can_consume, bt_graph_run_once() jumps
\* over the statement that does.
ConfigureSinkFailed ==
    /\ In("configure")
    /\ ToConfigure /= {}
    /\ canConsume' = IF Top.caller = "run" THEN TRUE ELSE canConsume
    /\ ret' = [fn |-> Top.caller, status |-> "ERROR", interrupted |-> FALSE]
    /\ Pop
    /\ UNCHANGED <<configState, confVars, runVars, intrVars>>

ConfigureDone ==
    /\ In("configure")
    /\ ToConfigure = {}
    /\ configState' = "CONFIGURED"
    /\ Replace([Top EXCEPT !.fn = "loop"])
    /\ UNCHANGED <<confVars, canConsume, runVars, intrVars, ret>>

---------------------------------------------------------------------------
(* Running: consume_no_check(), consume_sink_node() and the loop *)

IsInterruptedByDefault == isSet[DefaultInterrupter]
IsInterrupted == \E i \in interrupters : isSet[i]

\* Mutant: bt_graph_run_once() leaves can_consume as it is.
ReturnRunOnly(status, interrupted) ==
    /\ ret' = [fn |-> Top.caller, status |-> status,
               interrupted |-> interrupted]
    /\ canConsume' = (Top.caller = "run" \/ canConsume)
    /\ Pop

Return(status, interrupted) ==
    /\ ret' = [fn |-> Top.caller, status |-> status,
               interrupted |-> interrupted]
    /\ canConsume' = TRUE
    /\ Pop

\* Mutant: an interrupted loop goes on instead of returning.
RunInterruptedGoesOn ==
    /\ In("loop") /\ Top.caller = "run"
    /\ IsInterrupted
    /\ UNCHANGED vars

\* bt_graph_run() checks its interrupters before each turn.
RunInterrupted ==
    /\ In("loop") /\ Top.caller = "run"
    /\ IsInterrupted
    /\ Return("AGAIN", TRUE)
    /\ UNCHANGED <<configState, confVars, runVars, intrVars>>

\* consume_no_check() with an empty queue.  bt_graph_run() has no END status.
NothingToConsume ==
    /\ In("loop")
    /\ Top.caller = "run" => ~IsInterrupted
    /\ sinks = <<>>
    /\ Return(IF Top.caller = "run" THEN "OK" ELSE "END", FALSE)
    /\ UNCHANGED <<configState, confVars, runVars, intrVars>>

\* g_queue_pop_head_link(), then the consuming method of the sink is called.
ConsumeHead ==
    /\ In("loop")
    /\ Top.caller = "run" => ~IsInterrupted
    /\ sinks /= <<>>
    /\ sinks' = Tail(sinks)
    /\ sinksLength' = Dec(sinksLength)
    /\ Replace([fn |-> "consume", caller |-> Top.caller, sink |-> Head(sinks)])
    /\ since' = [s \in Sinks |-> IF s = Head(sinks) THEN {}
                                 ELSE since[s] \cup {Head(sinks)}]
    /\ UNCHANGED <<configState, confVars, canConsume, gicCalled, ended,
                   intrVars, ret>>

\* Mutant: the length is taken for that of the other sinks.
AfterConsumeOthers(status, length) ==
    IF Top.caller = "run_once" THEN Return(status, FALSE)
    ELSE IF status = "OK" \/ (status = "AGAIN" /\ length > 0)
    THEN /\ Replace([fn |-> "loop", caller |-> "run"])
         /\ UNCHANGED <<canConsume, ret>>
    ELSE Return(IF status = "END" THEN "OK" ELSE status, FALSE)

\* What the run functions do with the status of consume_no_check(), given the
\* length of the queue of sinks at that time.
AfterConsume(status, length) ==
    IF Top.caller = "run_once" THEN Return(status, FALSE)
    ELSE IF status = "OK" \/ (status = "AGAIN" /\ length > 1)
    THEN /\ Replace([fn |-> "loop", caller |-> "run"])
         /\ UNCHANGED <<canConsume, ret>>
    ELSE Return(IF status = "END" THEN "OK" ELSE status, FALSE)

\* The consuming method returned OK, AGAIN or an error: the sink goes to the
\* tail of the queue.
ConsumeContinues(status) ==
    /\ In("consume")
    /\ PushSink(Top.sink)
    /\ AfterConsume(status, sinksLength')
    /\ UNCHANGED <<configState, confVars, gicCalled, ended, since, intrVars>>

\* An END status is not forwarded if there are sinks left to consume.
EndStatusForwarded == "END"
EndStatus == IF sinks = <<>> THEN "END" ELSE "OK"

\* It returned END.  g_queue_delete_link() frees the link; it expects the link
\* to be in the queue and so decrements the length, which popping the link has
\* already done.
ConsumeEnded ==
    /\ In("consume")
    /\ sinksLength' = Dec(sinksLength)
    /\ ended' = ended \cup {Top.sink}
    /\ AfterConsume(EndStatus, sinksLength')
    /\ UNCHANGED <<configState, confVars, sinks, gicCalled, since, intrVars>>

---------------------------------------------------------------------------
(* Interrupters: set and reset by any thread, at any time *)

SetInterrupter(i) ==
    /\ ~isSet[i]
    /\ isSet' = [isSet EXCEPT ![i] = TRUE]
    /\ UNCHANGED <<configState, confVars, canConsume, runVars, interrupters,
                   stack, ret>>

ResetInterrupter(i) ==
    /\ isSet[i]
    /\ isSet' = [isSet EXCEPT ![i] = FALSE]
    /\ UNCHANGED <<configState, confVars, canConsume, runVars, interrupters,
                   stack, ret>>

AddInterrupter(i) ==
    /\ ~In("loop")
    /\ i \notin interrupters
    /\ interrupters' = interrupters \cup {i}
    /\ UNCHANGED <<configState, confVars, canConsume, runVars, isSet, stack,
                   ret>>

---------------------------------------------------------------------------

\* The user adds components of comps and, from their methods, ports of ps.
Configure(comps, ps) ==
    \/ \E c \in comps : AddComponent(c) \/ AddComponentMemoryError(c)
    \/ AddComponentOk \/ AddComponentFailed
    \/ \E p \in ps : AddPort(p)
    \/ AddPortOk \/ AddPortFailed
    \/ \E up, down \in ports : \/ ConnectPorts(up, down)
                               \/ ConnectPortsMemoryError(up, down)
    \/ UpstreamPortConnectedOk \/ DownstreamPortConnectedOk
    \/ PortConnectedFailed

\* The steps of a run function once it is called.
RunStep ==
    \/ ConfigureSinkOk \/ ConfigureSinkFailed \/ ConfigureDone
    \/ RunInterrupted \/ NothingToConsume \/ ConsumeHead
    \/ \E status \in {"OK", "AGAIN", "ERROR"} : ConsumeContinues(status)
    \/ ConsumeEnded

Run == Call("run") \/ Call("run_once") \/ RunStep

Interrupt(is) ==
    \E i \in is : \/ SetInterrupter(i) \/ ResetInterrupter(i)
                  \/ AddInterrupter(i)

Next == Configure(Comps, Ports) \/ Run \/ Interrupt(Interrupters)

Spec == Init /\ [][Next]_vars

\* A graph function in progress goes on and the user methods it calls return;
\* nothing obliges the user to call a function, nor a thread to interrupt.
FairSpec == Spec /\ WF_vars(RunStep)
---------------------------------------------------------------------------
(* Properties *)

Frames ==
    [fn : {"add_component"}, comp : Comps, saved : BOOLEAN]
    \cup [fn : {"add_port"}, port : Ports]
    \cup [fn : {"upstream_port_connected", "downstream_port_connected"},
          up : Ports, down : Ports, saved : BOOLEAN]
    \cup [fn : {"configure", "loop"}, caller : {"run", "run_once"}]
    \cup [fn : {"consume"}, caller : {"run", "run_once"}, sink : Sinks]
    \cup [fn : {"abort"}]

\* The state of the graph and of the calls in progress has the types of
\* struct bt_graph.
TypeOK ==
    /\ configState \in ConfigStates
    /\ components \in Seq(Comps) /\ initialized \subseteq Comps
    /\ ports \subseteq Ports /\ conns \subseteq Ports \X Ports
    /\ hasSink \in BOOLEAN /\ canConsume \in BOOLEAN
    /\ sinks \in Seq(Sinks) /\ sinksLength \in 0..(GuintModulus - 1)
    /\ gicCalled \subseteq Sinks /\ ended \subseteq Sinks
    /\ since \in [Sinks -> SUBSET Sinks]
    /\ interrupters \subseteq Interrupters
    /\ isSet \in [Interrupters -> BOOLEAN]
    /\ stack \in Seq(Frames)
    /\ ret \in [fn : {"none", "run", "run_once"},
                status : {"OK", "END", "AGAIN", "ERROR"},
                interrupted : BOOLEAN]

InRun == \E fn \in {"configure", "loop", "consume"} : In(fn)
ConsumingSink == IF In("consume") THEN {Top.sink} ELSE {}

\* No sink is lost nor consumed twice at once: whatever its consuming method
\* returns, a sink which is initialized and did not end is exactly once in the
\* queue of sinks or is the one which is consuming; an ended one never comes
\* back (consume_sink_node()).
NoSinkLost ==
    /\ \A i, j \in DOMAIN sinks : sinks[i] = sinks[j] => i = j
    /\ Range(sinks) \cap ConsumingSink = {}
    /\ Range(sinks) \cup ConsumingSink = (initialized \cap Sinks) \ ended

\* bt_graph_run() reports success, and bt_graph_run_once() reports the end,
\* only when every sink of the graph ended.
EndMeansAllSinksEnded ==
    \/ ret.fn = "run" /\ ret.status = "OK"
    \/ ret.fn = "run_once" /\ ret.status = "END"
    => initialized \cap Sinks \subseteq ended

\* While a graph function runs user code, can_consume is false, so that no
\* method or listener can start to consume the graph it is called from.
ExclusiveConsumption == canConsume => Idle

\* A sink only consumes in a configured graph, after the "graph is configured"
\* method of every sink succeeded (configure_graph() and its retries).
ConsumeOnlyConfigured ==
    In("loop") \/ In("consume") =>
        /\ configState = "CONFIGURED"
        /\ Range(components) \cap Sinks \subseteq gicCalled

\* From the first run on, no component, port or connection is added or
\* removed, whatever was in progress when the graph was run.
TopologyFrozen ==
    [][(configState \in {"PARTIALLY_CONFIGURED", "CONFIGURED"})
       => UNCHANGED confVars]_vars

\* As long as the graph is usable, its connections join ports which exist, and
\* a port has at most one connection (bt_connection_end() on the error paths).
ConnectionsSound ==
    configState /= "FAULTY" =>
        /\ \A c \in conns : {c[1], c[2]} \subseteq ports
        /\ \A c, d \in conns : {c[1], c[2]} \cap {d[1], d[2]} /= {} => c = d

\* Sinks take turns: when a sink starts to consume, each sink which waits in
\* the queue consumed since this one's last turn.
RoundRobin ==
    [][~In("consume") /\ In("consume")'
       => Range(sinks') \subseteq since[Top'.sink]]_vars

\* A sink which waits while bt_graph_run() runs gets its turn or the function
\* returns, even if other sinks keep returning AGAIN.
WaitingSinkIsServed ==
    \A s \in Sinks :
        (InRun /\ s \in Range(sinks)) ~> (~InRun \/ s \in ConsumingSink)

\* A running graph which stays interrupted returns to its caller.
InterruptedRunReturns ==
    <>[](\E i \in interrupters : isSet[i]) => []<>~InRun

\* A call of a run function which honours the preconditions that the API
\* documents (RunPre) aborts the process only after bt_graph_run_once() failed
\* to configure the graph, which leaves can_consume false.
LegalRunNeverAborts ==
    Aborted => /\ configState = "PARTIALLY_CONFIGURED"
               /\ ret.fn = "run_once" /\ ret.status = "ERROR"

\* When the only sink which is left returns AGAIN, bt_graph_run() returns AGAIN to
\* its caller, who decides when to call it again (comment in its loop, and
\* graph.h of the API), as long as at most one sink ended.
SingleSinkAgainReturns ==
    [][/\ ConsumeContinues("AGAIN") /\ Top.caller = "run" /\ sinks = <<>>
       /\ \A s, t \in ended : s = t
       => Idle' /\ ret'.status = "AGAIN"]_vars

\* The same however many sinks ended before: "in the case where a single sink is
\* left, the caller can decide to busy-wait and call bt_graph_run() continuously
\* until the source is ready or it can decide to sleep".
LastSinkAgainReturns ==
    [][ConsumeContinues("AGAIN") /\ Top.caller = "run" /\ sinks = <<>>
       => Idle' /\ ret'.status = "AGAIN"]_vars

\* When a sink returns "try again", bt_graph_run() returns.
AgainReturns ==
    [][ConsumeContinues("AGAIN") /\ Top.caller = "run" => Idle']_vars

\* The ports of a connection exist as long as the connection does.
ConnectedPortsExist == \A c \in conns : {c[1], c[2]} \subseteq ports

---------------------------------------------------------------------------
(* What the functions of the graph keep true of one another *)

RunFns == {"configure", "loop", "consume", "abort"}
SavingFns == {"add_component", "upstream_port_connected",
              "downstream_port_connected"}
BeingAdded(i) == stack[i].fn = "add_component"

\* A run function is never called from another function of the graph, and a
\* graph that was run has no configuration function in progress.
CallsOK ==
    /\ \A i \in DOMAIN stack : stack[i].fn \in RunFns => Len(stack) = 1
    /\ configState \in {"PARTIALLY_CONFIGURED", "CONFIGURED"}
       => \A i \in DOMAIN stack : stack[i].fn \in RunFns
    /\ In("configure") => configState = "PARTIALLY_CONFIGURED"
    /\ In("loop") \/ In("consume") => configState = "CONFIGURED"

\* Only the outermost configuration function may have found can_consume set.
SavedOK ==
    \A i \in DOMAIN stack :
        i > 1 /\ stack[i].fn \in SavingFns => ~stack[i].saved

\* The components of the graph are distinct; those whose initialization method
\* is in progress are not initialized.
ComponentsOK ==
    /\ \A i, j \in DOMAIN components : components[i] = components[j] => i = j
    /\ initialized \subseteq Range(components)
    /\ ended \subseteq initialized
    /\ \A i \in DOMAIN stack :
          BeingAdded(i) => stack[i].comp \in Range(components) \ initialized
    /\ \A i, j \in DOMAIN stack :
          BeingAdded(i) /\ BeingAdded(j) /\ stack[i].comp = stack[j].comp
          => i = j

\* Only a graph that was run has a status to report, and has none while it runs.
ReturnOK ==
    /\ ret.fn /= "none" => configState \in {"PARTIALLY_CONFIGURED", "CONFIGURED"}
    /\ InRun => ret.fn = "none"

\* configure_graph() leaves no sink out, also when it takes several calls.
ConfiguredOK ==
    configState = "CONFIGURED" => Range(components) \cap Sinks \subseteq gicCalled

\* The inductive invariant.
GraphInv ==
    /\ TypeOK /\ CallsOK /\ SavedOK /\ ComponentsOK /\ ReturnOK /\ ConfiguredOK
    /\ ExclusiveConsumption /\ NoSinkLost /\ EndMeansAllSinksEnded
    /\ ConsumeOnlyConfigured
=============================================================================
