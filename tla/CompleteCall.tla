---------------------------- MODULE CompleteCall ----------------------------
(***************************************************************************)
(* One complete() together with what it shares with the rest of the        *)
(* process: the event bus, whose handlers run one by one between the steps *)
(* of the loop, and the registry of tools, which is read when a request is *)
(* sent and again when a tool is called.  Handlers, tools and other tasks  *)
(* subscribe, unsubscribe and register at any of these times.              *)
(***************************************************************************)
EXTENDS ToolLoop, EventBus, ToolRegistry

CONSTANTS
    MaxChanges      \* Bound: changes to the bus and to the registry.

(* Every event of the loop has a name that can be subscribed to.           *)
ASSUME CompleteCallAssumption ==
    \A of \in {"request", "tool"}, what \in {"start", "complete", "error"} :
        Emitted(of, what) \in EventNames

VARIABLES
    offered,        \* What the provider told the model of each tool.
    call,           \* The tool call that was dispatched last.
    changes         \* Counted for MaxChanges.

ownVars == << registry, offered, call, changes >>
callVars == << vars, busVars, ownVars >>

NoCall == [func |-> Unknown, offered |-> Unknown, arguments |-> {}]

CallInit ==
    /\ Init /\ BusInit /\ RegistryInit
    /\ offered = [name \in ToolNames |-> Unknown]
    /\ call = NoCall
    /\ changes = 0

-----------------------------------------------------------------------------

(* What a step of the loop emits reaches the bus.  The step comes when the *)
(* handlers of the event before have all returned.                         *)
OnTheBus ==
    /\ ~ Emitting
    /\ IF log' # log THEN StartEmission(Last(log')) ELSE LeaveEmission

(* The provider builds the schemas of the tools from the registry.  That   *)
(* raises KeyError for an unknown one, whatever layer catches it.          *)
Offer == offered' = IF tools THEN registry ELSE offered

Offerable == tools => \A name \in ToolNames : offered[name] # Unknown

AskProvider ==
    /\ Ask /\ OnTheBus
    /\ Offer
    /\ UNCHANGED << registry, call, changes >>

(* A retry builds them again.                                              *)
AskAgain ==
    /\ pc = "asking" /\ tools /\ offered # registry
    /\ Offer
    /\ UNCHANGED << vars, busVars, registry, call, changes >>

ProviderAnswers ==
    /\ Answer /\ OnTheBus
    /\ Offerable
    /\ UNCHANGED ownVars

(* dispatch_tool takes the function that is registered by now.             *)
DispatchTool ==
    /\ Dispatch /\ OnTheBus
    /\ \E name \in ToolNames : \E arguments \in Honouring(offered[name]) :
          call' = [func |-> registry[name], offered |-> offered[name],
                   arguments |-> arguments]
    /\ UNCHANGED << registry, offered, changes >>

(* Only a tool that takes its arguments can return.                        *)
ToolSucceeds ==
    /\ ToolReturns /\ OnTheBus
    /\ Accepts(call.func, call.arguments)
    /\ UNCHANGED ownVars

OtherSteps ==
    /\ \/ Begin \/ AskRaises \/ ErrorHandled \/ Return \/ TakeCalls
       \/ ToolRaises \/ ToolHandled
    /\ OnTheBus
    /\ UNCHANGED ownVars

NextHandler ==
    /\ HandlerEnds
    /\ UNCHANGED << vars, ownVars >>

CallProgress ==
    \/ AskProvider \/ ProviderAnswers \/ DispatchTool \/ ToolSucceeds \/ OtherSteps
    \/ NextHandler

(* The call waits for the provider, a tool or a handler.                   *)
Suspended == called > 0 \/ pc \in {"asking", "dispatching"}

CallCancelled ==
    /\ Suspended
    /\ Cancelled /\ LeaveEmission
    /\ UNCHANGED ownVars

(* Meanwhile anybody changes what it shares.                               *)
Change ==
    /\ Suspended
    /\ changes < MaxChanges /\ changes' = changes + 1
    /\ \/ /\ \E e \in EventNames, h \in Handlers : On(e, h) \/ Off(e, h)
          /\ UNCHANGED registry
       \/ /\ \E name \in ToolNames, func \in Functions : RegisterTool(name, func)
          /\ UNCHANGED busVars
    /\ UNCHANGED << vars, offered, call >>

CallNext == CallProgress \/ AskAgain \/ CallCancelled \/ Change

(* Handlers, the provider and tools answer in the end, one way or another. *)
CallSpec == CallInit /\ [][CallNext]_callVars /\ WF_callVars(CallProgress)

-----------------------------------------------------------------------------

(* Handlers that subscribe or unsubscribe during dispatch do not matter to *)
(* the others, nor do those that raise (events.py, emit): whoever listens  *)
(* to everything all the time has heard all that was emitted, in order, or *)
(* is still to be called for the last event.                               *)
SteadyHandlersHearAll ==
    \A h \in steady :
        \/ heard[h] = log
        \/ /\ Emitting \/ pc = "raised"
           /\ log # << >> /\ heard[h] = Front(log)

(* What the model is told of a function is what the function can take, if  *)
(* all its parameters can be given by name; and a call that keeps to what  *)
(* was told is not refused by the function that has the name by now, the   *)
(* described one or any other with parameters that still fit.  A tool that *)
(* was offered is always found (tools/schema.py, dispatch_tool).           *)
SchemaTellsTheTruth ==
    pc = "dispatching" =>
        /\ call.func \in Functions
        /\ Callable(call.offered) => Describes(Schema(call.offered), call.offered)
        /\ Describes(Schema(call.offered), call.func) => Accepts(call.func, call.arguments)

(* The working list is the caller's own (client.py, _to_messages).  When   *)
(* the call is over, however it ended, the list can be sent again, unless  *)
(* the call was stopped within the calls of one reply.                     *)
ListLeftWhole == pc \in Ended /\ todo = << >> => Resolved(messages)
=============================================================================
