---------------------------- MODULE MCPToolSignal ----------------------------
(* How clients of the MCP proxy learn that the tools of a route changed: the *)
(* configuration watcher loads a configuration and, if its tools differ,     *)
(* closes a channel that every notification stream selects on.  The stream   *)
(* then sends notifications/tools/list_changed, and the client lists again.  *)
EXTENDS Integers

CONSTANTS Listeners,   \* notification streams
          Tools,       \* what a configuration can say about tools
          MaxLoads,    \* bound on the configurations loaded
          Busy         \* those on which heartbeats and events of backends arrive too

ASSUME SignalAssumption == MaxLoads \in Nat

VARIABLES loads,    \* configurations loaded so far
          phase,    \* where LoadConfig is
          loading,  \* newConfig, of the running LoadConfig
          routes,   \* mcpProxyConfig: the tools served, and which load they are from
          notify,   \* the current channel of the signaler, counting those made
          cause,    \* history: per closed channel, the load it was closed for
          place,    \* where each stream is in streamNotifications
          watched,  \* the channel each stream got from Watch
          told,     \* history: the load each client was last notified of
          listing,  \* clients that were notified and have not listed since
          known     \* what each client listed last, as in routes

signalling == <<loads, phase, loading, routes, notify, cause, place, watched, told, listing, known>>
loader == <<loads, phase, loading, routes, notify, cause>>
clients == <<told, listing, known>>

Served == [tools : Tools \ {"nothing"}, load : 0..MaxLoads]

SignalTypeOK ==
  /\ loads \in 0..MaxLoads /\ phase \in {"idle", "built", "stored"}
  /\ loading \in Served /\ routes \in Served
  /\ notify \in 0..MaxLoads /\ cause \in [0..MaxLoads -> 0..MaxLoads]
  /\ place \in [Listeners -> {"loop", "select", "writing", "over"}]
  /\ watched \in [Listeners -> 0..MaxLoads] /\ told \in [Listeners -> 0..MaxLoads]
  /\ listing \subseteq Listeners /\ known \in [Listeners -> Served]

(* Every client has listed the tools, and its stream waits.                  *)
SignalInit ==
  /\ loads = 0 /\ phase = "idle" /\ notify = 0
  /\ routes \in [tools : Tools \ {"nothing"}, load : {0}] /\ loading = routes
  /\ cause = [n \in 0..MaxLoads |-> 0]
  /\ place = [s \in Listeners |-> "select"] /\ watched = [s \in Listeners |-> 0]
  /\ told = [s \in Listeners |-> 0] /\ listing = {} /\ known = [s \in Listeners |-> routes]

-----------------------------------------------------------------------------
(* LoadConfig, which one watcher calls: a configuration without an MCP part  *)
(* ("nothing") leaves all as it is.                                          *)
LoadConfig(tools) ==
  /\ phase = "idle" /\ loads < MaxLoads /\ loads' = loads + 1
  /\ IF tools = "nothing"
     THEN UNCHANGED <<phase, loading>>
     ELSE phase' = "built" /\ loading' = [tools |-> tools, load |-> loads']
  /\ UNCHANGED <<routes, notify, cause, place, watched, clients>>

(* sameTools, the store and whether there is something to signal.            *)
Store ==
  /\ phase = "built" /\ routes' = loading
  /\ phase' = IF loading.tools = routes.tools THEN "idle" ELSE "stored"
  /\ UNCHANGED <<loads, loading, notify, cause, place, watched, clients>>

(* Signal: the channel is closed and another one made, under the lock.       *)
SignalAt(phases, channels) ==
  /\ phase \in phases /\ phase' = IF phase = "stored" THEN "idle" ELSE phase
  /\ notify' \in channels /\ cause' = [cause EXCEPT ![notify] = loading.load]
  /\ UNCHANGED <<loads, loading, routes, place, watched, clients>>

SignalEarly == SignalAt({"built"}, {notify + 1} \cap 0..MaxLoads)  \* mutant: before the store
Signal == SignalAt({"stored"}, {notify + 1})

-----------------------------------------------------------------------------
(* streamNotifications.                                                      *)

Go(s, from, to) == place[s] = from /\ place' = [place EXCEPT ![s] = to]

(* The loop reaches its select, and Watch returns the current channel.       *)
Watch(s) ==
  /\ Go(s, "loop", "select") /\ watched' = [watched EXCEPT ![s] = notify]
  /\ UNCHANGED <<loader, clients>>

(* The channel is closed: the client is notified.                            *)
ToolsChanged(s) ==
  /\ watched[s] < notify /\ Go(s, "select", "writing")
  /\ told' = [told EXCEPT ![s] = cause[watched[s]]] /\ listing' = listing \cup {s}
  /\ UNCHANGED <<loader, watched, known>>

(* A heartbeat or an event of a backend.                                     *)
OtherEvent(s) ==
  /\ s \in Busy /\ Go(s, "select", "writing")
  /\ UNCHANGED <<loader, watched, clients>>

Written(s) == Go(s, "writing", "loop") /\ UNCHANGED <<loader, watched, clients>>

ContextDone(s) == Go(s, "select", "over") /\ UNCHANGED <<loader, watched, clients>>

(* The client lists the tools: mergeToolsList reads the routes in force.     *)
ListTools(s) ==
  /\ s \in listing /\ listing' = listing \ {s}
  /\ known' = [known EXCEPT ![s] = routes]
  /\ UNCHANGED <<loader, place, watched, told>>

-----------------------------------------------------------------------------
Step(s) == Watch(s) \/ ToolsChanged(s) \/ Written(s) \/ ListTools(s)

(* No configuration is left to load and no stream to wait for.               *)
Quiet == loads = MaxLoads /\ phase = "idle" /\ UNCHANGED signalling

SignalNext == \/ \E tools \in Tools : LoadConfig(tools)
              \/ Store \/ Signal \/ Quiet
              \/ \E s \in Listeners : Step(s) \/ OtherEvent(s) \/ ContextDone(s)

SignalSpec == SignalInit /\ [][SignalNext]_signalling

(* The watcher finishes a load it began, and the goroutine of a stream runs. *)
SignalFairSpec ==
  /\ SignalSpec /\ WF_signalling(Store) /\ WF_signalling(Signal)
  /\ \A s \in Listeners : WF_signalling(Step(s))

-----------------------------------------------------------------------------
(* A client that lists the tools because it was notified of a change gets    *)
(* that change or a later one: the configuration is stored before anyone is  *)
(* signalled (LoadConfig).                                                   *)
ListsWhatChanged ==
  \A s \in Listeners : s \notin listing => known[s].load >= told[s]

(* A stream that waits on the current channel while the tools change         *)
(* notifies its client of this change, if no other event arrives on it       *)
(* (Signal, Watch).                                                          *)
WaitingStreamsTold ==
  \A s \in Listeners \ Busy, n \in 1..MaxLoads :
    (place[s] = "select" /\ watched[s] = notify /\ phase = "stored" /\ loading.load = n)
      ~> (told[s] = n \/ place[s] = "over")

(* No change is missed by an active session: with nothing to signal, to      *)
(* write or to list, a client knows the tools that are served.               *)
NoChangeMissed ==
  \A s \in Listeners : phase = "idle" /\ place[s] = "select" /\ watched[s] = notify /\ s \notin listing
                      => known[s].tools = routes.tools
=============================================================================
