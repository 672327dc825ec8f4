-------------------------------- MODULE MCMCP --------------------------------
(* Two backends, up to two events of each, room for two in the channel; and,  *)
(* as a part of its own, two notification streams while three configurations *)
(* are loaded; and a session on two backends.  A behaviour shows one of the   *)
(* three parts; the variables of the others do not change.                   *)
EXTENDS MCPFanout, MCPToolSignal

CONSTANTS Show, All, NoSource, Stateless, Exact, NoRoute, MaxReloads, MaxRestarts, MaxFaults

VARIABLES part, conf, seeds, init, token, server, call, last, reloads, faults

sessions == <<conf, seeds, init, token, server, call, last, reloads, faults>>

(* Names and IDs that hold the separators the proxy uses.                    *)
T1 == <<"t">>
T2 == <<"t", "__", "u">>
Text == [type |-> "s", value |-> <<"a", "__", "b">>]

(* Tool selectors; authorization rules that turn on the tool, the claims and *)
(* the scopes of the client, with and without a denying rule.                *)
Selector(include, includeRegexps, exclude, excludeRegexps) ==
  [include |-> include, includeRegexps |-> includeRegexps,
   exclude |-> exclude, excludeRegexps |-> excludeRegexps]

AnyTool == Selector({}, {}, {}, {})

Red == {[name |-> "team", array |-> TRUE, values |-> {"red", "blue"}]}
Blue == {[name |-> "team", array |-> FALSE, values |-> {"blue"}]}

Rule(cel, target, source, action) ==
  [cel |-> cel, target |-> target, source |-> source, action |-> action]

Source(claims, scopes) == [claims |-> claims, scopes |-> scopes]

Open == [default |-> TRUE, rules |-> << >>]
OnlyB1 == [default |-> FALSE, rules |-> <<Rule({<<"b1", "">>}, {}, NoSource, TRUE)>>]
Rules == [default |-> FALSE, rules |-> <<
  Rule(All, {<<"b2", T1>>}, NoSource, FALSE),
  Rule(All, {}, Source(Blue, {"read"}), TRUE),
  Rule({<<"b1", T1>>, <<"b2", T1>>}, {}, Source(Red, {"read"}), TRUE),
  Rule(All, {<<"b1", T2>>}, Source(Red, {"read", "write"}), TRUE),
  Rule(All, {}, Source(Blue, {"admin"}), TRUE)>>]

Conf(backends, selector, authorization, backendSelector) ==
  [backends |-> backends,
   toolSelectors |-> [b \in backends |-> IF b = "b1" THEN selector ELSE AnyTool],
   authorization |-> authorization, backendSelector |-> backendSelector]

S == INSTANCE MCPSession WITH
  Names <- {T1, T2},
  URIs <- {<<"ui://", "a", "/", "c">>, <<"file", "+", "x">>},
  IDs <- {[type |-> "i", value |-> Exact], Text},
  ProgressTokens <- {[type |-> "f", value |-> 3], Text},
  Capabilities <- [b1 |-> {"tools", "tools.listChanged", "extensions"}, b2 |-> {"tools"}],
  Client <- [claims |-> [team |-> [array |-> FALSE, values |-> {"red"}]], scopes |-> {"read"}],
  Confs <- {Conf({"b1", "b2"}, AnyTool, Rules, Open),
            Conf({"b1", "b2"}, Selector({T1, T2}, {}, {T2}, {}), Open, Open),
            Conf({"b2"}, AnyTool, Open, Open),
            Conf({"b1", "b2"}, Selector({T2}, {T1}, {}, {}), Open, OnlyB1),
            Conf({"b1", "b2"}, Selector({}, {T2}, {}, {T1}), Open, Open), NoRoute}

AllBodies == {"notification", "updated", "result", "garbled", "error"}
AllKinds == {"list", "get", "notify"}

MCInit ==
  /\ part \in Show
  /\ Init /\ (part # "fanout" => kind = "notify")
  /\ SignalInit /\ (part # "tools" => routes.tools = CHOOSE t \in Tools \ {"nothing"} : TRUE)
  /\ S!Init /\ (part # "sessions" => conf.authorization.rules # << >>)

Fans == part = "fanout" /\ UNCHANGED <<part, signalling, sessions>>
Signals == part = "tools" /\ UNCHANGED <<part, vars, sessions>>
Serves == part = "sessions" /\ UNCHANGED <<part, vars, signalling>>

MCNext == (Fans /\ Next) \/ (Signals /\ SignalNext) \/ (Serves /\ S!Next)

(* The fairness of MCPFanout and MCPToolSignal.                              *)
MCSpec ==
  /\ MCInit /\ [][MCNext]_<<part, vars, signalling, sessions>>
  /\ WF_vars(Fans /\ CloseChannel) /\ WF_vars(Fans /\ Handler)
  /\ \A b \in Backend : WF_vars(Fans /\ Worker(b))
  /\ WF_signalling(Signals /\ Store) /\ WF_signalling(Signals /\ Signal)
  /\ \A s \in Listeners : WF_signalling(Signals /\ Step(s))

(* Every list is answered or refused, and the goroutines that were started   *)
(* for a request end with it (sendToBackendsFiltered); a stream that waits   *)
(* while the tools change notifies its client of this change (Signal, Watch).*)
WaitsEnd == RequestsEnd /\ WaitingStreamsTold

(* What a backend gives a client leads back to that backend and to the       *)
(* session the client has there, and a tool can be called exactly when       *)
(* tools/list lists it (upstreamResourceName, sessionFromID and the rest).   *)
(* A session is left open on a backend only where a call to that backend     *)
(* failed or was cut off (initializeSession, session.Close).                 *)
SessionsKept == S!GoesBack /\ S!StraysAreFailures

(* A client refused for want of scopes is let in once it has the scopes it   *)
(* is told to ask for (authorizeRequestWith).                                *)
ChallengesLead == part = "sessions" => S!ChallengesLead
=============================================================================
