-------------------------- MODULE MCPAuthorization --------------------------
(***************************************************************************)
(* internal/mcpproxy/authorization.go: how the rules of an MCP route decide *)
(* whether a client may use a backend or a tool, and which scopes a refused *)
(* client is told to ask for.                                              *)
(*                                                                         *)
(* A client is [claims, scopes]: claims is a function from claim names to  *)
(* [array, values] (a single string is not an array and has one value).    *)
(* A request is <<backend, tool>>.  A rule is                              *)
(*   [cel, target, source, action]                                         *)
(* where cel is the set of requests its expression is true of (All when    *)
(* there is no expression; a failing evaluation is in no set), target is   *)
(* the set of requests it lists (empty: every request), source is NoSource *)
(* or [claims, scopes], and action says whether the rule allows.           *)
(***************************************************************************)
EXTENDS Naturals, Sequences, FiniteSets, FiniteSetsExt

CONSTANTS All, NoSource

(* evalRuleCEL: an evaluation that fails, or is not a boolean, does not     *)
(* match; the loop of authorizeRequestWith skips the rule.                 *)
evalRuleCEL(rule, req) == rule.cel = All \/ req \in rule.cel

toolMatches(rule, req) == rule.target = {} \/ req \in rule.target

claimHasAllowedString(value, allowed) == value.values \cap allowed # {}

(* A claim of type string must be a single string; one of type array may   *)
(* be an array or a single string.                                         *)
claimsSatisfied(claims, required) ==
  \A c \in required :
    /\ c.name \in DOMAIN claims
    /\ c.array \/ ~claims[c.name].array
    /\ claimHasAllowedString(claims[c.name], c.values)

scopesSatisfied(have, required) == required \subseteq have

(* The conditions of a rule but the scopes.                                *)
Concerns(rule, req, client) ==
  /\ evalRuleCEL(rule, req)
  /\ toolMatches(rule, req)
  /\ rule.source # NoSource => claimsSatisfied(client.claims, rule.source.claims)

Decides(rule, req, client) ==
  /\ Concerns(rule, req, client)
  /\ rule.source # NoSource => scopesSatisfied(client.scopes, rule.source.scopes)

(* Mutant: the claims are looked at after the scopes.                      *)
ChallengeAnyone(rules, req, client) ==
  {i \in DOMAIN rules : /\ rules[i].action /\ rules[i].source # NoSource
                        /\ evalRuleCEL(rules[i], req) /\ toolMatches(rules[i], req)}

(* The rules whose scopes are proposed to a refused client.                *)
Challengers(rules, req, client) ==
  {i \in DOMAIN rules : rules[i].action /\ Concerns(rules[i], req, client)}

(* The first rule that decides is followed.  When none does, the default   *)
(* action is, and the scopes of the first of the least demanding allowing  *)
(* rules are proposed.                                                     *)
authorizeRequestWith(auth, req, client) ==
  LET deciding == {i \in DOMAIN auth.rules : Decides(auth.rules[i], req, client)}
      near == Challengers(auth.rules, req, client)
      size(i) == Cardinality(auth.rules[i].source.scopes)
      least == {i \in near : \A j \in near : size(i) <= size(j)}
  IN  IF deciding # {}
        THEN [allowed |-> auth.rules[Min(deciding)].action, scopes |-> {}]
        ELSE [allowed |-> auth.default,
              scopes  |-> IF near = {} THEN {} ELSE auth.rules[Min(least)].source.scopes]

(* authorizeRequest: without rules the default action decides and nobody    *)
(* is challenged.                                                          *)
authorizeRequest(auth, req, client) ==
  IF auth.rules = << >> THEN [allowed |-> auth.default, scopes |-> {}]
  ELSE authorizeRequestWith(auth, req, client)

ScopesOf(auth) ==
  UNION {auth.rules[i].source.scopes :
           i \in {j \in DOMAIN auth.rules : auth.rules[j].source # NoSource}}

(* A refused client that is told which scopes it lacks is let in once it   *)
(* has them besides those it had, and no other allowing rule that concerns *)
(* its request asks for fewer ("the smallest set of required scopes for    *)
(* challenge").  It is about lists without denying rules that ask for      *)
(* scopes, of which the source says that they do not make much sense.      *)
ChallengeIsEnough(auth, req, client) ==
  LET told == authorizeRequest(auth, req, client).scopes
      then == [client EXCEPT !.scopes = @ \cup told]
  IN  ~authorizeRequest(auth, req, client).allowed /\ told # {}
        => /\ ~(told \subseteq client.scopes)
           /\ authorizeRequest(auth, req, then).allowed
           /\ \A rule \in {auth.rules[i] : i \in Challengers(auth.rules, req, client)} :
                Cardinality(told) <= Cardinality(rule.source.scopes)
=============================================================================
