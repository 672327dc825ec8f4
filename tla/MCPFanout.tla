------------------------------ MODULE MCPFanout ------------------------------
(* One client request that the MCP proxy sends to several backends of the    *)
(* session at once: a goroutine per backend reads the answer event by event  *)
(* into one bounded channel, another closes the channel when all of them are *)
(* done, and the handler of the request consumes it.  A "list" request       *)
(* merges the answers into one, a "get" request streams every event to the   *)
(* client, and a roots-changed notification ("notify") only waits.           *)
EXTENDS Integers, Sequences, FiniteSets

CONSTANTS Backend,    \* backends of the session the request's filter lets through
          Kinds,      \* requests considered: a subset of {"list", "get", "notify"}
          Cap,        \* capacity of the channel
          MaxEvents,  \* bound on the events a backend sends in one answer
          Bodies,     \* what backends send in an event
          Unnumbered  \* whether backends may send events without an event ID

ASSUME FanoutAssumption == /\ IsFiniteSet(Backend)
                           /\ Cap \in Nat \ {0} /\ MaxEvents \in Nat
                           /\ Kinds \subseteq {"list", "get", "notify"}
                           /\ Bodies \subseteq {"notification", "updated", "result", "garbled", "error"}
                           /\ Unnumbered \in BOOLEAN

VARIABLES kind,      \* the request
          worker,    \* goroutine of each backend
          wg,        \* the WaitGroup: goroutines that have not called Done
          held,      \* event each goroutine is about to put into the channel
          read,      \* number of events read from each backend
          answer,    \* the response each backend gave to the request
          channel,   \* backendMsgs
          closed,    \* whether backendMsgs is closed
          cancelled, \* whether the context of the request is
          handler,   \* what the handler of the request is doing
          lastID,    \* compositeSessionEntry.lastEventID of each backend
          clientID,  \* per backend, the event ID in the last event written with one
          results,   \* responses kept for the merge
          responses, \* number of responses to the request written to the client
          log,       \* history: the events the handler took from the channel
          written    \* history: how many of them there were when clientID was written

vars == <<kind, worker, wg, held, read, answer, channel, closed, cancelled, handler,
          lastID, clientID, results, responses, log, written>>

workers == <<worker, wg, held, read, answer>>
client == <<clientID, written, responses>>

Responses == {"result", "garbled", "error"}
Event == [from : Backend, id : 0..MaxEvents, body : Bodies]
NoEvent == [from |-> "nobody"]

TypeOK ==
  /\ kind \in Kinds
  /\ worker \in [Backend -> {"starting", "waiting", "reading", "sending", "done"}]
  /\ wg \in 0..Cardinality(Backend)
  /\ held \in [Backend -> Event \cup {NoEvent}]
  /\ read \in [Backend -> 0..MaxEvents]
  /\ answer \in [Backend -> Responses \cup {"none"}]
  /\ channel \in Seq(Event) /\ Len(channel) <= Cap
  /\ closed \in BOOLEAN /\ cancelled \in BOOLEAN
  /\ handler \in {"running", "returned", "failed"}
  /\ lastID \in [Backend -> 0..MaxEvents] /\ clientID \in [Backend -> 0..MaxEvents]
  /\ results \subseteq Backend /\ responses \in Nat
  /\ log \in Seq(Event) /\ written \in 0..Len(log)

(* sendToBackendsFiltered: the channel is made and the goroutines started.   *)
Start(count) ==
  /\ kind \in Kinds /\ wg = count
  /\ worker = [b \in Backend |-> "starting"] /\ held = [b \in Backend |-> NoEvent]
  /\ read = [b \in Backend |-> 0] /\ answer = [b \in Backend |-> "none"]
  /\ channel = <<>> /\ closed = FALSE /\ cancelled = FALSE /\ handler = "running"
  /\ lastID = [b \in Backend |-> 0] /\ clientID = [b \in Backend |-> 0]
  /\ results = {} /\ responses = 0 /\ log = <<>> /\ written = 0

Init == Start(Cardinality(Backend))

-----------------------------------------------------------------------------
(* The goroutine of a backend.                                               *)

Become(b, from, to, done) ==
  /\ worker[b] = from /\ worker' = [worker EXCEPT ![b] = to]
  /\ wg' = wg - done
  /\ UNCHANGED <<kind, held, read, answer, channel, closed, cancelled, handler,
                 lastID, client, results, log>>

(* The route no longer names the backend: the configuration is newer than    *)
(* the session.                                                              *)
UnknownBackend(b) == Become(b, "starting", "done", 1)

SendRequest(b) == ~cancelled /\ Become(b, "starting", "waiting", 0)
CancelledBeforeSending(b) == cancelled /\ Become(b, "starting", "done", 1)

(* client.Do fails or is cancelled, or the status has no body to read.       *)
NoAnswer(b) == Become(b, "waiting", "done", 1)
AnswerStarts(b) == Become(b, "waiting", "reading", 0)

(* The body ends, or cannot be read further.                                 *)
EndOfBodyIgnored(b) == Become(b, "reading", "reading", 0)  \* mutant: the loop goes on at the end
EndOfBody(b) == Become(b, "reading", "done", 1)

(* parser.next, or the one message of a JSON body: the response to the       *)
(* request is the last event a backend sends.                                *)
ReadEvent(b, body, id) ==
  /\ worker[b] = "reading" /\ read[b] < MaxEvents /\ answer[b] = "none"
  /\ body \in Responses => kind = "list"
  /\ id = 0 => Unnumbered
  /\ id # 0 => id = read[b] + 1
  /\ held' = [held EXCEPT ![b] = [from |-> b, id |-> id, body |-> body]]
  /\ worker' = [worker EXCEPT ![b] = "sending"]
  /\ read' = [read EXCEPT ![b] = @ + 1]
  /\ answer' = [answer EXCEPT ![b] = IF body \in Responses THEN body ELSE @]
  /\ UNCHANGED <<kind, wg, channel, closed, cancelled, handler, lastID, client, results, log>>

(* eventChan <- event, which blocks while the channel is full, whatever      *)
(* becomes of the context.                                                   *)
PutEvent(b) ==
  /\ worker[b] = "sending" /\ Len(channel) < Cap
  /\ channel' = Append(channel, held[b]) /\ held' = [held EXCEPT ![b] = NoEvent]
  /\ worker' = [worker EXCEPT ![b] = "reading"]
  /\ UNCHANGED <<kind, wg, read, answer, closed, cancelled, handler, lastID, client, results, log>>

AllDone == \A b \in Backend : worker[b] = "done"

(* wg.Wait, then close.                                                      *)
CloseChannel ==
  /\ ~closed /\ wg = 0 /\ closed' = TRUE
  /\ UNCHANGED <<kind, workers, channel, cancelled, handler, lastID, client, results, log>>

-----------------------------------------------------------------------------
(* The handler of the request.                                               *)

(* The handler is over, and with it the context of the request.              *)
Return(how) == handler' = how /\ cancelled' = TRUE

Taken == channel[1]

(* What every consumer of an event does first: setLastEventID, lastEventID.  *)
TakeAndSet(ids) ==
  /\ handler = "running" /\ channel # <<>>
  /\ channel' = Tail(channel) /\ log' = Append(log, Taken)
  /\ lastID' = ids
  /\ UNCHANGED <<kind, workers, closed>>

\* mutant: only the event's own ID is passed on
TakeAlone == TakeAndSet([b \in Backend |-> IF b = Taken.from THEN Taken.id ELSE 0])
Take == TakeAndSet([lastID EXCEPT ![Taken.from] = Taken.id])

WriteTaken == clientID' = lastID' /\ written' = Len(log')

(* sendToAllBackendsAndAggregateResponsesImpl, one event.  An error of the   *)
(* backend, or a result that does not parse, counts as no result.            *)
Collect ==
  /\ kind = "list" /\ Take
  /\ \/ /\ Taken.body \in Responses
        /\ results' = IF Taken.body = "result" THEN results \cup {Taken.from} ELSE results
        /\ UNCHANGED <<client, handler, cancelled>>
     \/ /\ Taken.body = "notification" /\ WriteTaken
        /\ UNCHANGED <<responses, results, handler, cancelled>>
     \* maybeServerToClientRequestModify fails for want of a request ID
     \/ /\ Taken.body = "updated" /\ Return("failed")
        /\ UNCHANGED <<client, results>>

(* The channel is closed and empty: one merged response.                     *)
MergeOnce(over) ==
  /\ kind = "list" /\ handler = "running" /\ channel = <<>> /\ over
  /\ responses' = responses + 1 /\ Return("returned")
  /\ UNCHANGED <<kind, workers, channel, closed, lastID, clientID, results, log, written>>

\* mutant: the answer is given when every backend has started to answer
MergeEarly == MergeOnce(\A b \in Backend : worker[b] \in {"reading", "done"})
MergeAndReturn == MergeOnce(closed)

(* streamNotifications: an event is written whether it could be modified or  *)
(* not.  When the channel is closed the stream stays open, until the client  *)
(* leaves.                                                                   *)
Stream ==
  /\ kind = "get" /\ Take /\ WriteTaken
  /\ UNCHANGED <<responses, results, handler, cancelled>>

StopStreaming ==
  /\ kind = "get" /\ handler = "running" /\ cancelled /\ Return("returned")
  /\ UNCHANGED <<kind, workers, channel, closed, lastID, client, results, log>>

(* handleNotificationsRootsListChanged: one receive from the channel.        *)
Notified ==
  /\ kind = "notify" /\ handler = "running" /\ (channel # <<>> \/ closed)
  /\ channel' = IF channel # <<>> THEN Tail(channel) ELSE channel
  /\ Return("returned")
  /\ UNCHANGED <<kind, workers, closed, lastID, client, results, log>>

ClientLeaves ==
  /\ ~cancelled /\ cancelled' = TRUE
  /\ UNCHANGED <<kind, workers, channel, closed, handler, lastID, client, results, log>>

-----------------------------------------------------------------------------
Worker(b) == \/ UnknownBackend(b) \/ SendRequest(b) \/ CancelledBeforeSending(b)
             \/ NoAnswer(b) \/ AnswerStarts(b) \/ EndOfBody(b) \/ PutEvent(b)
             \/ \E body \in Bodies, id \in 0..MaxEvents : ReadEvent(b, body, id)

Handler == Collect \/ MergeAndReturn \/ Stream \/ StopStreaming \/ Notified

(* A send to the channel does not look at the context: with no handler left  *)
(* to take the events, a goroutine that finds the channel full stays.        *)
Stuck == Len(channel) = Cap /\ \E b \in Backend : worker[b] = "sending"

(* The handler has returned and nothing of the request goes on.              *)
Over == handler # "running" /\ (closed \/ Stuck) /\ UNCHANGED vars

Next == (\E b \in Backend : Worker(b)) \/ CloseChannel \/ Handler \/ ClientLeaves \/ Over

Spec == Init /\ [][Next]_vars

(* The Go scheduler runs every goroutine that can run, and a backend's answer *)
(* comes and ends: Envoy, through which every backend is called, bounds its   *)
(* time (NewMCPProxy), and cancelling a request ends it.                     *)
Fairness == /\ WF_vars(CloseChannel) /\ WF_vars(Handler)
            /\ \A b \in Backend : WF_vars(Worker(b))

FairSpec == Spec /\ Fairness

-----------------------------------------------------------------------------
(* The channel is closed only when no goroutine can send to it any more: a   *)
(* send to a closed channel ends the process (sendToBackendsFiltered).       *)
ClosedWhenDone == closed => AllDone

(* A list is answered once, from every backend that answered well and from   *)
(* no other, however the answers, the failures and the client's leaving fall: *)
(* the client gets the merged response and none of those it is made of.      *)
AnswerIsComplete ==
  kind = "list" =>
    /\ responses = IF handler = "returned" THEN 1 ELSE 0
    /\ handler = "returned" => results = {b \in Backend : answer[b] = "result"}

(* The channel is closed when the last goroutine is done, once, and nothing  *)
(* is sent on it any more; the answer to a list has what every backend that  *)
(* answered gave (sendToBackendsFiltered, its WaitGroup, and the merging of  *)
(* the lists).                                                               *)
FanoutIsWhole == ClosedWhenDone /\ AnswerIsComplete

(* The event ID the client holds names, for each backend, the last event with *)
(* an ID among those the client was given: a stream resumed with that ID     *)
(* skips nothing and repeats nothing.                                        *)
ResumePoint ==
  \A b \in Backend :
    LET given == {0} \cup {log[i].id : i \in {j \in 1..written : log[j].from = b}}
    IN  clientID[b] \in given /\ \A id \in given : id <= clientID[b]

(* What backends send besides their response is passed on to the client, and *)
(* no list fails for it.                                                     *)
ListsSurviveNotifications == kind = "list" => handler # "failed"

(* Every list is answered, or refused, whatever the backends do; and when    *)
(* the handler is done, so are, in the end, the goroutines it started and    *)
(* the one that closes the channel, unless nobody takes the events that fill *)
(* the channel any more (sendToBackendsFiltered).                            *)
RequestsEnd ==
  /\ kind = "list" ~> handler # "running"
  /\ handler # "running" ~> closed \/ Stuck
=============================================================================
