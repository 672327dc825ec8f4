-------------------------- MODULE MCPFanout_proofs --------------------------
(***************************************************************************)
(* Proofs about MCPFanout, for any finite set of backends, any capacity of  *)
(* the channel and any number of events.                                    *)
(***************************************************************************)
EXTENDS MCPFanout, FiniteSetTheorems, TLAPS

-----------------------------------------------------------------------------
(* The inductive invariant.                                                *)

Running == {b \in Backend : worker[b] # "done"}

(* The WaitGroup counts the goroutines that are not done, and no goroutine  *)
(* starts again after the channel was closed.                              *)
CountsWorkers == wg = Cardinality(Running) /\ (closed => Running = {})

(* A goroutine that is about to send holds an event of its own backend, and *)
(* a response that is on its way is the backend's answer.                  *)
HoldsItsOwn ==
  \A b \in Backend : worker[b] = "sending" =>
    /\ held[b] \in Event /\ held[b].from = b
    /\ held[b].body \in Responses => answer[b] = held[b].body

CarriesAnswers ==
  \A i \in DOMAIN channel : channel[i].body \in Responses => answer[channel[i].from] = channel[i].body

(* While a list is collected, a result that a backend gave is kept, in the  *)
(* channel, or in the hands of its goroutine; nothing else is kept.        *)
OnItsWay(b) ==
  \/ worker[b] = "sending" /\ held[b].body = "result"
  \/ \E i \in DOMAIN channel : channel[i].from = b /\ channel[i].body = "result"

KeepsResults ==
  /\ \A b \in results : answer[b] = "result"
  /\ kind = "list" /\ handler = "running" =>
       \A b \in Backend : answer[b] = "result" => b \in results \/ OnItsWay(b)
  /\ kind = "list" /\ handler = "returned" =>
       closed /\ \A b \in Backend : answer[b] = "result" => b \in results
  /\ kind = "list" => responses = IF handler = "returned" THEN 1 ELSE 0

Inv == TypeOK /\ CountsWorkers /\ HoldsItsOwn /\ CarriesAnswers /\ KeepsResults

-----------------------------------------------------------------------------
(* Numbered events: each has a higher number than those of its backend that *)
(* went before it, on the whole way from the goroutine to the client.      *)
Ascend(s) == \A i, j \in DOMAIN s : i < j /\ s[i].from = s[j].from => s[i].id < s[j].id

Below(s, b, n) == \A i \in DOMAIN s : s[i].from = b => s[i].id < n

InOrder ==
  /\ Ascend(channel)
  /\ \A i \in DOMAIN channel : Below(log, channel[i].from, channel[i].id)
  /\ \A b \in Backend : Below(log, b, read[b] + 1) /\ Below(channel, b, read[b] + 1)
  /\ \A b \in Backend : worker[b] = "sending" =>
       held[b].id <= read[b] /\ Below(log, b, held[b].id) /\ Below(channel, b, held[b].id)

(* lastID, and clientID at the time of the last write, are the greatest.    *)
Greatest(n, b, last) ==
  /\ \A i \in 1..last : log[i].from = b => log[i].id <= n
  /\ n # 0 => \E i \in 1..last : log[i].from = b /\ log[i].id = n

Remembers == \A b \in Backend : Greatest(lastID[b], b, Len(log)) /\ Greatest(clientID[b], b, written)

OrderInv == InOrder /\ Remembers

-----------------------------------------------------------------------------
(* The steps of a goroutine that change nothing but where it is: it is done  *)
(* and counted so, or goes on without an event in its hands.               *)
LEMMA BecomeStep ==
  ASSUME Inv, NEW b \in Backend, NEW from \in {"starting", "waiting", "reading"},
         NEW to \in {"waiting", "reading", "done"},
         Become(b, from, to, IF to = "done" THEN 1 ELSE 0)
  PROVE  Inv'
<1> USE DEF Become, client
<1>type. TypeOK
  BY DEF Inv
<1>worker. /\ worker' = [worker EXCEPT ![b] = to]
           /\ worker' \in [Backend -> {"starting", "waiting", "reading", "sending", "done"}]
           /\ worker[b] \notin {"done", "sending"}
  BY <1>type DEF TypeOK
<1>finite. IsFiniteSet(Running) /\ Cardinality(Running) \in Nat /\ Cardinality(Running) <= Cardinality(Backend)
           /\ Cardinality(Backend) \in Nat
  BY FS_Subset, FS_CardinalityType, FanoutAssumption DEF Running
<1>1. CASE to = "done"
  <2>1. Running' = Running \ {b} /\ b \in Running
    BY <1>1, <1>worker DEF Running
  <2>2. Cardinality(Running') = Cardinality(Running) - 1 /\ IsFiniteSet(Running')
    BY <2>1, <1>finite, FS_RemoveElement
  <2>3. Cardinality(Running') \in Nat
    BY <2>2, FS_CardinalityType
  <2>4. CountsWorkers' /\ wg' \in 0..Cardinality(Backend)
    BY <1>1, <2>1, <2>2, <2>3, <1>finite DEF Inv, CountsWorkers
  <2> QED BY <2>4, <1>type, <1>worker DEF Inv, TypeOK, HoldsItsOwn, CarriesAnswers, KeepsResults, OnItsWay
<1>2. CASE to # "done"
  <2>1. Running' = Running
    BY <1>2, <1>worker DEF Running
  <2>2. wg' = wg
    BY <1>2, <1>type DEF TypeOK
  <2> QED BY <2>1, <2>2, <1>type, <1>worker
          DEF Inv, TypeOK, CountsWorkers, HoldsItsOwn, CarriesAnswers, KeepsResults, OnItsWay
<1> QED BY <1>1, <1>2

(* A goroutine reads an event: its answer, if it is the response.            *)
LEMMA ReadEventStep ==
  ASSUME Inv, NEW b \in Backend, NEW body \in Bodies, NEW id \in 0..MaxEvents, ReadEvent(b, body, id)
  PROVE  Inv'
<1> USE DEF ReadEvent, client
<1>type. TypeOK
  BY DEF Inv
<1>event. [from |-> b, id |-> id, body |-> body] \in Event
  BY DEF Event
<1>worker. /\ worker' = [worker EXCEPT ![b] = "sending"] /\ worker[b] = "reading"
           /\ worker' \in [Backend -> {"starting", "waiting", "reading", "sending", "done"}]
  BY <1>type DEF TypeOK
<1>held. held' = [held EXCEPT ![b] = [from |-> b, id |-> id, body |-> body]]
         /\ held' \in [Backend -> Event \cup {NoEvent}]
  BY <1>type, <1>event DEF TypeOK
<1>answer. /\ answer[b] = "none"
           /\ answer' = [answer EXCEPT ![b] = IF body \in Responses THEN body ELSE @]
           /\ answer' \in [Backend -> Responses \cup {"none"}]
  BY <1>type DEF TypeOK
<1>1. TypeOK'
  <2>1. read' \in [Backend -> 0..MaxEvents]
    BY <1>type, FanoutAssumption DEF TypeOK
  <2> QED BY <2>1, <1>type, <1>worker, <1>held, <1>answer DEF TypeOK
<1>2. CountsWorkers'
  <2>1. Running' = Running
    BY <1>worker DEF Running
  <2> QED BY <2>1 DEF Inv, CountsWorkers
<1>3. HoldsItsOwn'
  <2> SUFFICES ASSUME NEW c \in Backend, worker'[c] = "sending"
               PROVE  /\ held'[c] \in Event /\ held'[c].from = c
                      /\ held'[c].body \in Responses => answer'[c] = held'[c].body
    BY DEF HoldsItsOwn
  <2>1. CASE c = b
    BY <2>1, <1>held, <1>event, <1>answer, <1>type DEF TypeOK
  <2>2. CASE c # b
    BY <2>2, <1>held, <1>answer, <1>worker, <1>type DEF TypeOK, Inv, HoldsItsOwn
  <2> QED BY <2>1, <2>2
(* What is in the channel is of a backend that has answered, and b has not.  *)
<1>4. CarriesAnswers'
  <2> SUFFICES ASSUME NEW i \in DOMAIN channel, channel[i].body \in Responses
               PROVE  answer'[channel[i].from] = channel[i].body
    BY DEF CarriesAnswers
  <2>1. answer[channel[i].from] = channel[i].body /\ channel[i].body # "none"
    BY DEF Inv, CarriesAnswers, Responses
  <2>2. channel[i].from # b
    BY <2>1, <1>answer
  <2> QED BY <2>1, <2>2, <1>answer, <1>type DEF TypeOK
<1>5. KeepsResults'
  <2>1. \A c \in results' : answer'[c] = "result"
    BY <1>answer, <1>type DEF TypeOK, Inv, KeepsResults
  <2>2. ASSUME kind = "list", handler = "running", NEW c \in Backend, answer'[c] = "result"
        PROVE  c \in results \/ OnItsWay(c)'
    <3>1. CASE c = b
      BY <3>1, <2>2, <1>held, <1>worker, <1>answer, <1>type DEF TypeOK, OnItsWay, Responses
    <3>2. CASE c # b
      BY <3>2, <2>2, <1>held, <1>worker, <1>answer, <1>type DEF TypeOK, OnItsWay, Inv, KeepsResults
    <3> QED BY <3>1, <3>2
  <2>3. ~closed
    BY <1>worker DEF Inv, CountsWorkers, Running
  <2> QED BY <2>1, <2>2, <2>3 DEF Inv, KeepsResults
<1> QED BY <1>1, <1>2, <1>3, <1>4, <1>5 DEF Inv

(* A goroutine puts its event into the channel.                              *)
LEMMA PutEventStep ==
  ASSUME Inv, NEW b \in Backend, PutEvent(b)
  PROVE  Inv'
<1> USE DEF PutEvent, client
<1>type. TypeOK
  BY DEF Inv
<1>worker. /\ worker' = [worker EXCEPT ![b] = "reading"] /\ worker[b] = "sending"
           /\ worker' \in [Backend -> {"starting", "waiting", "reading", "sending", "done"}]
  BY <1>type DEF TypeOK
<1>held. /\ held[b] \in Event /\ held[b].from = b
         /\ held[b].body \in Responses => answer[b] = held[b].body
         /\ \A c \in Backend \ {b} : held'[c] = held[c]
  BY <1>worker, <1>type DEF Inv, HoldsItsOwn, TypeOK
<1>channel. /\ channel' = Append(channel, held[b]) /\ channel' \in Seq(Event)
            /\ Len(channel') = Len(channel) + 1 /\ Len(channel') <= Cap
            /\ DOMAIN channel' = 1..Len(channel) + 1 /\ DOMAIN channel = 1..Len(channel)
            /\ channel'[Len(channel) + 1] = held[b]
            /\ \A i \in DOMAIN channel : i \in DOMAIN channel' /\ channel'[i] = channel[i]
            /\ \A i \in DOMAIN channel' : i = Len(channel) + 1 \/ i \in DOMAIN channel
  BY <1>type, <1>held, FanoutAssumption DEF TypeOK
<1>1. TypeOK'
  <2>1. held' \in [Backend -> Event \cup {NoEvent}]
    BY <1>type DEF TypeOK
  <2> QED BY <2>1, <1>type, <1>worker, <1>channel DEF TypeOK
<1>2. CountsWorkers'
  <2>1. Running' = Running
    BY <1>worker, <1>type DEF Running, TypeOK
  <2> QED BY <2>1 DEF Inv, CountsWorkers
<1>3. HoldsItsOwn'
  BY <1>worker, <1>held, <1>type DEF Inv, HoldsItsOwn, TypeOK
<1>4. CarriesAnswers'
  <2> SUFFICES ASSUME NEW i \in DOMAIN channel', channel'[i].body \in Responses
               PROVE  answer[channel'[i].from] = channel'[i].body
    BY DEF CarriesAnswers
  <2> QED BY <1>channel, <1>held DEF Inv, CarriesAnswers
<1>5. KeepsResults'
  <2>1. ASSUME NEW c \in Backend, OnItsWay(c) PROVE OnItsWay(c)'
    <3>1. CASE c = b /\ held[b].body = "result"
      BY <3>1, <1>channel, <1>held DEF OnItsWay
    <3>2. CASE c # b /\ worker[c] = "sending" /\ held[c].body = "result"
      BY <3>2, <1>worker, <1>held, <1>type DEF OnItsWay, TypeOK
    <3>3. CASE \E i \in DOMAIN channel : channel[i].from = c /\ channel[i].body = "result"
      <4>1. PICK i \in DOMAIN channel : channel[i].from = c /\ channel[i].body = "result"
        BY <3>3
      <4>2. i \in DOMAIN channel' /\ channel'[i].from = c /\ channel'[i].body = "result"
        BY <4>1, <1>channel
      <4> QED BY <4>2 DEF OnItsWay
    <3> QED BY <2>1, <3>1, <3>2, <3>3 DEF OnItsWay
  <2> QED BY <2>1 DEF Inv, KeepsResults
<1> QED BY <1>1, <1>2, <1>3, <1>4, <1>5 DEF Inv

-----------------------------------------------------------------------------
(* The handler takes an event.                                               *)

LEMMA TailFacts ==
  ASSUME TypeOK, channel # <<>>, channel' = Tail(channel)
  PROVE  /\ channel' \in Seq(Event) /\ Len(channel') <= Cap
         /\ Taken \in Event /\ Taken = channel[1] /\ 1 \in DOMAIN channel
         /\ \A i \in DOMAIN channel' : i \in Nat /\ 1 < i + 1 /\ i + 1 \in DOMAIN channel /\ channel'[i] = channel[i + 1]
         /\ \A i \in DOMAIN channel : i = 1 \/ (i - 1 \in DOMAIN channel' /\ channel'[i - 1] = channel[i])
<1>1. channel \in Seq(Event) /\ Len(channel) <= Cap /\ Len(channel) \in Nat
  BY DEF TypeOK
<1>2. Len(channel) # 0
  BY <1>1
<1>3. Len(channel') = Len(channel) - 1 /\ channel' \in Seq(Event)
  BY <1>1, <1>2
<1>4. Len(channel') <= Cap
  BY <1>1, <1>2, <1>3, FanoutAssumption
<1>5. DOMAIN channel = 1..Len(channel) /\ DOMAIN channel' = 1..Len(channel) - 1
  BY <1>1, <1>3
<1>6. \A i \in 1..Len(channel) - 1 : channel'[i] = channel[i + 1]
  BY <1>1, <1>2
<1>7. 1 \in DOMAIN channel /\ Taken = channel[1] /\ Taken \in Event
  BY <1>1, <1>2, <1>5 DEF Taken
<1>8. \A i \in DOMAIN channel' : i \in Nat /\ 1 < i + 1 /\ i + 1 \in DOMAIN channel /\ channel'[i] = channel[i + 1]
  BY <1>1, <1>5, <1>6
<1>9. ASSUME NEW i \in DOMAIN channel, i # 1
      PROVE  i - 1 \in DOMAIN channel' /\ channel'[i - 1] = channel[i]
  <2>1. i - 1 \in 1..Len(channel) - 1 /\ (i - 1) + 1 = i
    BY <1>1, <1>5, <1>9
  <2> QED BY <2>1, <1>5, <1>6
<1> QED BY <1>3, <1>4, <1>7, <1>8, <1>9

(* What taking an event leaves true, whatever is done with it.               *)
LEMMA TakeStep ==
  ASSUME Inv, Take
  PROVE  /\ channel' \in Seq(Event) /\ Len(channel') <= Cap
         /\ log' \in Seq(Event) /\ written \in 0..Len(log') /\ Len(log') \in 0..Len(log')
         /\ lastID' \in [Backend -> 0..MaxEvents]
         /\ CountsWorkers' /\ HoldsItsOwn' /\ CarriesAnswers'
         /\ Taken \in Event /\ (Taken.body \in Responses => answer[Taken.from] = Taken.body)
         /\ \A b \in Backend : OnItsWay(b) =>
              OnItsWay(b)' \/ (Taken.from = b /\ Taken.body = "result")
<1> USE DEF Take, TakeAndSet, workers
<1>type. TypeOK
  BY DEF Inv
<1>tail. /\ channel' \in Seq(Event) /\ Len(channel') <= Cap
         /\ Taken \in Event /\ Taken = channel[1] /\ 1 \in DOMAIN channel
         /\ \A i \in DOMAIN channel' : i \in Nat /\ 1 < i + 1 /\ i + 1 \in DOMAIN channel /\ channel'[i] = channel[i + 1]
         /\ \A i \in DOMAIN channel : i = 1 \/ (i - 1 \in DOMAIN channel' /\ channel'[i - 1] = channel[i])
  BY <1>type, TailFacts
<1>1. log' \in Seq(Event) /\ written \in 0..Len(log') /\ Len(log') \in 0..Len(log')
  BY <1>type, <1>tail DEF TypeOK
<1>2. lastID' \in [Backend -> 0..MaxEvents]
  BY <1>type, <1>tail DEF TypeOK, Event
<1>3. CountsWorkers' /\ HoldsItsOwn'
  BY DEF Inv, CountsWorkers, HoldsItsOwn, Running
<1>4. CarriesAnswers'
  BY <1>tail DEF Inv, CarriesAnswers
<1>5. Taken.body \in Responses => answer[Taken.from] = Taken.body
  BY <1>tail DEF Inv, CarriesAnswers
<1>6. ASSUME NEW b \in Backend, OnItsWay(b), ~(Taken.from = b /\ Taken.body = "result")
      PROVE  OnItsWay(b)'
  <2>1. CASE worker[b] = "sending" /\ held[b].body = "result"
    BY <2>1 DEF OnItsWay
  <2>2. CASE \E i \in DOMAIN channel : channel[i].from = b /\ channel[i].body = "result"
    <3>1. PICK i \in DOMAIN channel : channel[i].from = b /\ channel[i].body = "result"
      BY <2>2
    <3>2. i - 1 \in DOMAIN channel' /\ channel'[i - 1] = channel[i]
      BY <3>1, <1>6, <1>tail
    <3> QED BY <3>1, <3>2 DEF OnItsWay
  <2> QED BY <1>6, <2>1, <2>2 DEF OnItsWay
<1> QED BY <1>tail, <1>1, <1>2, <1>3, <1>4, <1>5, <1>6

(* A list collects the event.                                                *)
LEMMA CollectStep ==
  ASSUME Inv, Collect
  PROVE  Inv'
<1> USE DEF Collect, client
<1>type. TypeOK
  BY DEF Inv
<1>take. /\ channel' \in Seq(Event) /\ Len(channel') <= Cap
         /\ log' \in Seq(Event) /\ written \in 0..Len(log') /\ Len(log') \in 0..Len(log')
         /\ lastID' \in [Backend -> 0..MaxEvents]
         /\ CountsWorkers' /\ HoldsItsOwn' /\ CarriesAnswers'
         /\ Taken \in Event /\ (Taken.body \in Responses => answer[Taken.from] = Taken.body)
         /\ \A b \in Backend : OnItsWay(b) =>
              OnItsWay(b)' \/ (Taken.from = b /\ Taken.body = "result")
  BY TakeStep
<1>same. /\ kind' = kind /\ worker' = worker /\ wg' = wg /\ held' = held /\ read' = read
         /\ answer' = answer /\ closed' = closed /\ handler = "running" /\ Taken.from \in Backend
  BY <1>take DEF Take, TakeAndSet, workers, Event
<1>1. CASE /\ Taken.body \in Responses
           /\ results' = IF Taken.body = "result" THEN results \cup {Taken.from} ELSE results
           /\ UNCHANGED <<client, handler, cancelled>>
  <2>1. TypeOK'
    BY <1>1, <1>take, <1>same, <1>type DEF TypeOK
  <2>2. KeepsResults'
    <3>1. \A b \in results' : answer'[b] = "result"
      BY <1>1, <1>take, <1>same DEF Inv, KeepsResults
    <3>2. \A b \in Backend : answer'[b] = "result" => b \in results' \/ OnItsWay(b)'
      BY <1>1, <1>take, <1>same DEF Inv, KeepsResults
    <3> QED BY <1>1, <3>1, <3>2, <1>same, Zenon DEF Inv, KeepsResults
  <2> QED BY <2>1, <2>2, <1>take DEF Inv
<1>2. CASE Taken.body = "notification" /\ WriteTaken /\ UNCHANGED <<responses, results, handler, cancelled>>
  <2>1. TypeOK'
    BY <1>2, <1>take, <1>same, <1>type DEF TypeOK, WriteTaken
  <2>2. KeepsResults'
    <3>1. \A b \in Backend : answer'[b] = "result" => b \in results' \/ OnItsWay(b)'
      BY <1>2, <1>take, <1>same, Zenon DEF Inv, KeepsResults
    <3> QED BY <1>2, <3>1, <1>same, Zenon DEF Inv, KeepsResults
  <2> QED BY <2>1, <2>2, <1>take DEF Inv
<1>3. CASE Taken.body = "updated" /\ Return("failed") /\ UNCHANGED <<client, results>>
  <2>1. TypeOK'
    BY <1>3, <1>take, <1>same, <1>type DEF TypeOK, Return
  <2>2. KeepsResults'
    BY <1>3, <1>same DEF Inv, KeepsResults, Return
  <2> QED BY <2>1, <2>2, <1>take DEF Inv
<1> QED BY <1>1, <1>2, <1>3

(* A stream passes the event on.                                             *)
LEMMA StreamStep ==
  ASSUME Inv, Stream
  PROVE  Inv'
<1> USE DEF Stream, WriteTaken
<1>take. /\ channel' \in Seq(Event) /\ Len(channel') <= Cap
         /\ log' \in Seq(Event) /\ Len(log') \in 0..Len(log')
         /\ lastID' \in [Backend -> 0..MaxEvents]
         /\ CountsWorkers' /\ HoldsItsOwn' /\ CarriesAnswers'
  BY TakeStep
<1>same. /\ kind' = kind /\ worker' = worker /\ wg' = wg /\ held' = held /\ read' = read
         /\ answer' = answer /\ closed' = closed
  BY DEF Take, TakeAndSet, workers
<1>1. TypeOK'
  BY <1>take, <1>same DEF Inv, TypeOK
<1>2. KeepsResults'
  BY <1>same DEF Inv, KeepsResults
<1> QED BY <1>1, <1>2, <1>take, Zenon DEF Inv

(* The merged answer: the channel is closed and empty, so that no result is  *)
(* on its way any more.                                                      *)
LEMMA MergeStep ==
  ASSUME Inv, MergeAndReturn
  PROVE  Inv'
<1> USE DEF MergeAndReturn, MergeOnce, Return, workers
<1>1. TypeOK' /\ CountsWorkers' /\ HoldsItsOwn' /\ CarriesAnswers'
  BY DEF Inv, TypeOK, CountsWorkers, HoldsItsOwn, CarriesAnswers, Running
<1>2. \A b \in Backend : ~OnItsWay(b)
  BY DEF Inv, CountsWorkers, Running, OnItsWay
<1>3. KeepsResults'
  BY <1>2 DEF Inv, KeepsResults
<1> QED BY <1>1, <1>3 DEF Inv

(* The answer to a roots-changed notification.                               *)
LEMMA NotifiedStep ==
  ASSUME Inv, Notified
  PROVE  Inv'
<1> USE DEF Notified, Return, workers, client
<1>1. CASE channel # <<>>
  <2>1. /\ channel' \in Seq(Event) /\ Len(channel') <= Cap
        /\ \A i \in DOMAIN channel' : i \in Nat /\ 1 < i + 1 /\ i + 1 \in DOMAIN channel /\ channel'[i] = channel[i + 1]
    BY <1>1, TailFacts DEF Inv
  <2>2. CarriesAnswers'
    BY <2>1, Zenon DEF Inv, CarriesAnswers
  <2> QED BY <2>1, <2>2 DEF Inv, TypeOK, CountsWorkers, HoldsItsOwn, Running, KeepsResults
<1>2. CASE channel = <<>>
  BY <1>2, Zenon DEF Inv, TypeOK, CountsWorkers, HoldsItsOwn, CarriesAnswers, Running, KeepsResults
<1> QED BY <1>1, <1>2

-----------------------------------------------------------------------------
LEMMA InvInit == Init => Inv
<1> SUFFICES ASSUME Init PROVE Inv
  OBVIOUS
<1> USE DEF Init, Start
<1>1. Running = Backend
  BY DEF Running
<1>2. Cardinality(Backend) \in Nat
  BY FS_CardinalityType, FanoutAssumption
<1>3. TypeOK
  <2>1. /\ channel \in Seq(Event) /\ Len(channel) = 0 /\ log \in Seq(Event) /\ Len(log) = 0
        /\ 0 \in 0..MaxEvents /\ 0 <= Cap
    BY FanoutAssumption
  <2>2. /\ worker \in [Backend -> {"starting", "waiting", "reading", "sending", "done"}]
        /\ held \in [Backend -> Event \cup {NoEvent}] /\ read \in [Backend -> 0..MaxEvents]
        /\ answer \in [Backend -> Responses \cup {"none"}]
        /\ lastID \in [Backend -> 0..MaxEvents] /\ clientID \in [Backend -> 0..MaxEvents]
    BY <2>1, Zenon
  <2>3. wg \in 0..Cardinality(Backend) /\ responses \in Nat /\ written \in 0..Len(log)
    BY <1>2, <2>1
  <2>4. closed \in BOOLEAN /\ cancelled \in BOOLEAN /\ results \subseteq Backend
        /\ handler \in {"running", "returned", "failed"}
    BY Zenon
  <2> QED BY <2>1, <2>2, <2>3, <2>4, Zenon DEF TypeOK
<1> QED BY <1>1, <1>3 DEF Inv, CountsWorkers, HoldsItsOwn, CarriesAnswers, KeepsResults, Responses

LEMMA InvStep == Inv /\ [Next]_vars => Inv'
<1> SUFFICES ASSUME Inv, [Next]_vars PROVE Inv'
  OBVIOUS
<1>1. ASSUME NEW b \in Backend, Worker(b) PROVE Inv'
  <2>1. CASE UnknownBackend(b)
    BY <2>1, BecomeStep DEF UnknownBackend
  <2>2. CASE SendRequest(b)
    BY <2>2, BecomeStep DEF SendRequest
  <2>3. CASE CancelledBeforeSending(b)
    BY <2>3, BecomeStep DEF CancelledBeforeSending
  <2>4. CASE NoAnswer(b)
    BY <2>4, BecomeStep DEF NoAnswer
  <2>5. CASE AnswerStarts(b)
    BY <2>5, BecomeStep DEF AnswerStarts
  <2>6. CASE EndOfBody(b)
    BY <2>6, BecomeStep DEF EndOfBody
  <2>7. CASE PutEvent(b)
    BY <2>7, PutEventStep
  <2>8. CASE \E body \in Bodies, id \in 0..MaxEvents : ReadEvent(b, body, id)
    BY <2>8, ReadEventStep
  <2> QED BY <1>1, <2>1, <2>2, <2>3, <2>4, <2>5, <2>6, <2>7, <2>8 DEF Worker
<1>2. CASE CloseChannel
  <2>1. Running' = Running /\ Running = {}
    <3>1. IsFiniteSet(Running)
      BY FS_Subset, FanoutAssumption DEF Running
    <3>2. Cardinality(Running) = 0 /\ Running' = Running
      BY <1>2 DEF CloseChannel, workers, Inv, CountsWorkers, Running
    <3> QED BY <3>1, <3>2, FS_EmptySet
  <2>2. CountsWorkers'
    BY <1>2, <2>1, Zenon DEF CloseChannel, workers, Inv, CountsWorkers
  <2>3. TypeOK'
    BY <1>2 DEF CloseChannel, workers, client, Inv, TypeOK
  <2>4. HoldsItsOwn' /\ CarriesAnswers' /\ KeepsResults'
    BY <1>2 DEF CloseChannel, workers, client, Inv, HoldsItsOwn, CarriesAnswers, KeepsResults, OnItsWay
  <2> QED BY <2>2, <2>3, <2>4 DEF Inv
<1>3. CASE Collect
  BY <1>3, CollectStep
<1>4. CASE MergeAndReturn
  BY <1>4, MergeStep
<1>5. CASE Stream
  BY <1>5, StreamStep
<1>6. CASE StopStreaming
  BY <1>6, Zenon DEF StopStreaming, Return, workers, client, Inv, TypeOK, CountsWorkers, HoldsItsOwn,
              CarriesAnswers, KeepsResults, Running
<1>7. CASE Notified
  BY <1>7, NotifiedStep
<1>8. CASE ClientLeaves
  <2>1. TypeOK'
    BY <1>8 DEF ClientLeaves, workers, client, Inv, TypeOK
  <2>2. CountsWorkers'
    BY <1>8, ZenonT(30) DEF ClientLeaves, workers, Inv, CountsWorkers, Running
  <2>3. HoldsItsOwn' /\ CarriesAnswers' /\ KeepsResults'
    BY <1>8, ZenonT(60) DEF ClientLeaves, workers, client, Inv, HoldsItsOwn, CarriesAnswers, KeepsResults, OnItsWay
  <2> QED BY <2>1, <2>2, <2>3, ZenonT(30) DEF Inv
<1>9. CASE UNCHANGED vars
  <2>1. TypeOK'
    BY <1>9 DEF vars, Inv, TypeOK
  <2>2. CountsWorkers'
    BY <1>9, ZenonT(30) DEF vars, Inv, CountsWorkers, Running
  <2>3. HoldsItsOwn' /\ CarriesAnswers' /\ KeepsResults'
    BY <1>9, ZenonT(60) DEF vars, Inv, HoldsItsOwn, CarriesAnswers, KeepsResults, OnItsWay
  <2> QED BY <2>1, <2>2, <2>3, ZenonT(30) DEF Inv
<1> QED BY <1>1, <1>2, <1>3, <1>4, <1>5, <1>6, <1>7, <1>8, <1>9 DEF Next, Handler, Over

LEMMA InvHolds == Spec => []Inv
<1> QED BY InvInit, InvStep, PTL DEF Spec

(* The goroutines of sendToBackendsFiltered, its channel and the handlers    *)
(* keep to the values of their types, however they interleave.               *)
THEOREM TypeCorrect == Spec => []TypeOK
<1>1. Inv => TypeOK
  BY DEF Inv
<1> QED BY <1>1, InvHolds, PTL

(* The channel is closed only when every goroutine is done, so that none     *)
(* sends on a closed channel; and the answer to a list is given once, with   *)
(* the result of every backend that gave one and of no other                 *)
(* (sendToBackendsFiltered, sendToAllBackendsAndAggregateResponsesImpl).     *)
THEOREM FanoutWhole == Spec => []FanoutIsWhole
<1>1. Inv => FanoutIsWhole
  <2> SUFFICES ASSUME Inv PROVE FanoutIsWhole
    OBVIOUS
  <2>1. ClosedWhenDone
    BY DEF Inv, CountsWorkers, Running, ClosedWhenDone, AllDone
  <2>2. AnswerIsComplete
    BY DEF Inv, TypeOK, KeepsResults, AnswerIsComplete
  <2> QED BY <2>1, <2>2 DEF FanoutIsWhole
<1> QED BY <1>1, InvHolds, PTL

-----------------------------------------------------------------------------
(* Resuming a stream, with backends that number their events.                *)

(* The numbers of events are numbers.                                        *)
LEMMA Numbers ==
  ASSUME TypeOK
  PROVE  /\ \A i \in DOMAIN channel : i \in Int /\ channel[i].id \in Int /\ channel[i].from \in Backend
         /\ \A i \in DOMAIN log : i \in Int /\ log[i].id \in Int /\ log[i].from \in Backend
         /\ \A b \in Backend : read[b] \in Int /\ lastID[b] \in Int /\ clientID[b] \in Int
         /\ DOMAIN log = 1..Len(log) /\ Len(log) \in Nat /\ written \in 0..Len(log)
         /\ DOMAIN channel = 1..Len(channel) /\ Len(channel) \in Nat
<1>1. channel \in Seq(Event) /\ log \in Seq(Event)
  BY DEF TypeOK
<1>2. \A e \in Event : e.id \in Int /\ e.from \in Backend
  BY FanoutAssumption DEF Event
<1>3. \A b \in Backend : read[b] \in Int /\ lastID[b] \in Int /\ clientID[b] \in Int
  BY FanoutAssumption DEF TypeOK
<1>4. /\ DOMAIN log = 1..Len(log) /\ Len(log) \in Nat /\ written \in 0..Len(log)
      /\ DOMAIN channel = 1..Len(channel) /\ Len(channel) \in Nat
  BY <1>1 DEF TypeOK
<1>5. /\ \A i \in DOMAIN channel : i \in Int /\ channel[i] \in Event
      /\ \A i \in DOMAIN log : i \in Int /\ log[i] \in Event
  BY <1>1
<1> QED BY <1>2, <1>3, <1>4, <1>5

(* A step that takes no event and moves none keeps the order.                *)
LEMMA OrderKept ==
  ASSUME Inv, OrderInv, UNCHANGED <<held, read, channel, log, lastID, clientID, written>>,
         \A b \in Backend : worker'[b] = "sending" => worker[b] = "sending"
  PROVE  OrderInv'
<1>1. InOrder'
  BY DEF OrderInv, InOrder, Ascend, Below
<1>2. Remembers'
  BY DEF OrderInv, Remembers, Greatest
<1> QED BY <1>1, <1>2 DEF OrderInv

LEMMA ReadInOrder ==
  ASSUME Inv, OrderInv, Unnumbered = FALSE,
         NEW b \in Backend, NEW body \in Bodies, NEW id \in 0..MaxEvents, ReadEvent(b, body, id)
  PROVE  OrderInv'
<1> USE DEF ReadEvent, client
<1>type. TypeOK
  BY DEF Inv
<1>num. /\ \A i \in DOMAIN channel : channel[i].id \in Int
        /\ \A i \in DOMAIN log : log[i].id \in Int
        /\ \A c \in Backend : read[c] \in Int
  BY <1>type, Numbers
<1>id. id = read[b] + 1
  OBVIOUS
<1>read. \A c \in Backend : read'[c] = IF c = b THEN id ELSE read[c]
  BY <1>type, <1>id DEF TypeOK
<1>held. /\ held'[b].id = id
         /\ \A c \in Backend \ {b} : held'[c] = held[c] /\ worker'[c] = worker[c]
  BY <1>type, Zenon DEF TypeOK
<1> HIDE DEF ReadEvent, client
<1>1. \A c \in Backend : Below(log, c, read'[c] + 1) /\ Below(channel, c, read'[c] + 1)
  BY <1>num, <1>id, <1>read DEF OrderInv, InOrder, Below
<1>2. ASSUME NEW c \in Backend, worker'[c] = "sending"
      PROVE  held'[c].id <= read'[c] /\ Below(log, c, held'[c].id) /\ Below(channel, c, held'[c].id)
  <2>1. CASE c = b
    <3>1. held'[c].id = read[b] + 1 /\ read'[c] = read[b] + 1
      BY <1>id, <1>read, <1>held, <2>1, ZenonT(30)
    <3>2. Below(log, b, read[b] + 1) /\ Below(channel, b, read[b] + 1)
      BY ZenonT(30) DEF OrderInv, InOrder
    <3>3. read[b] + 1 <= read[b] + 1
      BY <1>num
    <3> QED BY <2>1, <3>1, <3>2, <3>3, ZenonT(30)
  <2>2. CASE c # b
    <3>1. held'[c] = held[c] /\ read'[c] = read[c] /\ worker[c] = "sending"
      BY <1>read, <1>held, <1>2, <2>2, ZenonT(30)
    <3> QED BY <3>1, ZenonT(30) DEF OrderInv, InOrder
  <2> QED BY <2>1, <2>2
<1> USE DEF ReadEvent, client
<1>3. InOrder'
  BY <1>1, <1>2, Zenon DEF OrderInv, InOrder, Ascend, Below
<1>4. Remembers'
  BY DEF OrderInv, Remembers, Greatest
<1> QED BY <1>3, <1>4 DEF OrderInv

LEMMA PutInOrder ==
  ASSUME Inv, OrderInv, NEW b \in Backend, PutEvent(b)
  PROVE  OrderInv'
<1> USE DEF PutEvent, client
<1>type. TypeOK
  BY DEF Inv
<1>num. /\ \A i \in DOMAIN channel : i \in Int /\ channel[i].id \in Int
        /\ \A c \in Backend : read[c] \in Int
        /\ DOMAIN channel = 1..Len(channel) /\ Len(channel) \in Nat
  BY <1>type, Numbers
<1>held. held[b] \in Event /\ held[b].from = b /\ held[b].id \in Int
  BY FanoutAssumption DEF Inv, HoldsItsOwn, Event
<1>channel. /\ channel' = Append(channel, held[b])
            /\ channel'[Len(channel) + 1] = held[b] /\ Len(channel) + 1 \in DOMAIN channel'
            /\ \A i \in DOMAIN channel : channel'[i] = channel[i] /\ i < Len(channel) + 1
            /\ \A i \in DOMAIN channel' : i = Len(channel) + 1 \/ i \in DOMAIN channel
  BY <1>type, <1>num, <1>held DEF TypeOK
<1>others. \A c \in Backend : worker'[c] = "sending" => c # b /\ worker[c] = "sending" /\ held'[c] = held[c]
  BY <1>type DEF TypeOK
<1>last. /\ held[b].id <= read[b] /\ Below(log, b, held[b].id) /\ Below(channel, b, held[b].id)
  BY DEF OrderInv, InOrder
<1> HIDE DEF PutEvent, client
<1>1. Ascend(channel')
  BY <1>num, <1>channel, <1>held, <1>last DEF OrderInv, InOrder, Ascend, Below
<1>2. \A i \in DOMAIN channel' : Below(log, channel'[i].from, channel'[i].id)
  BY <1>channel, <1>held, <1>last, Zenon DEF OrderInv, InOrder
<1>3. \A c \in Backend : Below(log, c, read[c] + 1) /\ Below(channel', c, read[c] + 1)
  <2> SUFFICES ASSUME NEW c \in Backend PROVE Below(log, c, read[c] + 1) /\ Below(channel', c, read[c] + 1)
    OBVIOUS
  <2>1. Below(log, c, read[c] + 1) /\ Below(channel, c, read[c] + 1)
    BY ZenonT(30) DEF OrderInv, InOrder
  <2>2. held[b].id < read[b] + 1
    BY <1>num, <1>held, <1>last
  <2>3. Below(channel', c, read[c] + 1)
    BY <1>channel, <1>held, <2>1, <2>2, ZenonT(30) DEF Below
  <2> QED BY <2>1, <2>3
<1>4. \A c \in Backend : worker'[c] = "sending" =>
        held'[c].id <= read[c] /\ Below(log, c, held'[c].id) /\ Below(channel', c, held'[c].id)
  <2> SUFFICES ASSUME NEW c \in Backend, worker'[c] = "sending"
               PROVE  held'[c].id <= read[c] /\ Below(log, c, held'[c].id) /\ Below(channel', c, held'[c].id)
    OBVIOUS
  <2>1. c # b /\ held'[c] = held[c]
    BY <1>others, Zenon
  <2>2. held[c].id <= read[c] /\ Below(log, c, held[c].id) /\ Below(channel, c, held[c].id)
    BY <1>others, Zenon DEF OrderInv, InOrder
  <2>3. Below(channel', c, held[c].id)
    BY <2>1, <2>2, <1>channel, <1>held, Zenon DEF Below
  <2> QED BY <2>1, <2>2, <2>3, Zenon
<1> USE DEF PutEvent, client
<1>5. InOrder'
  BY <1>1, <1>2, <1>3, <1>4, Zenon DEF InOrder
<1>6. Remembers'
  BY DEF OrderInv, Remembers, Greatest
<1> QED BY <1>5, <1>6 DEF OrderInv

(* An event that is taken has a higher number than all that were taken of    *)
(* its backend before, and a lower one than all that come.                   *)
LEMMA TakeInOrder ==
  ASSUME Inv, OrderInv, Take,
         (clientID' = clientID /\ written' = written) \/ (clientID' = lastID' /\ written' = Len(log'))
  PROVE  OrderInv'
<1> USE DEF Take, TakeAndSet, workers
<1>type. TypeOK
  BY DEF Inv
<1>tail. /\ Taken \in Event /\ Taken = channel[1] /\ 1 \in DOMAIN channel
         /\ \A i \in DOMAIN channel' : i \in Nat /\ 1 < i + 1 /\ i + 1 \in DOMAIN channel /\ channel'[i] = channel[i + 1]
  BY <1>type, TailFacts
<1>num. /\ \A i \in DOMAIN channel : i \in Int /\ channel[i].id \in Int /\ channel[i].from \in Backend
        /\ \A i \in DOMAIN log : i \in Int /\ log[i].id \in Int
        /\ \A b \in Backend : read[b] \in Int /\ lastID[b] \in Int /\ clientID[b] \in Int
        /\ DOMAIN log = 1..Len(log) /\ Len(log) \in Nat /\ written \in 0..Len(log)
        /\ DOMAIN channel = 1..Len(channel) /\ Len(channel) \in Nat
  BY <1>type, Numbers
<1>log. /\ Len(log') = Len(log) + 1 /\ log'[Len(log) + 1] = Taken /\ DOMAIN log' = 1..Len(log) + 1
        /\ \A i \in DOMAIN log : log'[i] = log[i]
        /\ \A i \in DOMAIN log' : i = Len(log) + 1 \/ i \in DOMAIN log
  BY <1>type, <1>tail, <1>num DEF TypeOK
<1>taken. Taken.id \in Int /\ Taken.from \in Backend /\ Below(log, Taken.from, Taken.id)
  BY <1>tail, <1>num DEF OrderInv, InOrder
<1> HIDE DEF Take, TakeAndSet, workers
<1>1. Ascend(channel')
  <2> SUFFICES ASSUME NEW i \in DOMAIN channel', NEW j \in DOMAIN channel', i < j,
                      channel'[i].from = channel'[j].from
               PROVE  channel'[i].id < channel'[j].id
    BY DEF Ascend
  <2>1. i + 1 < j + 1
    BY <1>tail
  <2> QED BY <2>1, <1>tail DEF OrderInv, InOrder, Ascend
<1>2. \A i \in DOMAIN channel' : Below(log', channel'[i].from, channel'[i].id)
  <2> SUFFICES ASSUME NEW i \in DOMAIN channel', NEW j \in DOMAIN log', log'[j].from = channel'[i].from
               PROVE  log'[j].id < channel'[i].id
    BY Zenon DEF Below
  <2>1. CASE j \in DOMAIN log
    BY <2>1, <1>log, <1>tail DEF OrderInv, InOrder, Below
  <2>2. CASE j = Len(log) + 1
    <3>1. Ascend(channel) /\ 1 \in DOMAIN channel /\ i + 1 \in DOMAIN channel /\ 1 < i + 1
      BY <1>tail, Zenon DEF OrderInv, InOrder
    <3>2. channel[1].id < channel[i + 1].id \/ channel[1].from # channel[i + 1].from
      BY <3>1, ZenonT(30) DEF Ascend
    <3> QED BY <3>2, <2>2, <1>log, <1>tail
  <2> QED BY <2>1, <2>2, <1>log
<1>below. \A b, n : Below(log, b, n) /\ Below(channel, b, n) => Below(log', b, n) /\ Below(channel', b, n)
  BY <1>log, <1>tail, ZenonT(30) DEF Below
<1>3. \A b \in Backend : Below(log', b, read[b] + 1) /\ Below(channel', b, read[b] + 1)
  BY <1>below, ZenonT(30) DEF OrderInv, InOrder
<1>4. \A b \in Backend : worker[b] = "sending" =>
        held[b].id <= read[b] /\ Below(log', b, held[b].id) /\ Below(channel', b, held[b].id)
  BY <1>below, ZenonT(30) DEF OrderInv, InOrder
<1> USE DEF Take, TakeAndSet, workers
<1>5. InOrder'
  BY <1>1, <1>2, <1>3, <1>4 DEF InOrder
<1>6. ASSUME NEW b \in Backend PROVE Greatest(lastID[b], b, Len(log))'
  <2>1. lastID'[b] = IF b = Taken.from THEN Taken.id ELSE lastID[b]
    BY <1>type DEF TypeOK
  <2> HIDE DEF Take, TakeAndSet, workers
  <2>0. \A i \in 1..Len(log') : i = Len(log) + 1 \/ (i \in 1..Len(log) /\ log'[i] = log[i])
    BY <1>log, <1>num
  <2>2. CASE b = Taken.from
    <3>1. Len(log) + 1 \in 1..Len(log') /\ log'[Len(log) + 1].from = b /\ log'[Len(log) + 1].id = lastID'[b]
      BY <2>1, <2>2, <1>log, <1>num
    <3>2. \A i \in 1..Len(log) : i \in DOMAIN log /\ log[i].id \in Int /\ (log[i].from = b => log[i].id < Taken.id)
      BY <2>2, <1>num, <1>taken DEF Below
    <3>3. lastID'[b] = Taken.id /\ Taken.id \in Int /\ log'[Len(log) + 1].id = Taken.id
      BY <2>1, <2>2, <1>log, <1>taken
    <3>4. ASSUME NEW i \in 1..Len(log'), log'[i].from = b PROVE log'[i].id <= lastID'[b]
      <4>1. CASE i = Len(log) + 1
        BY <3>3, <4>1
      <4>2. CASE i \in 1..Len(log) /\ log'[i] = log[i]
        BY <3>2, <3>3, <3>4, <4>2
      <4> QED BY <2>0, <4>1, <4>2, Zenon
    <3> QED BY <3>1, <3>4 DEF Greatest
  <2>3. CASE b # Taken.from
    <3>1. /\ \A i \in 1..Len(log) : log[i].from = b => log[i].id <= lastID[b]
          /\ lastID[b] # 0 => \E i \in 1..Len(log) : log[i].from = b /\ log[i].id = lastID[b]
      BY DEF OrderInv, Remembers, Greatest
    <3>2. \A i \in 1..Len(log') : log'[i].from = b => log'[i].id <= lastID'[b]
      BY <2>0, <2>1, <2>3, <3>1, <1>log
    <3>3. \A i \in 1..Len(log) : i \in 1..Len(log') /\ log'[i] = log[i]
      BY <1>log, <1>num
    <3>4. lastID'[b] # 0 => \E i \in 1..Len(log') : log'[i].from = b /\ log'[i].id = lastID'[b]
      BY <2>1, <2>3, <3>1, <3>3
    <3> QED BY <3>2, <3>4 DEF Greatest
  <2> QED BY <2>2, <2>3
<1> HIDE DEF Take, TakeAndSet, workers
<1>7. ASSUME NEW b \in Backend PROVE Greatest(clientID[b], b, written)'
  <2>1. CASE clientID' = clientID /\ written' = written
    <3>1. \A i \in 1..written : log'[i] = log[i]
      BY <1>log, <1>num
    <3>2. Greatest(clientID[b], b, written)
      BY Zenon DEF OrderInv, Remembers
    <3> QED BY <2>1, <3>1, <3>2 DEF Greatest
  <2>2. CASE clientID' = lastID' /\ written' = Len(log')
    BY <2>2, <1>6 DEF Greatest
  <2> QED BY <2>1, <2>2, Zenon
<1> QED BY <1>5, <1>6, <1>7 DEF OrderInv, Remembers

(* A roots-changed notification drops the event it takes.                    *)
LEMMA NotifiedInOrder ==
  ASSUME Inv, OrderInv, Notified
  PROVE  OrderInv'
<1> USE DEF Notified, workers, client
<1>1. CASE channel = <<>>
  BY <1>1, OrderKept
<1>2. CASE channel # <<>>
  <2>1. \A i \in DOMAIN channel' : i \in Nat /\ 1 < i + 1 /\ i + 1 \in DOMAIN channel /\ channel'[i] = channel[i + 1]
    BY <1>2, TailFacts DEF Inv
  <2>2. Ascend(channel')
    <3> SUFFICES ASSUME NEW i \in DOMAIN channel', NEW j \in DOMAIN channel', i < j,
                        channel'[i].from = channel'[j].from
                 PROVE  channel'[i].id < channel'[j].id
      BY DEF Ascend
    <3>1. i + 1 < j + 1
      BY <2>1
    <3> QED BY <3>1, <2>1 DEF OrderInv, InOrder, Ascend
  <2>3. \A b, n : Below(channel, b, n) => Below(channel', b, n)
    BY <2>1, Zenon DEF Below
  <2>4. InOrder'
    <3>1. \A i \in DOMAIN channel' : Below(log', channel'[i].from, channel'[i].id)
      BY <2>1, ZenonT(30) DEF OrderInv, InOrder
    <3>2. /\ \A b \in Backend : Below(log', b, read'[b] + 1) /\ Below(channel', b, read'[b] + 1)
          /\ \A b \in Backend : worker'[b] = "sending" =>
               held'[b].id <= read'[b] /\ Below(log', b, held'[b].id) /\ Below(channel', b, held'[b].id)
      BY <2>3, ZenonT(30) DEF OrderInv, InOrder
    <3> QED BY <2>2, <3>1, <3>2, ZenonT(30) DEF InOrder
  <2>5. Remembers'
    BY DEF OrderInv, Remembers, Greatest
  <2> QED BY <2>4, <2>5 DEF OrderInv
<1> QED BY <1>1, <1>2

LEMMA OrderInit == Init => OrderInv
<1> SUFFICES ASSUME Init PROVE OrderInv
  OBVIOUS
<1> USE DEF Init, Start
<1>1. Len(log) = 0 /\ DOMAIN log = {} /\ DOMAIN channel = {} /\ 1..0 = {}
  OBVIOUS
<1>2. InOrder
  BY <1>1, Zenon DEF InOrder, Ascend, Below
<1>3. Remembers
  BY <1>1 DEF Remembers, Greatest
<1> QED BY <1>2, <1>3 DEF OrderInv

LEMMA OrderStep ==
  ASSUME Unnumbered = FALSE, Inv, OrderInv, [Next]_vars
  PROVE  OrderInv'
<1>same. ASSUME UNCHANGED <<worker, held, read, channel, log, lastID, clientID, written>>
         PROVE  OrderInv'
  BY <1>same, OrderKept
<1>become. ASSUME NEW b \in Backend, NEW from, NEW to \in {"waiting", "reading", "done"}, NEW n,
                  Become(b, from, to, n)
           PROVE  OrderInv'
  <2>1. \A c \in Backend : worker'[c] = "sending" => worker[c] = "sending"
    BY <1>become DEF Become, Inv, TypeOK
  <2> QED BY <1>become, <2>1, OrderKept DEF Become, client
<1>1. ASSUME NEW b \in Backend, Worker(b) PROVE OrderInv'
  <2>1. CASE \/ UnknownBackend(b) \/ SendRequest(b) \/ CancelledBeforeSending(b)
             \/ NoAnswer(b) \/ AnswerStarts(b) \/ EndOfBody(b)
    BY <2>1, <1>become DEF UnknownBackend, SendRequest, CancelledBeforeSending, NoAnswer, AnswerStarts, EndOfBody
  <2>2. CASE PutEvent(b)
    BY <2>2, PutInOrder
  <2>3. CASE \E body \in Bodies, id \in 0..MaxEvents : ReadEvent(b, body, id)
    BY <2>3, ReadInOrder, Zenon
  <2> QED BY <1>1, <2>1, <2>2, <2>3 DEF Worker
<1>2. CASE CloseChannel
  BY <1>2, <1>same DEF CloseChannel, workers, client
<1>3. CASE Collect
  BY <1>3, TakeInOrder DEF Collect, client, WriteTaken
<1>4. CASE MergeAndReturn
  BY <1>4, <1>same DEF MergeAndReturn, MergeOnce, workers
<1>5. CASE Stream
  BY <1>5, TakeInOrder DEF Stream, WriteTaken
<1>6. CASE StopStreaming
  BY <1>6, <1>same DEF StopStreaming, workers, client
<1>7. CASE Notified
  BY <1>7, NotifiedInOrder
<1>8. CASE ClientLeaves
  BY <1>8, <1>same DEF ClientLeaves, workers, client
<1>9. CASE UNCHANGED vars
  BY <1>9, <1>same DEF vars
<1> QED BY <1>1, <1>2, <1>3, <1>4, <1>5, <1>6, <1>7, <1>8, <1>9 DEF Next, Handler, Over

(* When backends number their events, the event ID the client holds names    *)
(* the last event it was given of each backend: the lastEventID of every     *)
(* event written counts all events taken before it                          *)
(* (compositeSessionEntry.lastEventID, streamNotifications).                 *)
THEOREM ResumesWhereItStopped ==
  ASSUME Unnumbered = FALSE
  PROVE  Spec => []ResumePoint
<1>1. Inv /\ OrderInv => ResumePoint
  <2> DEFINE S(b) == {0} \cup {log[i].id : i \in {j \in 1..written : log[j].from = b}}
  <2> SUFFICES ASSUME Inv, OrderInv, NEW b \in Backend
               PROVE  clientID[b] \in S(b) /\ \A n \in S(b) : n <= clientID[b]
    BY Zenon DEF ResumePoint
  <2>1. \A n \in S(b) : n <= clientID[b]
    <3>1. \A i \in 1..written : log[i].from = b => log[i].id <= clientID[b]
      BY ZenonT(30) DEF OrderInv, Remembers, Greatest
    <3>2. 0 <= clientID[b]
      <4>1. clientID[b] \in 0..MaxEvents
        BY ZenonT(30) DEF Inv, TypeOK
      <4> QED BY <4>1, FanoutAssumption
    <3> QED BY <3>1, <3>2, ZenonT(30)
  <2>2. clientID[b] \in S(b)
    BY ZenonT(30) DEF OrderInv, Remembers, Greatest
  <2> QED BY <2>1, <2>2, Zenon
<1>2. Init => Inv /\ OrderInv
  BY InvInit, OrderInit
<1>3. (Inv /\ OrderInv) /\ [Next]_vars => (Inv /\ OrderInv)'
  BY InvStep, OrderStep
<1> QED BY <1>1, <1>2, <1>3, PTL DEF Spec
=============================================================================
