------------------------- MODULE ConnectionsProofs --------------------------
(***************************************************************************)
(* The safety of the connections, for any number of clients, requests,     *)
(* signals, workers and waiting tasks.                                     *)
(***************************************************************************)
EXTENDS Connections, SequenceTheorems, TLAPS

\* The tasks of a request.
TasksOf(c, n) == {i \in 1..accepted : asked[i] = <<c, n>>}

\* What the reply to a request says of its tasks.
Truth(answer, tasks) ==
  IF answer = "PAUSE" THEN tasks = {} ELSE \E i \in tasks : \A j \in tasks : j = i

\* A request is in one place at a time: on its way, with the handler, or in a
\* reply on its way back; a connection that was reset has nothing more to read.
Talk(c) ==
  /\ client[c] \in {"off", "send"} =>
       /\ request[c] = 0 /\ reply[c] = "none" /\ handler[c] # "reply"
       /\ Len(answers[c]) = sent[c]
  /\ request[c] # 0 =>
       /\ request[c] = sent[c] /\ Len(answers[c]) + 1 = sent[c]
       /\ reply[c] = "none" /\ handler[c] # "reply" /\ conn[c] # "rst"
       /\ TasksOf(c, sent[c]) = {}
  /\ handler[c] = "push" => request[c] # 0
  /\ handler[c] = "reply" =>
       /\ Len(answers[c]) + 1 = sent[c]
       /\ reply[c] = "none" /\ conn[c] # "rst"
       /\ result[c] \in Replies /\ Truth(result[c], TasksOf(c, sent[c]))
  /\ reply[c] # "none" => Len(answers[c]) = sent[c]

\* Every task is waiting or has been started.
Accounted == \A t \in 1..accepted :
               t \in running \cup done \/ \E i \in 1..Len(pending) : pending[i] = t

\* From the end of shutdown on no task is waiting, and none can come.
Emptied == mode = "closed" /\ pending = <<>>
Closing == /\ sig = "drain" => mode = "closed"
           /\ sig = "save" \/ ready => Emptied
           /\ Leaving => ready

IInv == /\ TypeOK /\ (\A c \in Clients : Talk(c)) /\ ReplyTruth
        /\ Accounted /\ Closing

-----------------------------------------------------------------------------
(* Types.                                                                  *)

\* The part of the type invariant that is about one process or the other.
PoolTypes == /\ mode \in {"open", "closed"} /\ accepted \in Nat
             /\ pending \in Seq(1..accepted)
             /\ running \subseteq 1..accepted /\ done \subseteq 1..accepted
TaskTypes == /\ asked \in Seq(Clients \X Nat) /\ Len(asked) = accepted
             /\ \A i \in 1..accepted : asked[i][2] <= sent[asked[i][1]]
TalkTypes == /\ client \in [Clients -> {"off", "send", "await", "gone"}]
             /\ sent \in [Clients -> Nat]
             /\ request \in [Clients -> Nat]
             /\ reply \in [Clients -> Replies \cup {"none"}]
             /\ result \in [Clients -> Replies \cup {"none"}]
             /\ answers \in [Clients -> Seq(Replies)]
             /\ \A c \in Clients : Len(answers[c]) <= sent[c]
NetTypes == /\ conn \in [Clients -> {"none", "open", "fin", "rst", "closed"}]
            /\ backlog \in Seq(Clients)
            /\ handler \in [Clients -> {"none", "check", "read", "push", "reply", "close", "ended"}]
MainTypes == /\ main \in {"start", "select", "close", "lock", "locked", "waiting",
                          "leave", "destroy", "exited"}
             /\ ready \in BOOLEAN /\ cv_m \in {"free", "main"}
             /\ sig \in {"none", "shutdown", "drain", "save"}
             /\ again \in BOOLEAN /\ signals \in Nat /\ producing \in BOOLEAN

LEMMA TypeParts == TypeOK <=> PoolTypes /\ TaskTypes /\ TalkTypes /\ NetTypes /\ MainTypes
  BY DEF TypeOK, PoolTypes, TaskTypes, TalkTypes, NetTypes, MainTypes

LEMMA Initial == Init => IInv
<1>. SUFFICES ASSUME Init PROVE IInv
  OBVIOUS
<1>1. PoolTypes /\ TaskTypes
  <2>1. accepted = 0 /\ pending = <<>> /\ asked = <<>> /\ running = {} /\ done = {}
    BY DEF Init, Pool!Init
  <2>2. mode = "open"
    BY DEF Init, Pool!Init
  <2>3. Len(<<>>) = 0 /\ <<>> \in Seq(1..0) /\ <<>> \in Seq(Clients \X Nat)
    BY EmptySeq
  <2>. QED
    BY <2>1, <2>2, <2>3 DEF PoolTypes, TaskTypes
<1>2. TalkTypes
  <2>1. <<>> \in Seq(Replies) /\ Len(<<>>) = 0
    BY EmptySeq
  <2>. QED
    BY <2>1 DEF Init, TalkTypes
<1>3. NetTypes
  <2>1. <<>> \in Seq(Clients)
    BY EmptySeq
  <2>. QED
    BY <2>1 DEF Init, NetTypes
<1>4. MainTypes
  BY DEF Init, MainTypes
<1>5. \A c \in Clients : Talk(c)
  BY DEF Init, Talk
<1>6. ReplyTruth /\ Accounted /\ Closing
  BY DEF Init, ReplyTruth, Accounted, Closing, Leaving, Pool!Init
<1>. QED
  BY <1>1, <1>2, <1>3, <1>4, <1>5, <1>6, TypeParts DEF IInv

LEMMA MainTypesStep == MainTypes /\ [Next]_vars => MainTypes'
<1>. SUFFICES ASSUME MainTypes, [Next]_vars PROVE MainTypes'
  OBVIOUS
<1>1. ASSUME NEW c \in Clients, ClientStep(c) \/ HandlerStep(c) PROVE MainTypes'
  BY <1>1 DEF ClientStep, HandlerStep, Connect, Send, Receive, Disconnected, Die, Check,
              ReadEnds, Submit, Push, Reply, Close, mainVars, sigVars, MainTypes
<1>2. CASE MainStep \/ Leave
  BY <1>2 DEF MainStep, MainGoto, LoopOrClose, Listen, Accept, Timeout, CloseServer, Lock,
              Wait, Wake, Return, Leave, sigVars, MainTypes
<1>3. CASE Interrupt
  <2>1. main' = main /\ ready' = ready /\ cv_m' = cv_m /\ producing' = FALSE
    BY <1>3 DEF Interrupt, mainVars
  <2>2. signals' \in Nat
    BY <1>3 DEF Interrupt, MainTypes
  <2>3. sig' \in {sig, "shutdown"} /\ again' \in BOOLEAN
    BY <1>3 DEF Interrupt, MainTypes
  <2>. QED
    BY <2>1, <2>2, <2>3 DEF MainTypes
<1>4. CASE SignalStep
  BY <1>4 DEF SignalStep, SigGoto, Shutdown, Drain, Notify, mainVars, MainTypes
<1>5. CASE PoolStep
  BY <1>5 DEF PoolStep, StartTask, EndTask, mainVars, sigVars, MainTypes
<1>6. CASE UNCHANGED vars
  BY <1>6 DEF vars, mainVars, sigVars, MainTypes
<1>. QED
  BY <1>1, <1>2, <1>3, <1>4, <1>5, <1>6 DEF Next

LEMMA NetTypesStep == NetTypes /\ [Next]_vars => NetTypes'
<1>. SUFFICES ASSUME NetTypes, [Next]_vars PROVE NetTypes'
  OBVIOUS
<1>1. ASSUME NEW c \in Clients, ClientStep(c) PROVE NetTypes'
  <2>1. CASE Connect(c)
    <3>1. handler' = handler
      BY <2>1 DEF Connect, handlerVars
    <3>2. backlog' \in Seq(Clients)
      <4>1. backlog' = Append(backlog, c) \/ backlog' = backlog
        BY <2>1 DEF Connect
      <4>. QED
        BY <4>1, AppendProperties DEF NetTypes
    <3>3. conn' = [conn EXCEPT ![c] = "open"] \/ conn' = conn
      BY <2>1 DEF Connect
    <3>. QED
      BY <3>1, <3>2, <3>3 DEF NetTypes
  <2>2. CASE Die(c)
    BY <2>2 DEF Die, handlerVars, NetTypes
  <2>3. CASE Send(c) \/ Receive(c) \/ Disconnected(c)
    BY <2>3 DEF Send, Receive, Disconnected, handlerVars, netVars, NetTypes
  <2>. QED
    BY <1>1, <2>1, <2>2, <2>3 DEF ClientStep
<1>2. ASSUME NEW c \in Clients, HandlerStep(c) PROVE NetTypes'
  BY <1>2 DEF HandlerStep, HandlerGoto, Check, ReadEnds, Submit, Push, Reply, Close, netVars,
              NetTypes
<1>3. CASE Accept
  <2>1. Head(backlog) \in Clients /\ Tail(backlog) \in Seq(Clients)
    BY <1>3, HeadTailProperties DEF Accept, NetTypes
  <2>. QED
    BY <1>3, <2>1 DEF Accept, NetTypes
<1>4. CASE CloseServer
  BY <1>4 DEF CloseServer, Reset, handlerVars, NetTypes
<1>5. CASE Leave
  BY <1>5 DEF Leave, NetTypes
<1>6. CASE Listen \/ Timeout \/ Lock \/ Wait \/ Wake \/ Return
  BY <1>6 DEF Listen, Timeout, Lock, Wait, Wake, Return, handlerVars, netVars, NetTypes
<1>7. CASE Interrupt \/ SignalStep \/ PoolStep
  BY <1>7 DEF Interrupt, SignalStep, Shutdown, Drain, Notify, PoolStep, StartTask, EndTask,
              handlerVars, netVars, NetTypes
<1>8. CASE UNCHANGED vars
  BY <1>8 DEF vars, handlerVars, netVars, NetTypes
<1>. QED
  BY <1>1, <1>2, <1>3, <1>4, <1>5, <1>6, <1>7, <1>8 DEF Next, MainStep

\* A step is one of the pool's, the closing of it, or leaves it alone.
LEMMA PoolSteps ==
  ASSUME [Next]_vars
  PROVE  \/ Pool!Accept \/ Pool!Start \/ (\E t \in running : Pool!Finish(t))
         \/ Shutdown \/ UNCHANGED poolVars
<1>1. ASSUME NEW c \in Clients, ClientStep(c) PROVE UNCHANGED poolVars
  BY <1>1 DEF ClientStep, Connect, Send, Receive, Disconnected, Die
<1>2. ASSUME NEW c \in Clients, HandlerStep(c) PROVE Pool!Accept \/ UNCHANGED poolVars
  <2>1. CASE Push(c)
    BY <2>1 DEF Push
  <2>2. CASE Check(c) \/ ReadEnds(c) \/ Submit(c) \/ Reply(c) \/ Close(c)
    BY <2>2 DEF Check, ReadEnds, Submit, Reply, Close
  <2>. QED
    BY <1>2, <2>1, <2>2 DEF HandlerStep
<1>3. CASE MainStep \/ Leave
  BY <1>3 DEF MainStep, Listen, Accept, Timeout, CloseServer, Lock, Wait, Wake, Return, Leave
<1>4. CASE Interrupt \/ Drain \/ Notify
  BY <1>4 DEF Interrupt, Drain, Notify
<1>5. CASE PoolStep
  BY <1>5 DEF PoolStep, StartTask, EndTask
<1>6. CASE UNCHANGED vars
  BY <1>6 DEF vars
<1>. QED
  BY <1>1, <1>2, <1>3, <1>4, <1>5, <1>6 DEF Next, SignalStep

LEMMA PoolTypesStep == PoolTypes /\ [Next]_vars => PoolTypes'
<1>. SUFFICES ASSUME PoolTypes, [Next]_vars PROVE PoolTypes'
  OBVIOUS
<1>1. CASE Pool!Accept
  <2>1. pending \in Seq(1..(accepted + 1)) /\ accepted + 1 \in 1..(accepted + 1)
    BY DEF PoolTypes
  <2>2. Append(pending, accepted + 1) \in Seq(1..(accepted + 1))
    BY <2>1, AppendProperties
  <2>. QED
    BY <1>1, <2>2 DEF Pool!Accept, PoolTypes
<1>2. CASE Pool!Start
  <2>1. Head(pending) \in 1..accepted /\ Tail(pending) \in Seq(1..accepted)
    BY <1>2, HeadTailProperties DEF Pool!Start, PoolTypes
  <2>. QED
    BY <1>2, <2>1 DEF Pool!Start, PoolTypes
<1>3. ASSUME NEW t \in running, Pool!Finish(t) PROVE PoolTypes'
  BY <1>3 DEF Pool!Finish, PoolTypes
<1>4. CASE Shutdown
  BY <1>4 DEF Shutdown, PoolTypes
<1>5. CASE UNCHANGED poolVars
  BY <1>5 DEF poolVars, PoolTypes
<1>. QED
  BY <1>1, <1>2, <1>3, <1>4, <1>5, PoolSteps

-----------------------------------------------------------------------------
(* Requests and their tasks.                                               *)

\* The requests change by Send and the tasks by Push only.
LEMMA TaskSteps ==
  ASSUME [Next]_vars
  PROVE  \/ \E c \in Clients : Send(c) \/ Push(c)
         \/ UNCHANGED <<sent, asked, accepted>>
<1>. SUFFICES ASSUME \A c \in Clients : ~Send(c) /\ ~Push(c)
              PROVE  UNCHANGED <<sent, asked, accepted>>
  OBVIOUS
<1>1. ASSUME NEW c \in Clients, ClientStep(c) PROVE UNCHANGED <<sent, asked, accepted>>
  BY <1>1 DEF ClientStep, Connect, Receive, Disconnected, Die, history, poolVars
<1>2. ASSUME NEW c \in Clients, HandlerStep(c) PROVE UNCHANGED <<sent, asked, accepted>>
  BY <1>2 DEF HandlerStep, Check, ReadEnds, Submit, Reply, Close, clientVars, history, poolVars
<1>3. CASE MainStep \/ Leave
  BY <1>3 DEF MainStep, Listen, Accept, Timeout, CloseServer, Lock, Wait, Wake, Return, Leave,
              clientVars, history, poolVars
<1>4. CASE Interrupt \/ SignalStep
  BY <1>4 DEF Interrupt, SignalStep, Shutdown, Drain, Notify, clientVars, history, poolVars
<1>5. CASE PoolStep
  BY <1>5 DEF PoolStep, StartTask, EndTask, Pool!Start, Pool!Finish, clientVars, history
<1>6. CASE UNCHANGED vars
  BY <1>6 DEF vars, clientVars, history, poolVars
<1>. QED
  BY <1>1, <1>2, <1>3, <1>4, <1>5, <1>6 DEF Next

\* The tasks after one more.
LEMMA Appended ==
  ASSUME PoolTypes, TaskTypes, NEW e \in Clients \X Nat,
         accepted' = accepted + 1, asked' = Append(asked, e)
  PROVE  /\ \A i \in 1..accepted : asked'[i] = asked[i]
         /\ asked'[accepted + 1] = e
         /\ \A i \in 1..accepted' : i \in 1..accepted \/ i = accepted + 1
         /\ 1..accepted' = (1..accepted) \cup {accepted + 1}
         /\ accepted + 1 \notin 1..accepted
<1>1. accepted \in Nat
  BY DEF PoolTypes
<1>2. (\A i \in 1..accepted : asked'[i] = asked[i]) /\ asked'[accepted + 1] = e
  BY AppendProperties DEF TaskTypes
<1>3. 1..(accepted + 1) = (1..accepted) \cup {accepted + 1}
  BY <1>1
<1>4. accepted + 1 \notin 1..accepted
  BY <1>1
<1>. QED
  BY <1>2, <1>3, <1>4

\* Submit lets the request pass, or answers PAUSE.
LEMMA Submitted ==
  ASSUME NEW c \in Clients, Submit(c), TalkTypes, NetTypes
  PROVE  /\ request[c] # 0 /\ UNCHANGED <<sent, answers, asked, accepted>>
         /\ \/ handler'[c] = "push" /\ UNCHANGED <<request, result>>
            \/ handler'[c] = "reply" /\ result'[c] = "PAUSE" /\ request'[c] = 0
<1>1. request[c] # 0 /\ UNCHANGED <<sent, answers, asked, accepted>>
  BY DEF Submit, clientVars, history, poolVars
<1>2. Result(c, FALSE) = "PAUSE"
  BY DEF Result
<1>. QED
  BY <1>1, <1>2 DEF Submit, HandlerGoto, Consumed, TalkTypes, NetTypes

\* Push adds it as one task.
LEMMA Pushed ==
  ASSUME NEW c \in Clients, Push(c), TalkTypes, NetTypes, Talk(c)
  PROVE  /\ request[c] # 0 /\ request[c] = sent[c] /\ request'[c] = 0
         /\ handler'[c] = "reply" /\ UNCHANGED <<sent, answers>>
         /\ result'[c] \in Replies /\ result'[c] # "PAUSE"
         /\ accepted' = accepted + 1 /\ asked' = Append(asked, <<c, sent[c]>>)
<1>1. request[c] # 0 /\ request[c] = sent[c]
  BY DEF Push, HandlerGoto, Talk
<1>2. Result(c, TRUE) \in {"OK", "COUNT"}
  BY DEF Result
<1>3. result'[c] = Result(c, TRUE) /\ request'[c] = 0 /\ handler'[c] = "reply"
  BY DEF Push, HandlerGoto, Consumed, TalkTypes, NetTypes
<1>4. /\ accepted' = accepted + 1 /\ asked' = Append(asked, <<c, sent[c]>>)
      /\ UNCHANGED <<sent, answers>>
  BY <1>1 DEF Push, Pool!Accept, clientVars
<1>. QED
  BY <1>1, <1>2, <1>3, <1>4 DEF Replies

LEMMA TaskTypesStep ==
  PoolTypes /\ TaskTypes /\ TalkTypes /\ NetTypes /\ (\A c \in Clients : Talk(c))
    /\ [Next]_vars => TaskTypes'
<1>. SUFFICES ASSUME PoolTypes, TaskTypes, TalkTypes, NetTypes,
                     \A c \in Clients : Talk(c), [Next]_vars
              PROVE  TaskTypes'
  OBVIOUS
<1>0. \A i \in 1..accepted : asked[i] \in Clients \X Nat
  BY ElementOfSeq DEF TaskTypes
<1>1. ASSUME NEW c \in Clients, Send(c) PROVE TaskTypes'
  <2>1. UNCHANGED <<asked, accepted>>
    BY <1>1 DEF Send, history, poolVars
  <2>2. \A d \in Clients : sent'[d] \in Nat /\ sent[d] \in Nat /\ sent[d] <= sent'[d]
    BY <1>1 DEF Send, TalkTypes
  <2>3. ASSUME NEW i \in 1..accepted PROVE asked[i][2] <= sent'[asked[i][1]]
    BY <1>0, <2>2 DEF TaskTypes
  <2>. QED
    BY <2>1, <2>3 DEF TaskTypes
<1>2. ASSUME NEW c \in Clients, Push(c) PROVE TaskTypes'
  <2>1. accepted' = accepted + 1 /\ asked' = Append(asked, <<c, sent[c]>>)
    BY <1>2, Pushed
  <2>2. sent[c] \in Nat /\ sent' = sent /\ <<c, sent[c]>> \in Clients \X Nat
    BY <1>2, Pushed DEF TalkTypes
  <2>3. asked' \in Seq(Clients \X Nat) /\ Len(asked') = accepted'
    BY <2>1, <2>2, AppendProperties DEF TaskTypes
  <2>4. ASSUME NEW i \in 1..accepted' PROVE asked'[i][2] <= sent'[asked'[i][1]]
    <3>1. CASE i \in 1..accepted
      BY <2>1, <2>2, <3>1, Appended DEF TaskTypes
    <3>2. CASE i = accepted + 1
      <4>1. asked'[i] = <<c, sent[c]>>
        BY <2>1, <2>2, <3>2, Appended
      <4>. QED
        BY <2>2, <4>1
    <3>. QED
      BY <2>1, <2>2, <3>1, <3>2, Appended
  <2>. QED
    BY <2>3, <2>4 DEF TaskTypes
<1>3. CASE UNCHANGED <<sent, asked, accepted>>
  BY <1>3 DEF TaskTypes
<1>. QED
  BY <1>1, <1>2, <1>3, TaskSteps

\* The replies grow by Reply only.
LEMMA TalkTypesStep ==
  PoolTypes /\ TaskTypes /\ TalkTypes /\ (\A c \in Clients : Talk(c)) /\ [Next]_vars
    => TalkTypes'
<1>. SUFFICES ASSUME PoolTypes, TaskTypes, TalkTypes, \A c \in Clients : Talk(c),
                     [Next]_vars
              PROVE  TalkTypes'
  OBVIOUS
<1>1. ASSUME NEW c \in Clients, Connect(c) \/ Receive(c) \/ Disconnected(c) \/ Die(c)
      PROVE  TalkTypes'
  BY <1>1 DEF Connect, Receive, Disconnected, Die, netVars, handlerVars, history, TalkTypes
<1>2. ASSUME NEW c \in Clients, Send(c) PROVE TalkTypes'
  <2>1. sent[c] + 1 \in Nat /\ Len(answers[c]) <= sent[c] + 1
    BY LenProperties DEF TalkTypes
  <2>. QED
    BY <1>2, <2>1 DEF Send, handlerVars, history, TalkTypes
<1>3. ASSUME NEW c \in Clients, Check(c) \/ ReadEnds(c) \/ Close(c) PROVE TalkTypes'
  <2>1. request' \in [Clients -> Nat]
    BY <1>3 DEF Check, ReadEnds, Close, netVars, TalkTypes
  <2>2. UNCHANGED <<client, sent, reply, result, answers>>
    BY <1>3 DEF Check, ReadEnds, Close, clientVars, netVars, history
  <2>. QED
    BY <2>1, <2>2 DEF TalkTypes
<1>4. ASSUME NEW c \in Clients, Submit(c) \/ Push(c) PROVE TalkTypes'
  <2>1. result' \in [Clients -> Replies \cup {"none"}]
    BY <1>4 DEF Submit, Push, Result, Replies, TalkTypes
  <2>2. request' \in [Clients -> Nat]
    <3>1. request' = request \/ Consumed(c)
      BY <1>4 DEF Submit, Push
    <3>. QED
      BY <3>1 DEF Consumed, TalkTypes
  <2>3. UNCHANGED <<client, sent, reply, answers>>
    BY <1>4 DEF Submit, Push, clientVars, history
  <2>. QED
    BY <2>1, <2>2, <2>3 DEF TalkTypes
<1>5. ASSUME NEW c \in Clients, Reply(c) PROVE TalkTypes'
  <2>1. handler[c] = "reply" /\ answers' = [answers EXCEPT ![c] = Append(@, result[c])]
    BY <1>5 DEF Reply, HandlerGoto
  <2>2. result[c] \in Replies /\ Len(answers[c]) + 1 = sent[c] /\ answers[c] \in Seq(Replies)
    BY <2>1 DEF Talk, TalkTypes
  <2>3. /\ Append(answers[c], result[c]) \in Seq(Replies)
        /\ Len(Append(answers[c], result[c])) = sent[c]
    BY <2>2, AppendProperties
  <2>4. UNCHANGED <<client, sent, request>>
    BY <1>5 DEF Reply, clientVars
  <2>5. /\ answers' \in [Clients -> Seq(Replies)]
        /\ \A d \in Clients : Len(answers'[d]) <= sent[d]
    BY <2>1, <2>3 DEF TalkTypes
  <2>6. reply' \in [Clients -> Replies \cup {"none"}]
    BY <1>5, <2>2 DEF Reply, TalkTypes
  <2>7. result' \in [Clients -> Replies \cup {"none"}]
    BY <1>5 DEF Reply, TalkTypes
  <2>. QED
    BY <2>4, <2>5, <2>6, <2>7 DEF TalkTypes
<1>6. CASE MainStep \/ Leave
  BY <1>6 DEF MainStep, Listen, Accept, Timeout, CloseServer, Lock, Wait, Wake, Return, Leave,
              clientVars, netVars, handlerVars, history, TalkTypes
<1>7. CASE Interrupt \/ SignalStep \/ PoolStep
  BY <1>7 DEF Interrupt, SignalStep, Shutdown, Drain, Notify, PoolStep, StartTask, EndTask,
              clientVars, netVars, handlerVars, history, TalkTypes
<1>8. CASE UNCHANGED vars
  BY <1>8 DEF vars, clientVars, netVars, handlerVars, history, TalkTypes
<1>. QED
  BY <1>1, <1>2, <1>3, <1>4, <1>5, <1>6, <1>7, <1>8 DEF Next, ClientStep, HandlerStep

LEMMA TypesStep ==
  TypeOK /\ (\A c \in Clients : Talk(c)) /\ [Next]_vars => TypeOK'
<1>1. TypeOK' <=> PoolTypes' /\ TaskTypes' /\ TalkTypes' /\ NetTypes' /\ MainTypes'
  BY DEF TypeOK, PoolTypes, TaskTypes, TalkTypes, NetTypes, MainTypes
<1>. QED
  BY <1>1, TypeParts, PoolTypesStep, TaskTypesStep, TalkTypesStep, NetTypesStep, MainTypesStep

-----------------------------------------------------------------------------
(* Requests and replies.                                                   *)

LEMMA TasksSame ==
  ASSUME UNCHANGED <<asked, accepted>>, NEW c, NEW n
  PROVE  TasksOf(c, n)' = TasksOf(c, n)
  BY DEF TasksOf

LEMMA TasksAfter ==
  ASSUME PoolTypes, TaskTypes, NEW c \in Clients, NEW m \in Nat,
         accepted' = accepted + 1, asked' = Append(asked, <<c, m>>),
         NEW d \in Clients, NEW n \in Nat
  PROVE  TasksOf(d, n)' = IF d = c /\ n = m THEN TasksOf(d, n) \cup {accepted + 1}
                          ELSE TasksOf(d, n)
<1>1. /\ \A i \in 1..accepted : asked'[i] = asked[i]
      /\ asked'[accepted + 1] = <<c, m>>
      /\ 1..accepted' = (1..accepted) \cup {accepted + 1}
  <2>1. <<c, m>> \in Clients \X Nat
    OBVIOUS
  <2>. QED
    BY <2>1, Appended
<1>2. TasksOf(d, n)' = {i \in (1..accepted) \cup {accepted + 1} : asked'[i] = <<d, n>>}
  BY <1>1 DEF TasksOf
<1>3. CASE d = c /\ n = m
  BY <1>1, <1>2, <1>3 DEF TasksOf
<1>4. CASE ~(d = c /\ n = m)
  <2>1. <<c, m>> # <<d, n>>
    BY <1>4
  <2>. QED
    BY <1>1, <1>2, <1>4, <2>1 DEF TasksOf
<1>. QED
  BY <1>3, <1>4

\* What others may do to a client in the middle of its talk.
LEMMA TalkFrame ==
  ASSUME NEW c \in Clients, Talk(c),
         client'[c] = client[c], sent'[c] = sent[c], request'[c] = request[c],
         reply'[c] = reply[c], result'[c] = result[c], answers'[c] = answers[c],
         handler'[c] = "push" => handler[c] = "push",
         handler'[c] = "reply" => handler[c] = "reply",
         conn'[c] = "rst" => conn[c] = "rst",
         TasksOf(c, sent[c])' = TasksOf(c, sent[c])
  PROVE  Talk(c)'
  BY DEF Talk

\* A step for one client is none for another.
LEMMA OtherTalk ==
  ASSUME PoolTypes, TaskTypes, TalkTypes, NetTypes,
         NEW c \in Clients, Talk(c), ClientStep(c) \/ HandlerStep(c),
         NEW d \in Clients, d # c, Talk(d)
  PROVE  Talk(d)'
<1>1. /\ client'[d] = client[d] /\ sent'[d] = sent[d] /\ request'[d] = request[d]
      /\ reply'[d] = reply[d]
  BY DEF ClientStep, HandlerStep, Connect, Send, Receive, Disconnected, Die, Check, ReadEnds,
         Submit, Push, Consumed, Reply, Close, clientVars, netVars, TalkTypes
<1>2. conn'[d] = conn[d]
  BY DEF ClientStep, HandlerStep, Connect, Send, Receive, Disconnected, Die, Check, ReadEnds,
         Submit, Push, Reply, Close, netVars, NetTypes
<1>3. handler'[d] = handler[d]
  BY DEF ClientStep, HandlerStep, HandlerGoto, Connect, Send, Receive, Disconnected, Die,
         Check, ReadEnds, Submit, Push, Reply, Close, handlerVars, NetTypes
<1>4. result'[d] = result[d] /\ answers'[d] = answers[d]
  BY DEF ClientStep, HandlerStep, Connect, Send, Receive, Disconnected, Die, Check, ReadEnds,
         Submit, Push, Reply, Close, handlerVars, history, TalkTypes
<1>5. TasksOf(d, sent[d])' = TasksOf(d, sent[d])
  <2>1. CASE UNCHANGED <<asked, accepted>>
    BY <1>1, <2>1, TasksSame
  <2>2. CASE Push(c)
    <3>1. sent[c] \in Nat /\ sent[d] \in Nat
      BY DEF TalkTypes
    <3>2. accepted' = accepted + 1 /\ asked' = Append(asked, <<c, sent[c]>>)
      BY <2>2, Pushed
    <3>. QED
      BY <1>1, <3>1, <3>2, TasksAfter
  <2>3. UNCHANGED <<asked, accepted>> \/ Push(c)
    BY DEF ClientStep, HandlerStep, Connect, Send, Receive, Disconnected, Die, Check,
           ReadEnds, Submit, Reply, Close, history, poolVars
  <2>. QED
    BY <2>1, <2>2, <2>3
<1>. QED
  BY <1>1, <1>2, <1>3, <1>4, <1>5, TalkFrame

\* A step of the client itself.
LEMMA ClientTalk ==
  ASSUME PoolTypes, TaskTypes, TalkTypes, NetTypes,
         NEW c \in Clients, Talk(c), ClientStep(c)
  PROVE  Talk(c)'
<1>0. UNCHANGED <<asked, accepted, handler, result, answers>>
  BY DEF ClientStep, Connect, Send, Receive, Disconnected, Die, handlerVars, history, poolVars
<1>1. CASE Connect(c)
  <2>1. UNCHANGED <<sent, request, reply>> /\ client[c] = "off"
    BY <1>1 DEF Connect
  <2>2. TasksOf(c, sent[c])' = TasksOf(c, sent[c])
    BY <1>0, <2>1, TasksSame
  <2>. QED
    BY <1>0, <2>1, <2>2 DEF Talk
<1>2. CASE Send(c)
  <2>1. client[c] = "send" /\ conn[c] = "open" /\ UNCHANGED <<conn, reply>>
    BY <1>2 DEF Send, MaySend
  <2>2. sent[c] \in Nat /\ Len(answers[c]) = sent[c] /\ reply[c] = "none" /\ handler[c] # "reply"
    BY <2>1 DEF Talk, TalkTypes
  <2>3. client'[c] = "await" /\ sent'[c] = sent[c] + 1 /\ request'[c] = sent[c] + 1
    BY <1>2 DEF Send, TalkTypes
  <2>4. TasksOf(c, sent[c] + 1) = {}
    <3>. SUFFICES ASSUME NEW i \in 1..accepted, asked[i] = <<c, sent[c] + 1>> PROVE FALSE
      BY DEF TasksOf
    <3>1. asked[i][2] <= sent[asked[i][1]]
      BY DEF TaskTypes
    <3>2. sent[c] + 1 <= sent[c]
      BY <3>1
    <3>. QED
      BY <2>2, <3>2
  <2>5. TasksOf(c, sent[c])' = {}
    BY <1>0, <2>3, <2>4 DEF TasksOf
  <2>. QED
    BY <1>0, <2>1, <2>2, <2>3, <2>5 DEF Talk
<1>3. CASE Receive(c)
  <2>1. reply[c] # "none" /\ reply'[c] = "none" /\ UNCHANGED <<sent, request>>
    BY <1>3 DEF Receive, TalkTypes
  <2>2. request[c] = 0 /\ handler[c] # "reply" /\ Len(answers[c]) = sent[c]
    BY <2>1 DEF Talk
  <2>. QED
    BY <1>0, <2>1, <2>2 DEF Talk
<1>4. CASE Disconnected(c)
  <2>1. client'[c] = "gone" /\ UNCHANGED <<sent, conn, request, reply>>
    BY <1>4 DEF Disconnected, netVars, TalkTypes
  <2>2. TasksOf(c, sent[c])' = TasksOf(c, sent[c])
    BY <1>0, <2>1, TasksSame
  <2>. QED
    BY <1>0, <2>1, <2>2 DEF Talk
<1>5. CASE Die(c)
  <2>1. client'[c] = "gone" /\ reply'[c] = "none" /\ UNCHANGED <<sent, request>>
    BY <1>5 DEF Die, TalkTypes
  <2>2. conn'[c] = "rst" => conn[c] = "rst" \/ reply[c] # "none"
    BY <1>5 DEF Die, NetTypes
  <2>3. TasksOf(c, sent[c])' = TasksOf(c, sent[c])
    BY <1>0, <2>1, TasksSame
  <2>. QED
    BY <1>0, <2>1, <2>2, <2>3 DEF Talk
<1>. QED
  BY <1>1, <1>2, <1>3, <1>4, <1>5 DEF ClientStep

\* A step of its handler.
LEMMA HandlerTalk ==
  ASSUME PoolTypes, TaskTypes, TalkTypes, NetTypes,
         NEW c \in Clients, Talk(c), HandlerStep(c)
  PROVE  Talk(c)'
<1>1. CASE Check(c) \/ ReadEnds(c)
  <2>1. UNCHANGED <<client, sent, conn, request, reply, result, answers, asked, accepted>>
    BY <1>1 DEF Check, ReadEnds, clientVars, netVars, history, poolVars
  <2>2. handler'[c] \notin {"push", "reply"}
    BY <1>1 DEF Check, ReadEnds, HandlerGoto, NetTypes
  <2>3. TasksOf(c, sent[c])' = TasksOf(c, sent[c])
    BY <2>1, TasksSame
  <2>. QED
    BY <2>1, <2>2, <2>3, TalkFrame
<1>2. CASE Close(c)
  <2>1. UNCHANGED <<client, sent, reply, answers>> /\ request'[c] = 0
    BY <1>2 DEF Close, clientVars, history, TalkTypes
  <2>2. handler'[c] = "ended"
    BY <1>2 DEF Close, HandlerGoto, NetTypes
  <2>. QED
    BY <2>1, <2>2 DEF Talk
<1>3. CASE Submit(c)
  <2>1. UNCHANGED <<client, conn, reply>> /\ handler[c] = "read"
    BY <1>3 DEF Submit, HandlerGoto, clientVars
  <2>2. /\ request[c] # 0 /\ UNCHANGED <<sent, answers, asked, accepted>>
        /\ \/ handler'[c] = "push" /\ UNCHANGED <<request, result>>
           \/ handler'[c] = "reply" /\ result'[c] = "PAUSE" /\ request'[c] = 0
    BY <1>3, Submitted
  <2>3. /\ client[c] \notin {"off", "send"} /\ Len(answers[c]) + 1 = sent[c]
        /\ reply[c] = "none" /\ conn[c] # "rst" /\ TasksOf(c, sent[c]) = {}
        /\ request[c] = sent[c]
    BY <2>2 DEF Talk
  <2>4. TasksOf(c, sent[c])' = {}
    BY <2>2, <2>3, TasksSame
  <2>. QED
    BY <2>1, <2>2, <2>3, <2>4 DEF Talk, Truth, Replies
<1>5. CASE Push(c)
  <2>1. UNCHANGED <<client, conn, reply>>
    BY <1>5 DEF Push, clientVars
  <2>2. /\ request[c] # 0 /\ request'[c] = 0 /\ handler'[c] = "reply"
        /\ UNCHANGED <<sent, answers>> /\ result'[c] \in Replies /\ result'[c] # "PAUSE"
        /\ accepted' = accepted + 1 /\ asked' = Append(asked, <<c, sent[c]>>)
    BY <1>5, Pushed
  <2>3. /\ client[c] \notin {"off", "send"} /\ Len(answers[c]) + 1 = sent[c]
        /\ reply[c] = "none" /\ conn[c] # "rst" /\ TasksOf(c, sent[c]) = {}
    BY <2>2 DEF Talk
  <2>4. TasksOf(c, sent[c])' = {accepted + 1}
    <3>1. sent[c] \in Nat /\ sent'[c] = sent[c]
      BY <2>2 DEF TalkTypes
    <3>2. \A n \in Nat : TasksOf(c, n)' = IF n = sent[c] THEN TasksOf(c, n) \cup {accepted + 1}
                                          ELSE TasksOf(c, n)
      BY <2>2, <3>1, TasksAfter
    <3>. QED
      BY <2>3, <3>1, <3>2
  <2>5. Truth(result'[c], TasksOf(c, sent[c])')
    BY <2>2, <2>4 DEF Truth
  <2>. QED
    BY <2>1, <2>2, <2>3, <2>5 DEF Talk
<1>4. CASE Reply(c)
  <2>1. UNCHANGED <<client, sent, request>> /\ handler[c] = "reply" /\ handler'[c] = "check"
    BY <1>4 DEF Reply, HandlerGoto, clientVars, NetTypes
  <2>2. answers'[c] = Append(answers[c], result[c])
    BY <1>4 DEF Reply, TalkTypes
  <2>3. /\ client[c] \notin {"off", "send"} /\ request[c] = 0
        /\ result[c] \in Replies /\ Len(answers[c]) + 1 = sent[c]
    BY <2>1 DEF Talk
  <2>4. Len(answers'[c]) = sent[c]
    BY <2>2, <2>3, AppendProperties DEF TalkTypes
  <2>. QED
    BY <2>1, <2>3, <2>4 DEF Talk
<1>. QED
  BY <1>1, <1>2, <1>3, <1>4, <1>5 DEF HandlerStep

LEMMA TalkStep ==
  ASSUME TypeOK, \A c \in Clients : Talk(c), [Next]_vars, NEW d \in Clients
  PROVE  Talk(d)'
<1>0. PoolTypes /\ TaskTypes /\ TalkTypes /\ NetTypes
  BY TypeParts
<1>1. ASSUME NEW c \in Clients, ClientStep(c) \/ HandlerStep(c) PROVE Talk(d)'
  BY <1>0, <1>1, OtherTalk, ClientTalk, HandlerTalk
<1>2. CASE MainStep \/ Leave
  <2>1. UNCHANGED <<client, sent, request, reply, result, answers, asked, accepted>>
    BY <1>2 DEF MainStep, Listen, Accept, Timeout, CloseServer, Lock, Wait, Wake, Return, Leave,
                clientVars, netVars, handlerVars, history, poolVars
  <2>2. handler'[d] \in {"push", "reply"} => handler'[d] = handler[d]
    BY <1>0, <1>2 DEF MainStep, Listen, Accept, Timeout, CloseServer, Lock, Wait, Wake, Return, Leave,
                      handlerVars, NetTypes
  <2>3. conn'[d] = "rst" => conn[d] = "rst"
    BY <1>0, <1>2 DEF MainStep, Listen, Accept, Timeout, CloseServer, Reset, Lock, Wait, Wake,
                      Return, Leave, netVars, NetTypes
  <2>4. TasksOf(d, sent[d])' = TasksOf(d, sent[d])
    BY <2>1, TasksSame
  <2>. QED
    BY <2>1, <2>2, <2>3, <2>4, TalkFrame
<1>3. CASE Interrupt \/ SignalStep \/ PoolStep \/ UNCHANGED vars
  <2>1. UNCHANGED <<clientVars, netVars, handlerVars, history, accepted>>
    BY <1>3 DEF Interrupt, SignalStep, Shutdown, Drain, Notify, PoolStep, StartTask, EndTask,
                Pool!Start, Pool!Finish, vars, poolVars
  <2>2. TasksOf(d, sent[d])' = TasksOf(d, sent[d])
    BY <2>1, TasksSame DEF clientVars, history
  <2>. QED
    BY <2>1, <2>2, TalkFrame DEF clientVars, netVars, handlerVars, history
<1>. QED
  BY <1>1, <1>2, <1>3 DEF Next

-----------------------------------------------------------------------------
(* The replies, the queue of the pool and the end of the server.           *)

LEMMA TruthByTasks ==
  ReplyTruth <=> \A c \in Clients : \A n \in 1..Len(answers[c]) :
                   Truth(answers[c][n], TasksOf(c, n))
  BY DEF ReplyTruth, Truth, TasksOf

LEMMA TruthStep ==
  ASSUME TypeOK, \A c \in Clients : Talk(c), ReplyTruth, [Next]_vars
  PROVE  ReplyTruth'
<1>. SUFFICES ASSUME NEW d \in Clients, NEW n \in 1..Len(answers'[d])
              PROVE  Truth(answers'[d][n], TasksOf(d, n)')
  <2>. SUFFICES ASSUME NEW d \in Clients, NEW n \in 1..Len(answers'[d])
                PROVE  IF answers'[d][n] = "PAUSE"
                       THEN \A i \in 1..accepted' : asked'[i] # <<d, n>>
                       ELSE \E i \in 1..accepted' :
                              /\ asked'[i] = <<d, n>>
                              /\ \A j \in 1..accepted' : asked'[j] = <<d, n>> => j = i
    BY DEF ReplyTruth
  <2>1. TasksOf(d, n)' = {i \in 1..accepted' : asked'[i] = <<d, n>>}
    BY DEF TasksOf
  <2>2. Truth(answers'[d][n], TasksOf(d, n)')
    OBVIOUS
  <2>3. CASE answers'[d][n] = "PAUSE"
    BY <2>1, <2>2, <2>3 DEF Truth
  <2>4. CASE answers'[d][n] # "PAUSE"
    BY <2>1, <2>2, <2>4 DEF Truth
  <2>. QED
    BY <2>3, <2>4
<1>0. PoolTypes /\ TaskTypes /\ TalkTypes /\ NetTypes
  BY TypeParts
<1>1. ASSUME NEW k \in 1..Len(answers[d]) PROVE Truth(answers[d][k], TasksOf(d, k))
  BY <1>1, TruthByTasks
<1>2. CASE UNCHANGED <<asked, accepted, answers>>
  BY <1>1, <1>2, TasksSame
<1>3. ASSUME NEW c \in Clients, Push(c) PROVE Truth(answers'[d][n], TasksOf(d, n)')
  <2>1. /\ answers' = answers /\ request[c] # 0
        /\ accepted' = accepted + 1 /\ asked' = Append(asked, <<c, sent[c]>>)
    BY <1>0, <1>3, Pushed
  <2>2. Len(answers[c]) + 1 = sent[c] /\ sent[c] \in Nat
    BY <1>0, <2>1 DEF Talk, TalkTypes
  <2>3. n \in Nat /\ (d = c => n # sent[c])
    <3>1. Len(answers[d]) \in Nat
      BY <1>0, LenProperties DEF TalkTypes
    <3>. QED
      BY <2>1, <2>2, <3>1
  <2>4. TasksOf(d, n)' = TasksOf(d, n)
    BY <1>0, <2>1, <2>2, <2>3, TasksAfter
  <2>. QED
    BY <1>1, <2>1, <2>4
<1>4. ASSUME NEW c \in Clients, Reply(c) PROVE Truth(answers'[d][n], TasksOf(d, n)')
  <2>1. UNCHANGED <<sent, asked, accepted>>
    BY <1>4 DEF Reply, clientVars, poolVars
  <2>2. CASE d # c
    <3>1. answers'[d] = answers[d]
      BY <1>0, <1>4, <2>2 DEF Reply, TalkTypes
    <3>. QED
      BY <1>1, <2>1, <3>1, TasksSame
  <2>3. CASE d = c
    <3>1. answers'[c] = Append(answers[c], result[c])
      BY <1>0, <1>4 DEF Reply, TalkTypes
    <3>2. /\ Len(answers[c]) + 1 = sent[c] /\ result[c] \in Replies
          /\ Truth(result[c], TasksOf(c, sent[c]))
      BY <1>4 DEF Reply, HandlerGoto, Talk
    <3>3. /\ Len(answers'[c]) = sent[c] /\ answers'[c][sent[c]] = result[c]
          /\ \A k \in 1..Len(answers[c]) : answers'[c][k] = answers[c][k]
          /\ Len(answers[c]) \in Nat
      BY <1>0, <3>1, <3>2, AppendProperties, LenProperties DEF TalkTypes
    <3>4. CASE n = sent[c]
      BY <2>1, <2>3, <3>2, <3>3, <3>4, TasksSame
    <3>5. CASE n \in 1..Len(answers[c])
      BY <1>1, <2>1, <2>3, <3>3, <3>5, TasksSame
    <3>. QED
      BY <2>3, <3>2, <3>3, <3>4, <3>5
  <2>. QED
    BY <2>2, <2>3
<1>5. ASSUME NEW c \in Clients,
             ClientStep(c) \/ Check(c) \/ ReadEnds(c) \/ Submit(c) \/ Close(c)
      PROVE  UNCHANGED <<asked, accepted, answers>>
  BY <1>5 DEF ClientStep, Connect, Send, Receive, Disconnected, Die, Check, ReadEnds, Submit, Close,
              history, poolVars
<1>6. CASE MainStep \/ Leave
  BY <1>2, <1>6 DEF MainStep, Listen, Accept, Timeout, CloseServer, Lock, Wait, Wake, Return, Leave,
                    history, poolVars
<1>7. CASE Interrupt \/ SignalStep \/ PoolStep \/ UNCHANGED vars
  <2>. UNCHANGED <<asked, accepted, answers>>
    BY <1>7 DEF Interrupt, SignalStep, Shutdown, Drain, Notify, PoolStep, StartTask, EndTask,
                Pool!Start, Pool!Finish, vars, poolVars, history
  <2>. QED
    BY <1>2
<1>. QED
  BY <1>2, <1>3, <1>4, <1>5, <1>6, <1>7 DEF Next, HandlerStep

LEMMA AccountedStep ==
  ASSUME PoolTypes, Accounted, [Next]_vars
  PROVE  Accounted'
<1>0. Len(pending) \in Nat /\ accepted \in Nat
  BY LenProperties DEF PoolTypes
<1>1. CASE Pool!Accept
  <2>1. /\ accepted' = accepted + 1 /\ UNCHANGED <<running, done>>
        /\ pending' = Append(pending, accepted + 1)
    BY <1>1 DEF Pool!Accept
  <2>2. /\ Len(pending') = Len(pending) + 1
        /\ \A i \in 1..Len(pending) : pending'[i] = pending[i]
        /\ pending'[Len(pending) + 1] = accepted + 1
    <3>1. pending \in Seq(Nat) /\ accepted + 1 \in Nat
      BY <1>0 DEF PoolTypes
    <3>. QED
      BY <2>1, <3>1, AppendProperties
  <2>3. ASSUME NEW t \in 1..accepted'
        PROVE  t \in running \cup done \/ \E i \in 1..Len(pending') : pending'[i] = t
    <3>1. CASE t = accepted + 1
      <4>1. Len(pending) + 1 \in 1..Len(pending')
        BY <1>0, <2>2
      <4>. QED
        BY <2>2, <3>1, <4>1
    <3>2. CASE t \in 1..accepted
      <4>1. 1..Len(pending) \subseteq 1..Len(pending')
        BY <1>0, <2>2
      <4>. QED
        BY <2>2, <3>2, <4>1 DEF Accounted
    <3>. QED
      BY <1>0, <2>1, <3>1, <3>2
  <2>. QED
    BY <2>1, <2>3 DEF Accounted
<1>2. CASE Pool!Start
  <2>1. /\ pending # <<>> /\ UNCHANGED <<accepted, done>>
        /\ running' = running \cup {Head(pending)} /\ pending' = Tail(pending)
    BY <1>2 DEF Pool!Start
  <2>2. /\ Head(pending) = pending[1] /\ Len(pending') = Len(pending) - 1
        /\ \A i \in 1..Len(pending') : pending'[i] = pending[i + 1]
    BY <2>1, HeadTailProperties DEF PoolTypes
  <2>3. ASSUME NEW t \in 1..accepted, NEW i \in 1..Len(pending), pending[i] = t
        PROVE  t \in running' \/ \E j \in 1..Len(pending') : pending'[j] = t
    <3>1. CASE i = 1
      BY <2>1, <2>2, <2>3, <3>1
    <3>2. CASE i # 1
      <4>1. i - 1 \in 1..Len(pending') /\ (i - 1) + 1 = i
        BY <1>0, <2>2, <3>2
      <4>. QED
        BY <2>2, <2>3, <4>1
    <3>. QED
      BY <3>1, <3>2
  <2>. QED
    BY <2>1, <2>3 DEF Accounted
<1>3. ASSUME NEW t \in running, Pool!Finish(t) PROVE Accounted'
  BY <1>3 DEF Pool!Finish, Accounted
<1>4. CASE Shutdown \/ UNCHANGED poolVars
  BY <1>4 DEF Shutdown, poolVars, Accounted
<1>. QED
  BY <1>1, <1>2, <1>3, <1>4, PoolSteps

LEMMA ClosingStep ==
  ASSUME MainTypes, Closing, [Next]_vars
  PROVE  Closing'
<1>1. (mode = "closed" => mode' = "closed") /\ (Emptied => Emptied')
  <2>1. CASE Pool!Accept
    BY <2>1 DEF Pool!Accept, Emptied
  <2>2. CASE Pool!Start
    BY <2>2 DEF Pool!Start, Emptied
  <2>3. ASSUME NEW t \in running, Pool!Finish(t)
        PROVE  (mode = "closed" => mode' = "closed") /\ (Emptied => Emptied')
    BY <2>3 DEF Pool!Finish, Emptied
  <2>4. CASE Shutdown \/ UNCHANGED poolVars
    BY <2>4 DEF Shutdown, poolVars, Emptied
  <2>. QED
    BY <2>1, <2>2, <2>3, <2>4, PoolSteps
<1>2. ASSUME UNCHANGED <<main, ready>>, sig' = sig \/ sig' \notin {"drain", "save"}
      PROVE  Closing'
  BY <1>1, <1>2 DEF Closing, Leaving
<1>3. ASSUME NEW c \in Clients, ClientStep(c) \/ HandlerStep(c)
      PROVE  UNCHANGED <<main, ready, sig>>
  BY <1>3 DEF ClientStep, HandlerStep, Connect, Send, Receive, Disconnected, Die, Check,
              ReadEnds, Submit, Push, Reply, Close, mainVars, sigVars
<1>4. CASE MainStep \/ Leave
  <2>1. UNCHANGED <<ready, sig>>
    BY <1>4 DEF MainStep, Listen, Accept, Timeout, CloseServer, Lock, Wait, Wake, Return, Leave, sigVars
  <2>2. Leaving' => ready
    BY <1>4 DEF MainStep, MainGoto, LoopOrClose, Listen, Accept, Timeout, CloseServer, Lock,
                Wait, Wake, Return, Leave, Leaving, Closing
  <2>. QED
    BY <1>1, <2>1, <2>2 DEF Closing, Leaving
<1>5. CASE Interrupt
  BY <1>2, <1>5 DEF Interrupt, mainVars
<1>6. CASE Shutdown
  <2>1. UNCHANGED <<main, ready>> /\ sig' = "drain" /\ mode' = "closed"
    BY <1>6 DEF Shutdown, SigGoto, mainVars
  <2>. QED
    BY <1>1, <2>1 DEF Closing, Leaving
<1>7. CASE Drain
  <2>1. UNCHANGED <<main, ready>> /\ sig = "drain" /\ sig' = "save" /\ pending = <<>>
    BY <1>7 DEF Drain, Drained, SigGoto, mainVars
  <2>. QED
    BY <1>1, <2>1 DEF Closing, Leaving, Emptied
<1>8. CASE Notify
  <2>1. main' = main /\ ready' = TRUE /\ sig = "save" /\ sig' \in {"shutdown", "none"}
    BY <1>8 DEF Notify, SigGoto
  <2>. QED
    BY <1>1, <2>1 DEF Closing, Leaving
<1>9. CASE PoolStep \/ UNCHANGED vars
  BY <1>2, <1>9 DEF PoolStep, StartTask, EndTask, vars, mainVars, sigVars
<1>. QED
  BY <1>2, <1>3, <1>4, <1>5, <1>6, <1>7, <1>8, <1>9 DEF Next, SignalStep

-----------------------------------------------------------------------------
(* Theorems.                                                               *)

LEMMA Inductive == IInv /\ [Next]_vars => IInv'
<1>. SUFFICES ASSUME IInv, [Next]_vars PROVE IInv'
  OBVIOUS
<1>1. TypeOK'
  BY TypesStep DEF IInv
<1>2. \A d \in Clients : Talk(d)'
  BY TalkStep DEF IInv
<1>3. ReplyTruth'
  BY TruthStep DEF IInv
<1>4. Accounted' /\ Closing'
  BY TypeParts, AccountedStep, ClosingStep DEF IInv
<1>. QED
  BY <1>1, <1>2, <1>3, <1>4 DEF IInv

LEMMA Invariance == Spec => []IInv
  BY Initial, Inductive, PTL DEF Spec

\* Every variable of the connections keeps its type; no request is answered twice,
\* and no task names a request that was not made (handleClient, server.cpp).
THEOREM TypeCorrect == Spec => []TypeOK
<1>1. IInv => TypeOK
  BY DEF IInv
<1>. QED
  BY <1>1, Invariance, PTL

\* Whatever the reply of handleClient says of its request is so: PAUSE that the
\* pool will never run it, any other reply that it is one task, and only one.
THEOREM RepliesTrue == Spec => []ReplyTruth
<1>1. IInv => ReplyTruth
  BY DEF IInv
<1>. QED
  BY <1>1, Invariance, PTL

\* When signalHandler saves the cache and when main ends, every request whose reply
\* was not PAUSE has been started by the pool.
THEOREM RequestsStartedBeforeSave == Spec => []StartedBeforeSave
<1>1. IInv => StartedBeforeSave
  <2>. SUFFICES ASSUME IInv, sig = "save" \/ Leaving,
                       NEW c \in Clients, NEW n \in 1..Len(answers[c]),
                       answers[c][n] # "PAUSE"
                PROVE  \E t \in running \cup done : asked[t] = <<c, n>>
    BY DEF StartedBeforeSave
  <2>1. pending = <<>>
    BY DEF IInv, Closing, Emptied
  <2>2. PICK t \in 1..accepted : asked[t] = <<c, n>>
    BY DEF IInv, ReplyTruth
  <2>3. t \in running \cup done
    <3>1. Len(pending) = 0
      BY <2>1, EmptySeq
    <3>. QED
      BY <3>1 DEF IInv, Accounted
  <2>. QED
    BY <2>2, <2>3
<1>. QED
  BY <1>1, Invariance, PTL

\* No handler is ever about to write to a connection that was reset, so that no
\* client ends the server by SIGPIPE (handleClient, server.cpp; main, client.cpp).
THEOREM ServerNotKilled == Spec => []ServerSurvives
<1>1. IInv => ServerSurvives
  BY DEF IInv, Talk, ServerSurvives
<1>. QED
  BY <1>1, Invariance, PTL
=============================================================================
