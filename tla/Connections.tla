----------------------------- MODULE Connections ----------------------------
(***************************************************************************)
(* The front of the server (server.cpp) and its clients (client.cpp):      *)
(* connections and the detached threads that handle them, requests and     *)
(* replies, PAUSE, and how SIGINT ends the process.                        *)
(*                                                                         *)
(* The thread pool is what module TaskService promises; a task is a        *)
(* request, and may never end: a put or a flush can wait for a mutex that  *)
(* nobody releases (modules Storage and IOPool).  signalHandler runs in    *)
(* the thread of main, where Linux delivers a SIGINT of the process, and   *)
(* main stands still meanwhile.  Names: "fin" is a connection whose client *)
(* has gone, "rst" one where this is known to the server's kernel as a     *)
(* reset: the next write raises SIGPIPE, which nobody catches.             *)
(***************************************************************************)
EXTENDS Integers, Sequences, FiniteSetsExt

CONSTANTS
  Clients,
  Backlog,      \* SERVER_LISTEN_QUEUE
  Workers,      \* number of threads of the pool
  MaxTasks,     \* its limit on waiting tasks
  CountEvery,   \* 10000
  MaxRequests,  \* bound: requests of all clients
  MaxSignals    \* bound

ASSUME ConnectionsAssumption ==
  /\ Backlog \in Nat /\ Workers \in Nat /\ MaxTasks \in Nat
  /\ CountEvery \in Nat \ {0} /\ MaxRequests \in Nat /\ MaxSignals \in Nat

VARIABLES
  client,    \* where each client is
  sent,      \* the requests it has made
  conn,      \* its connection
  backlog,   \* connections that main has not accepted
  request,   \* what the server has not dealt with: the number of a request, or 0
  reply,     \* what the client has not read
  handler,   \* where its handleClient is
  result,    \* the reply it will write
  main,      \* where main is
  sig,       \* where signalHandler is
  again,     \* a SIGINT waits for the handler to return
  signals,   \* number of SIGINTs
  producing, ready,
  cv_m,      \* "free", or held by main
  mode, accepted, pending, running, done,  \* the thread pool
  asked,     \* history: the client and request of each task
  answers    \* history: the replies written to each client

clientVars  == <<client, sent>>
netVars     == <<conn, backlog, request, reply>>
handlerVars == <<handler, result>>
mainVars    == <<main, ready, cv_m>>
sigVars     == <<sig, again, signals, producing>>
poolVars    == <<mode, accepted, pending, running, done>>
history     == <<asked, answers>>
vars == <<clientVars, netVars, handlerVars, mainVars, sigVars, poolVars, history>>

Pool == INSTANCE TaskService

Init ==
  /\ client = [c \in Clients |-> "off"] /\ sent = [c \in Clients |-> 0]
  /\ conn = [c \in Clients |-> "none"] /\ backlog = <<>>
  /\ request = [c \in Clients |-> 0] /\ reply = [c \in Clients |-> "none"]
  /\ handler = [c \in Clients |-> "none"]
  /\ result = [c \in Clients |-> "none"]
  /\ main = "start" /\ ready = FALSE /\ cv_m = "free"
  /\ sig = "none" /\ again = FALSE /\ signals = 0 /\ producing = TRUE
  /\ Pool!Init
  /\ asked = <<>> /\ answers = [c \in Clients |-> <<>>]

Alive == main # "exited"

-----------------------------------------------------------------------------
(* Clients.                                                                *)

Listening == main \in {"select", "close"}

\* A full queue makes connect wait.
Connect(c) ==
  /\ client[c] = "off"
  /\ \/ /\ Listening /\ Len(backlog) < Backlog
        /\ client' = [client EXCEPT ![c] = "send"]
        /\ conn' = [conn EXCEPT ![c] = "open"]
        /\ backlog' = Append(backlog, c)
     \/ /\ ~Listening
        /\ client' = [client EXCEPT ![c] = "gone"]
        /\ UNCHANGED <<conn, backlog>>
  /\ UNCHANGED <<sent, request, reply, handlerVars, mainVars, sigVars, poolVars, history>>

\* The loop of the client: a new request each time, whatever became of the last.
\* Mutant: the client does not wait for the reply.
MaySendEarly(c) == client[c] \in {"send", "await"} /\ request[c] = 0
MaySend(c) == client[c] = "send"
Requests == MapThenSumSet(LAMBDA c : sent[c], Clients)
Send(c) ==
  /\ MaySend(c) /\ conn[c] = "open" /\ Requests < MaxRequests
  /\ client' = [client EXCEPT ![c] = "await"]
  /\ sent' = [sent EXCEPT ![c] = @ + 1]
  /\ request' = [request EXCEPT ![c] = sent'[c]]
  /\ UNCHANGED <<conn, backlog, reply, handlerVars, mainVars, sigVars, poolVars, history>>

\* The reply is read; after PAUSE the client goes on five seconds later.
Receive(c) ==
  /\ client[c] = "await" /\ reply[c] # "none"
  /\ client' = [client EXCEPT ![c] = "send"]
  /\ reply' = [reply EXCEPT ![c] = "none"]
  /\ UNCHANGED <<sent, conn, backlog, request, handlerVars, mainVars, sigVars, poolVars, history>>

\* The server has closed the connection: SIGPIPE ends the client.
Disconnected(c) ==
  /\ client[c] \in {"send", "await"} /\ conn[c] = "closed" /\ reply[c] = "none"
  /\ client' = [client EXCEPT ![c] = "gone"]
  /\ UNCHANGED <<sent, netVars, handlerVars, mainVars, sigVars, poolVars, history>>

\* A client that ends; with an unread reply the server is told by a reset.
Die(c) ==
  /\ client[c] \in {"send", "await"}
  /\ client' = [client EXCEPT ![c] = "gone"]
  /\ conn' = [conn EXCEPT ![c] =
                IF @ = "open" THEN IF reply[c] = "none" THEN "fin" ELSE "rst" ELSE @]
  /\ reply' = [reply EXCEPT ![c] = "none"]
  /\ UNCHANGED <<sent, backlog, request, handlerVars, mainVars, sigVars,
                 poolVars, history>>

-----------------------------------------------------------------------------
(* handleClient.                                                           *)

HandlerGoto(c, from, to) == /\ handler[c] = from
                            /\ handler' = [handler EXCEPT ![c] = to]

Check(c) ==
  /\ HandlerGoto(c, "check", IF producing THEN "read" ELSE "close")
  /\ UNCHANGED <<clientVars, netVars, result, mainVars, sigVars, poolVars, history>>

ReadEnds(c) ==
  /\ request[c] = 0 /\ conn[c] \in {"fin", "rst"}
  /\ HandlerGoto(c, "read", "close")
  /\ UNCHANGED <<clientVars, netVars, result, mainVars, sigVars, poolVars, history>>

\* The reply is the text with the counts at each 10000th task of the connection.
\* Mutant: also if the task was refused.
Counted(c) == Cardinality({i \in DOMAIN asked : asked[i][1] = c})
ResultCountFirst(c, taken) ==
  IF (Counted(c) + (IF taken THEN 1 ELSE 0)) % CountEvery = 0 THEN "COUNT"
  ELSE IF taken THEN "OK" ELSE "PAUSE"
Result(c, taken) ==
  IF ~taken THEN "PAUSE"
  ELSE IF (Counted(c) + 1) % CountEvery = 0 THEN "COUNT" ELSE "OK"

\* Mutant: the request stays in the buffer.
ConsumedNot(c) == UNCHANGED request
Consumed(c) == request' = [request EXCEPT ![c] = 0]

\* read takes the request from the connection, which nobody else reads, so that it
\* is one step with the checks of submit.  These throw if the pool is not running or
\* its queue is full; shutdown, which holds the status of the pool while it drains
\* it, makes them wait.
Submit(c) ==
  LET taken == mode = "open" /\ Len(pending) < MaxTasks IN
  /\ request[c] # 0 /\ sig # "drain"
  /\ \/ /\ taken /\ HandlerGoto(c, "read", "push")
        /\ UNCHANGED <<request, result>>
     \/ /\ ~taken /\ HandlerGoto(c, "read", "reply")
        /\ Consumed(c) /\ result' = [result EXCEPT ![c] = Result(c, FALSE)]
  /\ UNCHANGED <<clientVars, conn, backlog, reply, mainVars, sigVars, poolVars, history>>

\* The task enters the queue, whatever others have put there since the check.
Push(c) ==
  /\ HandlerGoto(c, "push", "reply")
  /\ Consumed(c)
  /\ result' = [result EXCEPT ![c] = Result(c, TRUE)]
  /\ Pool!Accept /\ asked' = Append(asked, <<c, request[c]>>)
  /\ UNCHANGED <<clientVars, conn, backlog, reply, mainVars, sigVars, answers>>

Reply(c) ==
  /\ conn[c] # "rst"
  /\ HandlerGoto(c, "reply", "check")
  /\ \/ conn[c] = "open" /\ reply' = [reply EXCEPT ![c] = result[c]] /\ UNCHANGED conn
     \/ conn[c] = "fin" /\ conn' = [conn EXCEPT ![c] = "rst"] /\ UNCHANGED reply
  /\ answers' = [answers EXCEPT ![c] = Append(@, result[c])]
  /\ result' = [result EXCEPT ![c] = "none"]
  /\ UNCHANGED <<clientVars, backlog, request, mainVars, sigVars, poolVars, asked>>

\* shutdown and close; what was not read is lost.
Close(c) ==
  /\ HandlerGoto(c, "close", "ended")
  /\ request' = [request EXCEPT ![c] = 0]
  /\ conn' = [conn EXCEPT ![c] = IF @ = "open" THEN "closed" ELSE @]
  /\ UNCHANGED <<clientVars, backlog, reply, result, mainVars, sigVars, poolVars,
                 history>>

HandlerStep(c) == \/ Check(c) \/ ReadEnds(c) \/ Submit(c) \/ Push(c)
                  \/ Reply(c) \/ Close(c)

-----------------------------------------------------------------------------
(* main, from startServer on.                                              *)

MainGoto(from, to) == /\ sig = "none" /\ main = from /\ main' = to

\* The condition of the loop, tested as soon as the step before it is done.
\* Mutant: the loop does not end.
GoesOnAlways == TRUE
GoesOn == producing
LoopOrClose == IF GoesOn THEN "select" ELSE "close"

\* socket, bind and listen; if one fails main waits for a SIGINT.
Listen == /\ \/ MainGoto("start", LoopOrClose)
             \/ MainGoto("start", "lock")
          /\ UNCHANGED <<clientVars, netVars, handlerVars, ready, cv_m, sigVars,
                         poolVars, history>>

\* select returns at a connection, after a second or for a signal.
Accept == /\ backlog # <<>>
          /\ MainGoto("select", LoopOrClose)
          /\ backlog' = Tail(backlog)
          /\ handler' = [handler EXCEPT ![Head(backlog)] = "check"]
          /\ UNCHANGED <<clientVars, conn, request, reply, result, ready, cv_m, sigVars,
                         poolVars, history>>

Timeout == /\ backlog = <<>> \/ ~producing
           /\ MainGoto("select", LoopOrClose)
           /\ UNCHANGED <<clientVars, netVars, handlerVars, ready, cv_m, sigVars,
                          poolVars, history>>

\* Closing the server's socket resets what was not accepted.  Mutant: it does not.
ResetNot(c) == conn[c]
Reset(c) == IF conn[c] = "open" /\ \E i \in DOMAIN backlog : backlog[i] = c
            THEN "closed" ELSE conn[c]
CloseServer == /\ MainGoto("close", "lock")
               /\ conn' = [c \in Clients |-> Reset(c)]
               /\ backlog' = <<>>
               /\ UNCHANGED <<clientVars, request, reply, handlerVars, ready, cv_m,
                              sigVars, poolVars, history>>

\* unique_lock, and wait with its condition.
Lock == /\ cv_m = "free"
        /\ MainGoto("lock", "locked")
        /\ cv_m' = "main"
        /\ UNCHANGED <<clientVars, netVars, handlerVars, ready, sigVars, poolVars, history>>

Wait == /\ MainGoto("locked", IF ready THEN "leave" ELSE "waiting")
        /\ cv_m' = IF ready THEN "main" ELSE "free"
        /\ UNCHANGED <<clientVars, netVars, handlerVars, ready, sigVars, poolVars, history>>

Wake == /\ ready /\ cv_m = "free"
        /\ MainGoto("waiting", "leave")
        /\ cv_m' = "main"
        /\ UNCHANGED <<clientVars, netVars, handlerVars, ready, sigVars, poolVars, history>>

\* return: cv_m is released, then the caches are destroyed.
Return == /\ MainGoto("leave", "destroy")
          /\ cv_m' = "free"
          /\ UNCHANGED <<clientVars, netVars, handlerVars, ready, sigVars, poolVars, history>>

\* ~IOThreadPool joins threads that its notification may have missed (module IOPool),
\* so that it may never return; ~thread_pool waits for the tasks that run.  Then the
\* process ends, and with it every thread and connection.
Leave == /\ running = {}
         /\ MainGoto("destroy", "exited")
         /\ handler' = [c \in Clients |-> IF handler[c] = "none" THEN "none" ELSE "ended"]
         /\ conn' = [c \in Clients |-> IF conn[c] = "open" THEN "closed" ELSE conn[c]]
         /\ backlog' = <<>>
         /\ UNCHANGED <<clientVars, request, reply, result, ready, cv_m,
                        sigVars, poolVars, history>>

MainStep == \/ Listen \/ Accept \/ Timeout \/ CloseServer \/ Lock \/ Wait \/ Wake
            \/ Return

-----------------------------------------------------------------------------
(* signalHandler.                                                          *)

\* A SIGINT while the handler runs is kept until it returns.  One that finds main in
\* its destructors is left out: the handler would use what is destroyed.
Interrupt ==
  /\ main \notin {"destroy", "exited"} /\ signals < MaxSignals
  /\ signals' = signals + 1
  /\ producing' = FALSE
  /\ \/ sig = "none" /\ sig' = "shutdown" /\ UNCHANGED again
     \/ sig # "none" /\ again' = TRUE /\ UNCHANGED sig
  /\ UNCHANGED <<clientVars, netVars, handlerVars, mainVars, poolVars, history>>

SigGoto(from, to) == Alive /\ sig = from /\ sig' = to

\* shutdown waits for those who submit, closes the pool and waits until no task is
\* waiting; done again it returns at once.
Shutdown == /\ \A c \in Clients : handler[c] # "push"
            /\ SigGoto("shutdown", "drain")
            /\ mode' = "closed"
            /\ UNCHANGED <<clientVars, netVars, handlerVars, mainVars, again, signals,
                           producing, accepted, pending, running, done, history>>

\* Mutant: it does not wait.
DrainedNot == TRUE
Drained == pending = <<>>
Drain == /\ Drained
         /\ SigGoto("drain", "save")
         /\ UNCHANGED <<clientVars, netVars, handlerVars, mainVars, again, signals,
                        producing, poolVars, history>>

\* The cache and the file information are written (module Server); then lock_guard,
\* ready and notify_all.  A mutex that main holds stays locked.
Notify == /\ cv_m = "free"
          /\ SigGoto("save", IF again THEN "shutdown" ELSE "none")
          /\ again' = FALSE
          /\ ready' = TRUE
          /\ UNCHANGED <<clientVars, netVars, handlerVars, main, cv_m, signals,
                         producing, poolVars, history>>

SignalStep == Shutdown \/ Drain \/ Notify

-----------------------------------------------------------------------------
(* The threads of the pool.                                                *)

StartTask == /\ Alive /\ Cardinality(running) < Workers /\ Pool!Start
             /\ UNCHANGED <<clientVars, netVars, handlerVars, mainVars, sigVars, history>>
EndTask(t) == /\ Alive /\ t \in running /\ Pool!Finish(t)
              /\ UNCHANGED <<clientVars, netVars, handlerVars, mainVars, sigVars, history>>
PoolStep == StartTask \/ \E t \in running : EndTask(t)

ClientStep(c) == \/ Connect(c) \/ Send(c) \/ Receive(c) \/ Disconnected(c) \/ Die(c)

Next == \/ \E c \in Clients : ClientStep(c) \/ HandlerStep(c)
        \/ MainStep \/ Leave \/ Interrupt \/ SignalStep \/ PoolStep

Spec == Init /\ [][Next]_vars

\* Every thread goes on when it can, and a client reads what it waits for.  No client
\* has to connect, to send or to stay, no SIGINT to come and no task to end, and main
\* need not get through its destructors.
Fairness == /\ \A c \in Clients : /\ WF_vars(HandlerStep(c))
                                  /\ WF_vars(Receive(c) \/ Disconnected(c))
            /\ WF_vars(MainStep) /\ WF_vars(SignalStep) /\ WF_vars(StartTask)

FairSpec == Spec /\ Fairness

-----------------------------------------------------------------------------
(* Properties.                                                             *)

Replies == {"OK", "COUNT", "PAUSE"}

\* Every variable has its type; a request is answered at most once, and the tasks
\* name requests that were made.
TypeOK ==
  /\ client \in [Clients -> {"off", "send", "await", "gone"}]
  /\ sent \in [Clients -> Nat]
  /\ conn \in [Clients -> {"none", "open", "fin", "rst", "closed"}]
  /\ backlog \in Seq(Clients)
  /\ request \in [Clients -> Nat]
  /\ reply \in [Clients -> Replies \cup {"none"}]
  /\ handler \in [Clients -> {"none", "check", "read", "push", "reply", "close", "ended"}]
  /\ result \in [Clients -> Replies \cup {"none"}]
  /\ main \in {"start", "select", "close", "lock", "locked", "waiting",
               "leave", "destroy", "exited"}
  /\ ready \in BOOLEAN /\ cv_m \in {"free", "main"}
  /\ sig \in {"none", "shutdown", "drain", "save"}
  /\ again \in BOOLEAN /\ signals \in Nat /\ producing \in BOOLEAN
  /\ mode \in {"open", "closed"} /\ accepted \in Nat
  /\ pending \in Seq(1..accepted) /\ running \subseteq 1..accepted /\ done \subseteq 1..accepted
  /\ asked \in Seq(Clients \X Nat) /\ Len(asked) = accepted
  /\ answers \in [Clients -> Seq(Replies)]
  /\ \A c \in Clients : Len(answers[c]) <= sent[c]
  /\ \A i \in 1..accepted : asked[i][2] <= sent[asked[i][1]]

\* A reply tells the truth about the request: PAUSE says that it never becomes a
\* task, every other reply that it is one task, and only one.
ReplyTruth ==
  \A c \in Clients : \A n \in 1..Len(answers[c]) :
    IF answers[c][n] = "PAUSE"
    THEN \A i \in 1..accepted : asked[i] # <<c, n>>
    ELSE \E i \in 1..accepted : /\ asked[i] = <<c, n>>
                                /\ \A j \in 1..accepted : asked[j] = <<c, n>> => j = i

\* main has its wait behind it.
Leaving == main \in {"leave", "destroy", "exited"}

\* When the handler saves the cache, and when main ends, every request that was
\* not answered PAUSE has been started, whichever connection it came from.
StartedBeforeSave ==
  sig = "save" \/ Leaving =>
    \A c \in Clients : \A n \in 1..Len(answers[c]) :
      answers[c][n] # "PAUSE" => \E t \in running \cup done : asked[t] = <<c, n>>

\* No client that goes away in the middle of a request ends the server: a handler
\* never writes a second time to a connection that has been reset.
ServerSurvives == \A c \in Clients : ~(handler[c] = "reply" /\ conn[c] = "rst")

\* Every thread of the pool has a task that does not end, and others wait.
Jammed == pending # <<>> /\ Cardinality(running) = Workers

\* A client that waits for a reply gets it, or finds the connection closed, also
\* if the server ends before it accepts the connection or reads the request, and
\* whether tasks end or not: only a pool that is jammed for good can keep it waiting.
EveryRequestAnswered ==
  (\A c \in Clients : []<>(client[c] # "await")) \/ <>[]Jammed

\* signalHandler waits for the mutex that its own thread holds.
SelfLocked == sig = "save" /\ cv_m = "main"

\* SIGINT, however often and whenever it comes, brings main past its wait, unless the
\* pool is jammed for good or the handler finds main with cv_m; and this the first
\* SIGINT of a server that listens never does.
MainLeaves ==
  \/ /\ []<>(producing \/ Leaving \/ SelfLocked)
     /\ signals = 1 /\ sig # "none" /\ Listening ~> Leaving \/ signals > 1
  \/ <>[]Jammed
=============================================================================
