------------------------------- MODULE Hello --------------------------------
(***************************************************************************)
(* The example server and its clients over ubus, src/src/server.c and      *)
(* src/src/client.c, all single-threaded uloop programs.                   *)
(*                                                                         *)
(* A client has the server watch it, then notifies it a thousand times a   *)
(* second, synchronously; it asks it to count, synchronously; and it says  *)
(* hello, asynchronously.  The server defers the answer to hello, creates  *)
(* a pipe, hands its read end over, and from then on writes a line a       *)
(* second: a blocking write, in the loop that also answers the synchronous *)
(* calls of all its clients.  Only the clients' timeouts keep the programs *)
(* from waiting for each other.                                            *)
(*                                                                         *)
(* External: ubus, the pipes, and a client's ustream, which calls the      *)
(* read callback once for what one read() brought.  A line is a number.    *)
(***************************************************************************)
EXTENDS Count, Sequences, SequencesExt, FiniteSetsExt

CONSTANTS
  COUNT_TO_MIN, COUNT_TO_MAX, PROGRESSION,
  CountStart,    \* the first value of count_to, 100000
  Notifies,      \* notifications in one tick, 1000
  PipeLines,     \* lines the pipe holds
  StreamLines,   \* lines the read buffer of the ustream holds
  MaxClients,    \* bound on the clients started
  Together,      \* bound on the clients that run at once
  MaxLines,      \* bound on the lines written for each
  Ends           \* bound: which programs may end, of "client" and "server"

\* The counts are of nine digits at most (1000000 has seven), and a string of them
\* all, at eleven characters each, has a size that does not wrap.
ASSUME HelloAssumption ==
  /\ {COUNT_TO_MIN, COUNT_TO_MAX, CountStart, Notifies} \subseteq Nat
  /\ PROGRESSION \in Nat \ {0}
  /\ CountStart \in COUNT_TO_MIN..COUNT_TO_MAX
  /\ (CountStart - COUNT_TO_MIN) % PROGRESSION = 0
  /\ (COUNT_TO_MAX - CountStart) % PROGRESSION = 0
  /\ COUNT_TO_MIN < COUNT_TO_MAX /\ COUNT_TO_MIN >= PROGRESSION
  /\ {PipeLines, StreamLines, MaxClients, Together, MaxLines} \subseteq Nat \ {0}
  /\ COUNT_TO_MAX < 1000 * 1000 * 1000 /\ 11 * COUNT_TO_MAX + 1 < Wrap

VARIABLES
  \* the server
  up,            \* it is running
  inbox,         \* requests on their way to it, as [from, method]
  watched,       \* the clients whose object it has subscribed to
  hello,         \* each client's hello_request
  idx,           \* the lines written for each
  writing,       \* the client whose pipe the server is blocked on, or 0
  \* the clients
  clients,       \* clients started so far (bounded by MaxClients)
  client,        \* the state of each (see Started)
  pipe           \* the lines in the pipe of each

serverVars == <<up, watched, hello, idx, writing>>
vars == <<serverVars, inbox, clients, client, pipe>>

Clients  == 1..MaxClients
Requests == [from : Clients, method : {"watch", "notify", "count", "hello"}]

\* A client at the start of client_main.
Started ==
  [at |-> "watch",         \* where it is
   waiting |-> FALSE,      \* it is inside a synchronous call
   left |-> 0,             \* notifications left in this tick
   count_to |-> CountStart, count_progression |-> PROGRESSION,
   count_timer |-> FALSE,  \* count_timer is set
   pending |-> "none",     \* its hello: "none", "sent" or "done"
   replies |-> << >>,      \* answers on their way to it
   fd |-> FALSE,           \* it has the read end of its pipe
   stream |-> << >>,       \* lines read and not consumed
   printed |-> 0]          \* history: the last line printed
Off == [Started EXCEPT !.at = "off"]

Present == {c \in Clients : client[c].at # "off"}

Init ==
  /\ up = TRUE /\ inbox = << >> /\ watched = {}
  /\ hello = [c \in Clients |-> "none"] /\ idx = [c \in Clients |-> 0]
  /\ writing = 0
  /\ clients = 0 /\ client = [c \in Clients |-> Off]
  /\ pipe = [c \in Clients |-> << >>]

\* Client c goes on as s.
Becomes(c, s) == client' = [client EXCEPT ![c] = s]

-----------------------------------------------------------------------------
(***************************************************************************)
(* A client: client_main, then uloop_run ("idle").                         *)
(***************************************************************************)
\* Without a server the lookup fails and the client exits at once.
ClientStart(c) ==
  /\ c = clients + 1 /\ Cardinality(Present) < Together /\ up
  /\ clients' = c
  /\ Becomes(c, Started)
  /\ UNCHANGED <<serverVars, inbox, pipe>>

\* The elements of a queue that are in S, in their order.
Kept(queue, S) ==
  LET kept[n \in 0..Len(queue)] ==
        IF n = 0 THEN << >>
        ELSE IF queue[n] \in S THEN Append(kept[n - 1], queue[n]) ELSE kept[n - 1]
  IN  kept[Len(queue)]

\* The broker withdraws the client's object, and drops what was for it.  Calls
\* that nobody waits for any more have no effect unless they watch or say hello.
WithoutCaller(c) ==
  Kept(inbox, {r \in Requests : r.from # c \/ r.method \in {"watch", "hello"}})

ClientStop(c) ==
  /\ "client" \in Ends /\ client[c].at # "off"
  /\ Becomes(c, Off)
  /\ pipe' = [pipe EXCEPT ![c] = << >>]
  /\ watched' = watched \ {c}
  /\ inbox' = WithoutCaller(c)
  /\ UNCHANGED <<up, hello, idx, writing, clients>>

\* A request is sent.  A synchronous call returns on its answer, when its time is
\* over, or with an error if the server is gone.
Sent(c, m) == inbox' = IF up THEN Append(inbox, [from |-> c, method |-> m]) ELSE inbox

InvokeWatch(c) ==
  /\ client[c].at = "watch" /\ ~client[c].waiting
  /\ Sent(c, "watch")
  /\ Becomes(c, [client[c] EXCEPT !.waiting = TRUE])
  /\ UNCHANGED <<serverVars, clients, pipe>>

\* Wrong on purpose (the mutants named in PROJECT.json): without a subscriber the
\* notification is tried again.
UbusNotifyAgain(c) ==
  /\ client[c].at = "notify" /\ ~client[c].waiting /\ client[c].left > 0
  /\ IF c \in watched
     THEN Sent(c, "notify") /\ Becomes(c, [client[c] EXCEPT !.waiting = TRUE])
     ELSE UNCHANGED <<inbox, client>>
  /\ UNCHANGED <<serverVars, clients, pipe>>

\* test_client_notify_cb, one of its ubus_notify: without a subscriber it
\* returns at once.
UbusNotify(c) ==
  /\ client[c].at = "notify" /\ ~client[c].waiting /\ client[c].left > 0
  /\ IF c \in watched
     THEN Sent(c, "notify") /\ Becomes(c, [client[c] EXCEPT !.waiting = TRUE])
     ELSE Becomes(c, [client[c] EXCEPT !.left = @ - 1]) /\ UNCHANGED inbox
  /\ UNCHANGED <<serverVars, clients, pipe>>

\* The end of test_client_notify_cb: back to client_main, which says hello and
\* sets count_timer, or to uloop_run.
NotifyEnd(c) ==
  /\ client[c].at = "notify" /\ ~client[c].waiting /\ client[c].left = 0
  /\ IF client[c].pending = "none"
     THEN /\ Sent(c, "hello")
          /\ Becomes(c, [client[c] EXCEPT !.at = "idle", !.pending = "sent",
                                          !.count_timer = TRUE])
     ELSE Becomes(c, [client[c] EXCEPT !.at = "idle"]) /\ UNCHANGED inbox
  /\ UNCHANGED <<serverVars, clients, pipe>>

NotifyTimer(c) ==
  /\ client[c].at = "idle"
  /\ Becomes(c, [client[c] EXCEPT !.at = "notify", !.left = Notifies])
  /\ UNCHANGED <<serverVars, inbox, clients, pipe>>

\* Wrong on purpose: the count turns only beyond its limits.
ProgressionPast(s) ==
  IF s.count_to < COUNT_TO_MIN THEN PROGRESSION
  ELSE IF s.count_to > COUNT_TO_MAX THEN -PROGRESSION ELSE s.count_progression

\* test_count: turn at the ends, go on, and ask the server.  The timer is not set
\* again if the string cannot be allocated or the server's object is gone.
Progression(s) ==
  IF s.count_to <= COUNT_TO_MIN THEN PROGRESSION
  ELSE IF s.count_to >= COUNT_TO_MAX THEN -PROGRESSION ELSE s.count_progression

CountTimer(c) ==
  /\ client[c].at = "idle" /\ client[c].count_timer
  /\ LET p == Progression(client[c])
         s == [client[c] EXCEPT !.count_progression = p, !.count_to = @ + p,
                                !.count_timer = FALSE]
     IN  \/ /\ up
            /\ Sent(c, "count")
            /\ Becomes(c, [s EXCEPT !.at = "count", !.waiting = TRUE])
         \/ Becomes(c, s) /\ UNCHANGED inbox
  /\ UNCHANGED <<serverVars, clients, pipe>>

\* A synchronous call returns; its result is only printed.
Returned(s) ==
  CASE s.at = "watch"  -> [s EXCEPT !.waiting = FALSE, !.at = "notify", !.left = Notifies]
    [] s.at = "notify" -> [s EXCEPT !.waiting = FALSE, !.left = @ - 1]
    [] s.at = "count"  ->
         [s EXCEPT !.waiting = FALSE, !.at = "idle", !.count_timer = TRUE]

\* test_client_fd_cb and test_client_complete_cb run in whatever call of libubus
\* reads the answer to hello.
Received(s, reply) ==
  CASE reply = "fd"    -> [s EXCEPT !.fd = TRUE, !.pending = "done"]
    [] reply = "error" -> [s EXCEPT !.pending = "done"]
    [] reply = s.at    -> Returned(s)

ClientReceive(c) ==
  /\ client[c].replies # << >> /\ (client[c].waiting \/ client[c].at = "idle")
  /\ Becomes(c, Received([client[c] EXCEPT !.replies = Tail(@)], Head(client[c].replies)))
  /\ UNCHANGED <<serverVars, inbox, clients, pipe>>

\* Wrong on purpose: a timeout of 0 waits for ever.
CallNoTimeout(c) == client[c].waiting /\ FALSE /\ UNCHANGED vars

\* A late answer is dropped; a late watch is still carried out.
CallTimeout(c) ==
  /\ client[c].waiting
  /\ Becomes(c, [Returned(client[c]) EXCEPT !.replies =
                   Kept(@, {"fd", "error"})])
  /\ inbox' = WithoutCaller(c)
  /\ UNCHANGED <<serverVars, clients, pipe>>

\* Wrong on purpose: the line is printed and not consumed; or all that was read is
\* consumed with it.
FdDataPeek(c) ==
  /\ client[c].at = "idle" /\ client[c].fd
  /\ pipe[c] # << >> /\ Len(client[c].stream) < StreamLines
  /\ pipe' = [pipe EXCEPT ![c] = Tail(@)]
  /\ LET s == Append(client[c].stream, Head(pipe[c]))
     IN  Becomes(c, [client[c] EXCEPT !.printed = Head(s), !.stream = s])
  /\ UNCHANGED <<serverVars, inbox, clients>>

FdDataFlush(c) ==
  /\ client[c].at = "idle" /\ client[c].fd /\ pipe[c] # << >>
  /\ pipe' = [pipe EXCEPT ![c] = << >>]
  /\ Becomes(c, [client[c] EXCEPT !.printed = Head(pipe[c]), !.stream = << >>])
  /\ UNCHANGED <<serverVars, inbox, clients>>

\* One read() takes what there is and fits, then test_client_fd_data_cb prints and
\* consumes one line: what else was read waits for the next read.
FdData(c) ==
  /\ client[c].at = "idle" /\ client[c].fd /\ pipe[c] # << >>
  /\ LET n == Min({Len(pipe[c]), StreamLines - Len(client[c].stream)})
         s == client[c].stream \o SubSeq(pipe[c], 1, n)
     IN  /\ n > 0
         /\ pipe' = [pipe EXCEPT ![c] = SubSeq(@, n + 1, Len(@))]
         /\ Becomes(c, [client[c] EXCEPT !.printed = Head(s), !.stream = Tail(s)])
  /\ UNCHANGED <<serverVars, inbox, clients>>

-----------------------------------------------------------------------------
(***************************************************************************)
(* The server.                                                             *)
(***************************************************************************)
Running == up /\ writing = 0

Reply(c, r) ==
  IF c \in Present THEN Becomes(c, [client[c] EXCEPT !.replies = Append(@, r)])
  ELSE UNCHANGED client

\* The reader of c's pipe: the client, or the answer that carries the fd to it.
\* (An answer that cannot be delivered is closed before the next line is due.)
HasReader(c) == c \in Present

\* A late watch is carried out, and nobody is told.
TestWatch(c) ==
  /\ watched' = IF c \in Present THEN watched \cup {c} ELSE watched
  /\ IF client[c].at = "watch" THEN Reply(c, "watch") ELSE UNCHANGED client
  /\ UNCHANGED hello

TestHello(c) ==
  /\ \/ hello' = [hello EXCEPT ![c] = "deferred"] /\ UNCHANGED client
     \/ Reply(c, "error") /\ UNCHANGED hello      \* calloc failed
  /\ UNCHANGED watched

Serve ==
  /\ Running /\ inbox # << >>
  /\ inbox' = Tail(inbox)
  /\ LET r == Head(inbox)
     IN  CASE r.method = "watch" -> TestWatch(r.from)
           [] r.method = "hello" -> TestHello(r.from)
           [] OTHER -> Reply(r.from, r.method) /\ UNCHANGED <<watched, hello>>
  /\ UNCHANGED <<up, idx, writing, clients, pipe>>

\* Wrong on purpose: the pipe is that of the last client that came.
WriteLineLast(c) ==
  /\ idx' = [idx EXCEPT ![c] = @ + 1]
  /\ pipe' = [pipe EXCEPT ![clients] = Append(@, idx[c] + 1)]

\* Line idx + 1 goes into the pipe of c.
WriteLine(c) ==
  /\ idx' = [idx EXCEPT ![c] = @ + 1]
  /\ pipe' = [pipe EXCEPT ![c] = Append(@, idx[c] + 1)]

\* The write() of a line to the pipe of c: it fails if nobody can read, blocks if
\* there is no room.
Write(c) ==
  IF ~HasReader(c)
  THEN /\ hello' = [hello EXCEPT ![c] = "freed"]
       /\ UNCHANGED <<idx, pipe, writing>>
  ELSE /\ hello' = [hello EXCEPT ![c] = "open"]
       /\ IF Len(pipe[c]) < PipeLines
          THEN WriteLine(c) /\ writing' = 0
          ELSE writing' = c /\ UNCHANGED <<idx, pipe>>

\* test_hello_reply, which goes on into test_hello_fd_reply.  If pipe() fails the
\* request is neither completed nor freed.
TestHelloReply(c) ==
  /\ Running /\ hello[c] = "deferred"
  /\ \/ Write(c) /\ Reply(c, "fd")
     \/ /\ hello' = [hello EXCEPT ![c] = "stalled"]
        /\ UNCHANGED <<idx, pipe, writing, client>>
  /\ UNCHANGED <<up, inbox, watched, clients>>

TestHelloFdReply(c) ==
  /\ Running /\ hello[c] = "open" /\ idx[c] < MaxLines
  /\ Write(c)
  /\ UNCHANGED <<up, inbox, watched, clients, client>>

\* Wrong on purpose: the write is tried again when the reader is gone.
WriteReturnsRetry ==
  /\ up /\ writing # 0 /\ HasReader(writing) /\ Len(pipe[writing]) < PipeLines
  /\ WriteLine(writing) /\ writing' = 0
  /\ UNCHANGED <<up, inbox, watched, hello, clients, client>>

\* A blocked write goes on when there is room, and fails when the reader is gone.
WriteReturns ==
  /\ up /\ writing # 0
  /\ IF HasReader(writing)
     THEN /\ Len(pipe[writing]) < PipeLines
          /\ WriteLine(writing) /\ UNCHANGED hello
     ELSE /\ hello' = [hello EXCEPT ![writing] = "freed"]
          /\ UNCHANGED <<idx, pipe>>
  /\ writing' = 0
  /\ UNCHANGED <<up, inbox, watched, clients, client>>

\* The server ends: its object, its subscriptions and its requests with it.
ServerStop ==
  /\ "server" \in Ends /\ up
  /\ up' = FALSE /\ inbox' = << >> /\ watched' = {} /\ writing' = 0
  /\ UNCHANGED <<hello, idx, clients, client, pipe>>

-----------------------------------------------------------------------------
ClientStep(c) == InvokeWatch(c) \/ UbusNotify(c) \/ NotifyEnd(c) \/ CallTimeout(c)

ServerStep == Serve \/ WriteReturns \/ \E c \in Clients : TestHelloReply(c)

ClientNext(c) ==
  \/ ClientStart(c) \/ ClientStop(c) \/ ClientStep(c)
  \/ NotifyTimer(c) \/ CountTimer(c) \/ ClientReceive(c) \/ FdData(c)

Next ==
  \/ ServerStop \/ ServerStep
  \/ \E c \in Clients : ClientNext(c) \/ TestHelloFdReply(c)

\* The programs are scheduled and timers run out.  Every turn of uloop looks at
\* the file descriptors and the timers, so what is ready again and again is
\* handled: strong fairness.  Nobody owes a start, a stop or another line.
Fairness ==
  /\ WF_vars(WriteReturns) /\ SF_vars(Serve)
  /\ \A c \in Clients :
       /\ WF_vars(ClientStep(c))
       /\ SF_vars(FdData(c)) /\ SF_vars(ClientReceive(c))
       /\ SF_vars(TestHelloReply(c))

Spec == Init /\ [][Next]_vars /\ Fairness

-----------------------------------------------------------------------------
(***************************************************************************)
(* Properties.                                                             *)
(***************************************************************************)
ClientOK(s) ==
  /\ s.at \in {"off", "watch", "notify", "count", "idle"} /\ s.waiting \in BOOLEAN
  /\ s.left \in 0..Notifies /\ s.count_timer \in BOOLEAN
  /\ s.pending \in {"none", "sent", "done"} /\ s.fd \in BOOLEAN

\* The types, and: no pipe holds more than it can, and a client's stream always has
\* room for another line, because the callback consumes one for every read: the
\* reader cannot block itself with lines it has not printed.
TypeOK ==
  /\ up \in BOOLEAN /\ inbox \in Seq(Requests) /\ watched \subseteq Clients
  /\ hello \in [Clients -> {"none", "deferred", "stalled", "open", "freed"}]
  /\ idx \in [Clients -> 0..MaxLines] /\ writing \in 0..MaxClients
  /\ clients \in 0..MaxClients
  /\ \A c \in Clients : /\ ClientOK(client[c]) /\ Len(pipe[c]) <= PipeLines
                         /\ Len(client[c].stream) < StreamLines

\* A client sees the lines written for it in order, none lost, none twice, however
\* they were held up in the pipe and in the stream; and no line of the pipe of
\* another client.
LinesInOrder ==
  \A c \in Present :
    hello[c] = "open" =>
      LET printed == client[c].printed
          rest    == client[c].stream \o pipe[c]
      IN  /\ idx[c] = printed + Len(rest)
          /\ \A k \in 1..Len(rest) : rest[k] = printed + k

\* A client counts up and down between its limits, never past them, and the
\* string for the present count fits the buffer allocated for it.
CountInRange ==
  \A c \in Present :
    client[c].count_to \in COUNT_TO_MIN..COUNT_TO_MAX /\ Fits(client[c].count_to)

\* A client that said hello gets its answer, unless pipe() failed or one of the
\* two programs ended; the server cannot be kept by the pipe of another client.
HelloCompletes ==
  \A c \in Clients :
    client[c].pending = "sent"
      ~> client[c].pending # "sent" \/ hello[c] = "stalled" \/ ~up

\* The server's write and its clients' synchronous calls do not wait for each
\* other for ever.
WriteUnblocks == writing # 0 ~> writing = 0

\* A client always comes back to its loop.
ClientReturns ==
  \A c \in Clients :
    client[c].at \notin {"idle", "off"} ~> client[c].at \in {"idle", "off"}
=============================================================================
