------------------------------- MODULE KeyBus -------------------------------
(***************************************************************************)
(* The key daemon and the two programs that use it over ubus: the          *)
(* subscriber ks (src/src/subscriber.c), which looks the daemon's object   *)
(* up and subscribes to it once, and the caller (src/src/caller.c), which  *)
(* looks it up once and calls its methods in a loop.  The daemon may stop  *)
(* at any point and be started again.                                      *)
(*                                                                         *)
(* The daemon is here at the grain of its messages: Mkeyd models what is   *)
(* in them.  Its object is the number of its run.                          *)
(*                                                                         *)
(* External: ubusd and libubus.  The broker answers lookups at once, keeps *)
(* a queue to each client, tells subscribers that an object is gone, and   *)
(* forgets what a client that is gone had not read.  A synchronous invoke  *)
(* waits for the status with its own number and drops any other message.   *)
(***************************************************************************)
EXTENDS Naturals, Sequences

CONSTANTS
  MaxRuns,       \* bound on the starts of the daemon
  MaxKeys,       \* bound on the key interrupts
  Rounds         \* rounds of the caller's loop (10 in caller.c)

ASSUME KeyBusAssumption == MaxRuns \in Nat /\ MaxKeys \in Nat /\ Rounds \in Nat \ {0}

VARIABLES
  run,           \* the daemon's run: 1, 2, ..., 0 while it is not running
  runs,          \* its starts so far (bounded by MaxRuns)
  object,        \* the "key" object in the broker, 0 if there is none
  inbox,         \* calls on their way to the daemon
  serving,       \* what the daemon has yet to do for the call it serves
  keys,          \* key interrupts so far (bounded by MaxKeys)
  ks,            \* where the subscriber is
  obj_id,        \* the object it looked up, 0 if it found none
  subscribed,    \* the object the broker notifies ks about, 0 if none
  toKs,          \* messages on their way to ks
  heard,         \* history: the runs ks got notifications from
  gone,          \* history: the objects subscriber_handle_remove was told of
  caller,        \* where the caller is
  id,            \* the object it looked up
  waiting,       \* it is inside ubus_invoke
  i,             \* its loop counter
  seq,           \* the number of its last request
  toCaller,      \* messages on their way to the caller
  called,        \* history: the requests whose callback ran
  replied,       \* history: the requests whose reply was sent
  notified       \* history: the requests whose test notification was sent

daemonVars == <<run, runs, object, inbox, serving, keys, replied, notified>>
ksVars     == <<ks, obj_id, subscribed, toKs, heard, gone>>
callerVars == <<caller, id, waiting, i, seq, toCaller, called>>
vars       == <<daemonVars, ksVars, callerVars>>

Methods == {"status", "get"}
Idle    == [seq |-> 0, next |-> "idle"]      \* the daemon is in uloop_run

Data(n)        == [type |-> "data", seq |-> n, ret |-> "none"]
Status(n, ret) == [type |-> "status", seq |-> n, ret |-> ret]

Init ==
  /\ run = 0 /\ runs = 0 /\ object = 0 /\ inbox = << >> /\ keys = 0
  /\ serving = Idle
  /\ ks = "connect" /\ obj_id = 0 /\ subscribed = 0 /\ toKs = << >>
  /\ heard = {} /\ gone = {}
  /\ caller = "connect" /\ id = 0 /\ waiting = FALSE /\ i = 0 /\ seq = 0 /\ toCaller = << >>
  /\ replied = {} /\ notified = {} /\ called = {}

-----------------------------------------------------------------------------
(***************************************************************************)
(* The daemon.                                                             *)
(***************************************************************************)
\* Registering the object may fail, and the daemon then runs without it.
MkeydStart ==
  /\ run = 0 /\ runs < MaxRuns
  /\ runs' = runs + 1
  /\ run' = runs + 1
  /\ object' \in {0, runs + 1}
  /\ UNCHANGED <<inbox, serving, keys, replied, notified, ksVars, callerVars>>

\* The broker drops the calls the daemon has not read and tells subscribers.
MkeydStop ==
  /\ run # 0
  /\ run' = 0 /\ object' = 0 /\ inbox' = << >>
  /\ serving' = Idle
  /\ IF subscribed # 0 /\ subscribed = object
     THEN /\ subscribed' = 0
          /\ toKs' = Append(toKs, [type |-> "removed", run |-> object])
     ELSE UNCHANGED <<subscribed, toKs>>
  /\ UNCHANGED <<runs, keys, replied, notified, ks, obj_id, heard, gone, callerVars>>

\* ubus_notify with timeout -1: nothing comes back, nobody may be listening.
Notify ==
  toKs' = IF subscribed # 0 /\ subscribed = object
          THEN Append(toKs, [type |-> "notify", run |-> run]) ELSE toKs

MkeydIsr ==
  /\ run # 0 /\ keys < MaxKeys
  /\ keys' = keys + 1
  /\ Notify
  /\ UNCHANGED <<run, runs, object, inbox, serving, replied, notified, ks, obj_id,
                 subscribed, heard, gone, callerVars>>

\* Wrong on purpose (the mutants named in PROJECT.json): no test notification.
MkeydReplyOnly ==
  /\ serving = Idle /\ inbox # << >>
  /\ inbox' = Tail(inbox)
  /\ toCaller' = Append(toCaller, Data(Head(inbox)))
  /\ replied' = replied \cup {Head(inbox)}
  /\ serving' = [seq |-> Head(inbox), next |-> "status"]
  /\ UNCHANGED <<run, runs, object, keys, notified, ksVars, caller, id, waiting,
                 i, seq, called>>

\* A handler sends the reply and the test notification, then returns 0, and
\* libubus sends the status: three messages, and the daemon may stop between.
MkeydReply ==
  /\ serving = Idle /\ inbox # << >>
  /\ inbox' = Tail(inbox)
  /\ toCaller' = Append(toCaller, Data(Head(inbox)))
  /\ replied' = replied \cup {Head(inbox)}
  /\ serving' = [seq |-> Head(inbox), next |-> "notify"]
  /\ UNCHANGED <<run, runs, object, keys, notified, ksVars, caller, id, waiting,
                 i, seq, called>>

MkeydNotify ==
  /\ serving.next = "notify"
  /\ Notify
  /\ notified' = notified \cup {serving.seq}
  /\ serving' = [serving EXCEPT !.next = "status"]
  /\ UNCHANGED <<run, runs, object, inbox, keys, replied, ks, obj_id, subscribed,
                 heard, gone, callerVars>>

MkeydStatus ==
  /\ serving.next = "status"
  /\ toCaller' = Append(toCaller, Status(serving.seq, "ok"))
  /\ serving' = Idle
  /\ UNCHANGED <<run, runs, object, inbox, keys, replied, notified, ksVars, caller,
                 id, waiting, i, seq, called>>

Serve == MkeydReply \/ MkeydNotify \/ MkeydStatus

-----------------------------------------------------------------------------
(***************************************************************************)
(* The subscriber: main and subscriber_main, each call to the broker a     *)
(* step, and no result but ubus_connect's acted upon.                      *)
(***************************************************************************)
KsConnect ==
  /\ ks = "connect"
  /\ ks' \in {"lookup", "exited"}
  /\ UNCHANGED <<daemonVars, callerVars, obj_id, subscribed, toKs, heard, gone>>

KsLookup ==
  /\ ks = "lookup"
  /\ obj_id' = object                     \* stays 0 if there is none
  /\ ks' = "subscribe"
  /\ UNCHANGED <<daemonVars, callerVars, subscribed, toKs, heard, gone>>

\* Subscribing fails if the object is not there (any more).
KsSubscribe ==
  /\ ks = "subscribe"
  /\ subscribed' = IF obj_id = object THEN obj_id ELSE 0
  /\ ks' = "loop"
  /\ UNCHANGED <<daemonVars, callerVars, obj_id, toKs, heard, gone>>

\* Wrong on purpose: remove_cb is not set.
KsReceiveNoRemove ==
  /\ ks = "loop" /\ toKs # << >>
  /\ toKs' = Tail(toKs)
  /\ heard' = IF Head(toKs).type = "notify" THEN heard \cup {Head(toKs).run}
              ELSE heard
  /\ UNCHANGED <<daemonVars, callerVars, ks, obj_id, subscribed, gone>>

\* subscriber_notify, or subscriber_handle_remove, which only prints.
KsReceive ==
  /\ ks = "loop" /\ toKs # << >>
  /\ toKs' = Tail(toKs)
  /\ IF Head(toKs).type = "notify"
     THEN heard' = heard \cup {Head(toKs).run} /\ UNCHANGED gone
     ELSE gone' = gone \cup {Head(toKs).run} /\ UNCHANGED heard
  /\ UNCHANGED <<daemonVars, callerVars, ks, obj_id, subscribed>>

\* uloop_run returns; the broker forgets the subscription.
KsEnd ==
  /\ ks = "loop"
  /\ ks' = "exited" /\ subscribed' = 0 /\ toKs' = << >>
  /\ UNCHANGED <<daemonVars, callerVars, obj_id, heard, gone>>

-----------------------------------------------------------------------------
(***************************************************************************)
(* The caller.                                                             *)
(***************************************************************************)
CallerConnect ==
  /\ caller = "connect"
  /\ caller' \in {"lookup", "exited"}
  /\ UNCHANGED <<daemonVars, ksVars, id, waiting, i, seq, toCaller, called>>

CallerLookup ==
  /\ caller = "lookup"
  /\ id' = object
  /\ caller' = IF object = 0 THEN "exited" ELSE "status"
  /\ UNCHANGED <<daemonVars, ksVars, waiting, i, seq, toCaller, called>>

\* Wrong on purpose: the request finds the object by its name.
InvokeByName ==
  /\ caller \in Methods /\ ~waiting
  /\ waiting' = TRUE
  /\ seq' = seq + 1
  /\ IF object # 0
     THEN inbox' = Append(inbox, seq + 1) /\ UNCHANGED toCaller
     ELSE toCaller' = Append(toCaller, Status(seq + 1, "not found"))
          /\ UNCHANGED inbox
  /\ UNCHANGED <<run, runs, object, serving, keys, replied, notified, ksVars, caller,
                 id, i, called>>

\* ubus_invoke of the method `caller`, on the object looked up at the start.
Invoke ==
  /\ caller \in Methods /\ ~waiting
  /\ waiting' = TRUE
  /\ seq' = seq + 1
  /\ IF id = object
     THEN inbox' = Append(inbox, seq + 1) /\ UNCHANGED toCaller
     ELSE toCaller' = Append(toCaller, Status(seq + 1, "not found"))
          /\ UNCHANGED inbox
  /\ UNCHANGED <<run, runs, object, serving, keys, replied, notified, ksVars, caller,
                 id, i, called>>

\* ubus_invoke returns; its result is not looked at.
Return ==
  /\ waiting' = FALSE
  /\ caller' = IF caller = "status" THEN "get" ELSE "sleep"

\* Wrong on purpose: any data is taken for the answer.
CallerReceiveAny ==
  /\ waiting /\ toCaller # << >>
  /\ toCaller' = Tail(toCaller)
  /\ LET msg == Head(toCaller)
     IN  \/ /\ msg.seq = seq /\ msg.type = "status"
            /\ Return
            /\ UNCHANGED called
         \/ /\ msg.type = "data"
            /\ called' = called \cup {seq}
            /\ UNCHANGED <<caller, waiting>>
         \/ /\ msg.seq # seq
            /\ UNCHANGED <<caller, waiting, called>>
  /\ UNCHANGED <<daemonVars, ksVars, id, i, seq>>

\* The callback runs on the data of the invocation under way.
CallerReceive ==
  /\ waiting /\ toCaller # << >>
  /\ toCaller' = Tail(toCaller)
  /\ LET msg == Head(toCaller)
     IN  \/ /\ msg.seq = seq /\ msg.type = "status"
            /\ Return
            /\ UNCHANGED called
         \/ /\ msg.seq = seq /\ msg.type = "data"
            /\ called' = called \cup {seq}
            /\ UNCHANGED <<caller, waiting>>
         \/ /\ msg.seq # seq
            /\ UNCHANGED <<caller, waiting, called>>
  /\ UNCHANGED <<daemonVars, ksVars, id, i, seq>>

\* Wrong on purpose: a timeout of 0 waits for ever.
CallerNoTimeout == waiting /\ FALSE /\ UNCHANGED vars

\* 3000 ms have passed.
CallerTimeout ==
  /\ waiting
  /\ Return
  /\ UNCHANGED <<daemonVars, ksVars, id, i, seq, toCaller, called>>

\* Wrong on purpose: one round too many.
CallerSleepOneMore ==
  /\ caller = "sleep"
  /\ i' = i + 1
  /\ caller' = IF i + 1 <= Rounds THEN "status" ELSE "exited"
  /\ UNCHANGED <<daemonVars, ksVars, id, waiting, seq, toCaller, called>>

CallerSleep ==
  /\ caller = "sleep"
  /\ i' = i + 1
  /\ caller' = IF i + 1 < Rounds THEN "status" ELSE "exited"
  /\ UNCHANGED <<daemonVars, ksVars, id, waiting, seq, toCaller, called>>

-----------------------------------------------------------------------------
KsStep == KsConnect \/ KsLookup \/ KsSubscribe \/ KsReceive

CallerStep == CallerConnect \/ CallerLookup \/ Invoke \/ CallerReceive
              \/ CallerTimeout \/ CallerSleep

Next ==
  \/ MkeydStart \/ MkeydStop \/ MkeydIsr
  \/ Serve
  \/ KsStep \/ KsEnd
  \/ CallerStep

\* Running programs are scheduled and a timeout passes; nobody owes a start, a
\* stop, a key or, thanks to the timeouts, an answer.
Spec == Init /\ [][Next]_vars /\ WF_vars(KsStep) /\ WF_vars(CallerStep)

-----------------------------------------------------------------------------
(***************************************************************************)
(* Properties.                                                             *)
(***************************************************************************)
TypeOK ==
  /\ run \in 0..MaxRuns /\ runs \in run..MaxRuns /\ object \in {0, run}
  /\ \A k \in 1..Len(inbox) : inbox[k] \in 1..seq
  /\ serving \in [seq : 0..seq, next : {"idle", "notify", "status"}]
  /\ keys \in 0..MaxKeys
  /\ ks \in {"connect", "lookup", "subscribe", "loop", "exited"}
  /\ obj_id \in 0..MaxRuns /\ subscribed \in {0, obj_id}
  /\ caller \in {"connect", "lookup", "status", "get", "sleep", "exited"}
  /\ id \in 0..MaxRuns /\ waiting \in BOOLEAN /\ i \in 0..Rounds
  /\ seq \in 0..(2 * Rounds)
  /\ called \subseteq 1..seq /\ replied \subseteq 1..seq /\ notified \subseteq 1..seq

\* A call that completed has told the subscribers: once libubus may report "ok" to
\* the caller, the handler's test notification is with the broker and, if the
\* caller did not time out first, its callback has run or is about to.
NotifiedBeforeStatus ==
  \A k \in 1..Len(toCaller) :
    LET m == toCaller[k]
    IN  m.type = "status" /\ m.ret = "ok"
          => /\ m.seq \in notified
             /\ waiting /\ m.seq = seq
                  => seq \in called \/ \E j \in 1..(k - 1) : toCaller[j] = Data(seq)

\* ks and the caller each know one run of the daemon, the one they found when they
\* started: a daemon started again neither reaches ks nor serves the caller, and
\* once ks was told that its daemon is gone it hears nothing more.
OneRunKnown ==
  /\ heard \subseteq {obj_id} /\ gone \subseteq {obj_id}
  /\ \A k \in 1..Len(toKs) : toKs[k].run = obj_id /\ obj_id \notin gone
  /\ inbox # << >> \/ serving # Idle => run = id

\* A subscriber that has heard its daemon and lost it is told (subscriber.c:59:
\* remove_cb is called when the server exits), unless it exits itself.
RemovalTold ==
  heard # {} /\ subscribed = 0 ~> obj_id \in gone \/ ks = "exited"

\* The caller comes to its end whatever the daemon does: stop in the middle of a
\* call, start again as another object, or be slower than every timeout.
CallerTerminates == <>(caller = "exited")

\* The calls are as RemoteCall says: the daemon serves each at most once, in
\* order, maybe after its time is over; and no late answer is taken for that of
\* the call under way.
Calls ==
  INSTANCE RemoteCall WITH made <- seq, open <- waiting, begun <- replied,
                           finished <- notified, known <- called
ImplementsCalls == Calls!Spec
=============================================================================
