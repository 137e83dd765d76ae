------------------------------- MODULE Mkeyd -------------------------------
(***************************************************************************)
(* The key daemon, src/src/mkeyd.c.                                        *)
(*                                                                         *)
(* Two threads of one process share, without a lock, the blob buffer `b`   *)
(* in which every message is composed, the GPIO handle and the ubus        *)
(* context: the uloop thread ("main"), which starts the daemon and runs    *)
(* the handlers of the ubus methods "status" and "get", and the thread     *)
(* mraa creates to run mkeyd_isr on each edge of the key line ("isr").     *)
(*                                                                         *)
(* An add reads the length of the message, writes a field's header at its  *)
(* end, reads and sets the length and then copies the name and the data;   *)
(* libubus reads the length and then the bytes.  Each is an interval here, *)
(* a begin and an end.  A thread that writes b within an interval of the   *)
(* other races with it, and of what an add leaves after a race nothing is  *)
(* known: torn fields, a name taken for a length, a length past the end.   *)
(***************************************************************************)
EXTENDS Naturals, Sequences

CONSTANTS
  MaxEdges,      \* bound on the edges of the key line
  MaxFailures,   \* bound on the readings of it that fail
  MaxRequests    \* bound on the "status" and "get" calls received

ASSUME BoundsAssumption ==
  MaxEdges \in Nat /\ MaxFailures \in Nat /\ MaxRequests \in Nat

VARIABLES
  level,         \* the key line: "low" or "high"
  edges,         \* edges so far (bounded by MaxEdges)
  irq,           \* an edge is pending in the kernel
  gpio,          \* the handle: "none", "ok" or "failed"
  failures,      \* readings that failed on a good handle (at most MaxFailures)
  mem,           \* the message under way in b: its fields, or Unknown
  pc,            \* where each thread is
  stored,        \* fields each thread added since its blob_buf_init
  sample,        \* the level each thread read for its current add (else "low")
  raced,         \* b was written within the interval each thread is in
  method,        \* the ubus method the main thread serves
  requests,      \* calls received so far (bounded by MaxRequests)
  word,          \* "KeyPress" or "KeyRelease" as sprintf'ed by mkeyd_isr
  isr_count,
  notify_count,
  registered,    \* ubus_add_object succeeded
  sent,          \* history: the last message of each kind handed to libubus,
                 \* as a set of at most one
  reported,      \* history: the word of the last key notification sent
  stale,         \* history: mkeyd_isr's last reading failed, or an edge came
                 \* after it while mraa was not waiting for one
  clean          \* history: no other thread wrote b since t's blob_buf_init

vars == <<level, edges, irq, gpio, failures, mem, pc, stored, sample, raced, method,
          requests, word, isr_count, notify_count, registered, sent, reported,
          stale, clean>>

-----------------------------------------------------------------------------
Threads  == {"main", "isr"}
Methods  == {"status", "get"}
Jobs     == Methods \cup {"isr"}
Levels   == {"low", "high"}
Readings == Levels \cup {"err"}           \* "err": mraa_gpio_read's -1
Words    == {"KeyPress", "KeyRelease"}

Other(t) == IF t = "main" THEN "isr" ELSE "main"
Job(t)   == IF t = "isr" THEN "isr" ELSE method

\* Wrong on purpose (as are all the mutants that PROJECT.json names): the label
\* shows the reading itself.
WordOfRaw(r) == r

\* mkeyd_isr: level ? "KeyPress" : "KeyRelease", where -1 is a uint8 255.
WordOf(r) == IF r = "low" THEN "KeyRelease" ELSE "KeyPress"

\* mraa_gpio_read returns r: the level of the line, or -1, always without a handle
\* and now and then with a good one.
GpioRead(r) ==
  \/ gpio = "ok" /\ r = level /\ UNCHANGED failures
  \/ gpio = "ok" /\ r = "err" /\ failures < MaxFailures
     /\ failures' = failures + 1
  \/ gpio # "ok" /\ r = "err" /\ UNCHANGED failures

\* The fields of each message in the order the code adds them.
NFields == 3
Names(job) ==
  CASE job = "status" -> <<"status", "gpio", "value">>
    [] job = "get"    -> <<"get", "gpio", "value">>
    [] OTHER          -> <<"isr", "key", "action">>

FieldNames == {"status", "get", "isr", "gpio", "key", "value", "action"}
Fields     == [name : FieldNames, val : {"XX", "16"} \cup Readings]

Field(job, k, r) ==
  [name |-> Names(job)[k],
   val  |-> CASE k = 1 -> "XX" [] k = 2 -> "16" [] OTHER -> r]

\* The message the comments of mkeyd.c show for a job, with reading r.
Documented(job, r) == <<Field(job, 1, r), Field(job, 2, r), Field(job, 3, r)>>

\* Bytes nothing is known of: it stands for every message, one that runs past
\* the end of the buffer included.
Unknown  == <<[name |-> "?", val |-> "?"]>>
Contents == Seq(Fields) \cup {Unknown}

\* A message is a reply, the test notification after it, or a key notification;
\* it keeps the job whose fields it is meant to carry and the name the code
\* gives it (the method, or the word of an "ISR-n" label).
Kinds   == {"reply", "notify", "isr"}
Message == [n : Nat, job : Jobs, tag : Methods \cup Words,
            payload : Contents, clean : BOOLEAN]

MainPcs == {"connect", "register", "init_gpio", "idle", "blob_init",
            "blob_add", "adding", "send", "sending", "notify", "notifying",
            "free", "exited"}
IsrPcs  == {"off", "arm", "wait", "sample", "blob_init", "blob_add", "adding",
            "send", "sending"}

\* Where a thread is inside an interval.
Adding(t) == pc[t] = "adding"
Busy(t)   == pc[t] \in {"adding", "sending", "notifying"}

\* Where the interrupt thread is between its reading and mraa's next wait.
Handling == {"blob_init", "blob_add", "adding", "send", "sending", "arm"}

-----------------------------------------------------------------------------
Init ==
  /\ level \in Levels
  /\ edges = 0
  /\ irq = FALSE
  /\ gpio = "none"
  /\ failures = 0
  /\ mem = << >>
  /\ pc = [t \in Threads |-> IF t = "main" THEN "connect" ELSE "off"]
  /\ stored = [t \in Threads |-> 0]
  /\ sample = [t \in Threads |-> "low"]
  /\ raced = [t \in Threads |-> FALSE]
  /\ method = "status"
  /\ requests = 0
  /\ word = "KeyRelease"
  /\ isr_count = 0
  /\ notify_count = 0
  /\ registered = FALSE
  /\ sent = [k \in Kinds |-> {}]
  /\ reported = "none"
  /\ stale = FALSE
  /\ clean = [t \in Threads |-> FALSE]

\* The history and data of the daemon that starting and stopping leave alone.
blobVars    == <<mem, stored, sample, raced, clean>>
messageVars == <<word, isr_count, notify_count, sent, reported>>
keyVars     == <<level, edges, irq, stale>>

Goto(t, label) == pc' = [pc EXCEPT ![t] = label]

GotoBoth(main, isr) ==
  pc' = [t \in Threads |-> IF t = "main" THEN main ELSE isr]

\* Of a message both threads wrote only the payload of a reply is kept: the
\* properties say nothing of the others'.
Kept(t, kind) ==
  CASE raced[t]                   -> Unknown
    [] clean[t] \/ kind = "reply" -> mem
    [] OTHER                      -> << >>

\* Hands the message composed in b to libubus.
Send(t, kind, number, name) ==
  sent' = [sent EXCEPT ![kind] =
             {[n |-> number, job |-> Job(t), tag |-> name,
               payload |-> Kept(t, kind), clean |-> clean[t]]}]

\* The thread is through with b.
Leave(t) ==
  /\ stored' = [stored EXCEPT ![t] = 0]
  /\ raced' = [raced EXCEPT ![t] = FALSE]
  /\ clean' = [clean EXCEPT ![t] = FALSE]

-----------------------------------------------------------------------------
(***************************************************************************)
(* Starting and stopping: main, mkeyd_main and mkeyd_init.                 *)
(***************************************************************************)
Connect ==
  /\ pc["main"] = "connect"
  /\ \/ Goto("main", "register")
     \/ Goto("main", "exited")              \* ubus_connect failed: return -1
  /\ UNCHANGED <<keyVars, blobVars, messageVars, gpio, failures, method, requests,
                 registered>>

\* A failure is printed and the daemon goes on without its object.
AddObject ==
  /\ pc["main"] = "register"
  /\ registered' \in BOOLEAN
  /\ Goto("main", "init_gpio")
  /\ UNCHANGED <<keyVars, blobVars, messageVars, gpio, failures, method, requests>>

\* The results of mraa_gpio_init and mraa_gpio_isr are not checked: there may be
\* no handle, or no interrupt thread.  From here on the main thread is in
\* uloop_run.
MkeydInit ==
  /\ pc["main"] = "init_gpio"
  /\ gpio' \in {"ok", "failed"}
  /\ \/ gpio' = "ok" /\ GotoBoth("idle", "arm")
     \/ Goto("main", "idle")
  /\ UNCHANGED <<keyVars, blobVars, messageVars, failures, method, requests,
                 registered>>

\* uloop_run returns (a signal, or the connection is lost) and main frees the
\* ubus context while the interrupt thread is still there.
UloopEnd ==
  /\ pc["main"] = "idle"
  /\ Goto("main", "free")
  /\ UNCHANGED <<keyVars, blobVars, messageVars, gpio, failures, method, requests,
                 registered>>

\* The end of the process: its memory is gone.
Die ==
  /\ GotoBoth("exited", "off")
  /\ mem' = << >>
  /\ stored' = [t \in Threads |-> 0]
  /\ sample' = [t \in Threads |-> "low"]
  /\ raced' = [t \in Threads |-> FALSE]
  /\ clean' = [t \in Threads |-> FALSE]

Exit ==
  /\ pc["main"] = "free"
  /\ Die
  /\ UNCHANGED <<keyVars, messageVars, gpio, failures, method, requests, registered>>

-----------------------------------------------------------------------------
(***************************************************************************)
(* The key, and the loop of mraa's interrupt thread: it clears what is     *)
(* pending, waits for an edge, clears again, and calls mkeyd_isr.  Edges   *)
(* coalesce, and those that come while mkeyd_isr runs are cleared unseen.  *)
(***************************************************************************)
KeyEdge ==
  /\ edges < MaxEdges
  /\ edges' = edges + 1
  /\ level' = IF level = "low" THEN "high" ELSE "low"
  /\ irq' = (irq \/ pc["isr"] # "off")
  /\ stale' = (stale \/ pc["isr"] \in Handling)
  /\ UNCHANGED <<blobVars, messageVars, gpio, failures, pc, method, requests,
                 registered>>

Arm ==
  /\ pc["isr"] = "arm"
  /\ irq' = FALSE
  /\ Goto("isr", "wait")
  /\ UNCHANGED <<blobVars, messageVars, level, edges, stale, gpio, failures, method,
                 requests, registered>>

Interrupt ==
  /\ pc["isr"] = "wait"
  /\ irq
  /\ irq' = FALSE
  /\ Goto("isr", "sample")
  /\ UNCHANGED <<blobVars, messageVars, level, edges, stale, gpio, failures, method,
                 requests, registered>>

-----------------------------------------------------------------------------
(***************************************************************************)
(* The calls on the blob buffer, by either thread.  Written(t): t writes b,*)
(* so an interval the other is in has raced.                               *)
(***************************************************************************)
Written(t, own) ==
  raced' = [u \in Threads |-> IF u = t THEN own ELSE raced[u] \/ Busy(u)]

\* Wrong on purpose: the length is not reset.
BlobInitKeepsLength(t) ==
  /\ pc[t] = "blob_init"
  /\ stored' = [stored EXCEPT ![t] = 0]
  /\ clean' = [u \in Threads |-> u = t]
  /\ Written(t, FALSE)
  /\ Goto(t, "blob_add")
  /\ UNCHANGED <<keyVars, messageVars, gpio, failures, mem, sample, method, requests,
                 registered>>

\* The length is reset; the old bytes behind it are written over by the adds.
BlobInit(t) ==
  /\ pc[t] = "blob_init"
  /\ mem' = << >>
  /\ stored' = [stored EXCEPT ![t] = 0]
  /\ clean' = [u \in Threads |-> u = t]
  /\ Written(t, FALSE)
  /\ Goto(t, "blob_add")
  /\ UNCHANGED <<keyVars, messageVars, gpio, failures, sample, method, requests,
                 registered>>

\* The third field's value is read from the GPIO to be passed to the add.  An add
\* that begins within the other thread's races with it.
BlobAddBegin(t) ==
  /\ pc[t] = "blob_add"
  /\ IF stored[t] = NFields - 1
     THEN \E r \in Readings : GpioRead(r) /\ sample' = [sample EXCEPT ![t] = r]
     ELSE UNCHANGED <<sample, failures>>
  /\ Written(t, Adding(Other(t)))
  /\ clean' = [u \in Threads |-> u = t /\ clean[t] /\ ~Adding(Other(t))]
  /\ Goto(t, "adding")
  /\ UNCHANGED <<keyVars, messageVars, gpio, mem, stored, method, requests,
                 registered>>

BlobAddEnd(t) ==
  /\ Adding(t)
  /\ mem' = IF raced[t] \/ mem = Unknown THEN Unknown
            ELSE Append(mem, Field(Job(t), stored[t] + 1, sample[t]))
  /\ stored' = [stored EXCEPT ![t] = @ + 1]
  /\ sample' = [sample EXCEPT ![t] = "low"]
  /\ Written(t, FALSE)
  /\ clean' = [u \in Threads |-> u = t /\ clean[t]]
  /\ Goto(t, IF stored[t] + 1 = NFields THEN "send" ELSE "blob_add")
  /\ UNCHANGED <<keyVars, messageVars, gpio, failures, method, requests, registered>>

\* libubus begins to read the message.
UbusBegin(t) ==
  /\ pc[t] \in {"send", "notify"}
  /\ raced' = [raced EXCEPT ![t] = Adding(Other(t))]
  /\ clean' = [clean EXCEPT ![t] = @ /\ ~Adding(Other(t))]
  /\ Goto(t, IF pc[t] = "send" THEN "sending" ELSE "notifying")
  /\ UNCHANGED <<keyVars, messageVars, gpio, failures, mem, stored, sample, method,
                 requests, registered>>

\* A header made of bytes nothing is known of may lead the thread that follows
\* its length out of the buffer: the process dies.
Overrun(t) ==
  /\ Busy(t)
  /\ raced[t] \/ mem = Unknown
  /\ Die
  /\ UNCHANGED <<keyVars, messageVars, gpio, failures, method, requests, registered>>

-----------------------------------------------------------------------------
(***************************************************************************)
(* mkeyd_status and mkeyd_get: compose the reply, send it, then send the   *)
(* same buffer again as the "Notify-n" test notification.                  *)
(***************************************************************************)
Receive(m) ==
  /\ pc["main"] = "idle"
  /\ registered
  /\ requests < MaxRequests
  /\ requests' = requests + 1
  /\ method' = m
  /\ Goto("main", "blob_init")
  /\ UNCHANGED <<keyVars, blobVars, messageVars, gpio, failures, registered>>

\* Wrong on purpose: the handler returns without its test notification.
SendReplyOnly ==
  /\ pc["main"] = "sending"
  /\ Send("main", "reply", requests, method)
  /\ Leave("main")
  /\ Goto("main", "idle")
  /\ UNCHANGED <<keyVars, mem, sample, gpio, failures, method, requests, word,
                 isr_count, notify_count, registered, reported>>

SendReply ==
  /\ pc["main"] = "sending"
  /\ Send("main", "reply", requests, method)
  /\ raced' = [raced EXCEPT !["main"] = FALSE]
  /\ Goto("main", "notify")
  /\ UNCHANGED <<keyVars, mem, stored, sample, clean, gpio, failures, method, requests,
                 word, isr_count, notify_count, registered, reported>>

\* Wrong on purpose: notify_count is incremented before it is printed.
MkeydNotifyCountsFirst ==
  /\ pc["main"] = "notifying"
  /\ Send("main", "notify", notify_count + 1, method)
  /\ notify_count' = notify_count + 1
  /\ Leave("main")
  /\ Goto("main", "idle")
  /\ UNCHANGED <<keyVars, mem, sample, gpio, failures, method, requests, word,
                 isr_count, registered, reported>>

MkeydNotify ==
  /\ pc["main"] = "notifying"
  /\ Send("main", "notify", notify_count, method)
  /\ notify_count' = notify_count + 1
  /\ Leave("main")
  /\ Goto("main", "idle")
  /\ UNCHANGED <<keyVars, mem, sample, gpio, failures, method, requests, word,
                 isr_count, registered, reported>>

-----------------------------------------------------------------------------
(***************************************************************************)
(* mkeyd_isr, on mraa's thread: read the level into the label "ISR-n - ... *)
(* - word", compose the message with a second read of the level, notify.   *)
(***************************************************************************)
\* Wrong on purpose: each interrupt toggles the word, the line is not read.
IsrSampleToggles ==
  /\ pc["isr"] = "sample"
  /\ word' = IF word = "KeyPress" THEN "KeyRelease" ELSE "KeyPress"
  /\ stale' = FALSE
  /\ isr_count' = isr_count + 1
  /\ Goto("isr", "blob_init")
  /\ UNCHANGED <<level, edges, irq, blobVars, gpio, failures, method, requests,
                 notify_count, registered, sent, reported>>

\* Wrong on purpose: a word that was reported last is not reported again.
IsrSampleDebounced ==
  /\ pc["isr"] = "sample"
  /\ \E r \in Readings :
       GpioRead(r) /\ word' = WordOf(r) /\ stale' = (r = "err")
  /\ isr_count' = isr_count + 1
  /\ Goto("isr", IF word' = reported THEN "arm" ELSE "blob_init")
  /\ UNCHANGED <<level, edges, irq, blobVars, gpio, method, requests,
                 notify_count, registered, sent, reported>>

IsrSample ==
  /\ pc["isr"] = "sample"
  /\ \E r \in Readings :
       GpioRead(r) /\ word' = WordOf(r) /\ stale' = (r = "err")
  /\ isr_count' = isr_count + 1
  /\ Goto("isr", "blob_init")
  /\ UNCHANGED <<level, edges, irq, blobVars, gpio, method, requests,
                 notify_count, registered, sent, reported>>

\* The label was made before isr_count was incremented.
IsrNotify ==
  /\ pc["isr"] = "sending"
  /\ pc["main"] # "free"
  /\ Send("isr", "isr", isr_count - 1, word)
  /\ reported' = word
  /\ Leave("isr")
  /\ Goto("isr", "arm")
  /\ UNCHANGED <<keyVars, mem, sample, gpio, failures, method, requests, word,
                 isr_count, notify_count, registered>>

\* ubus_notify on the context main has freed, or frees meanwhile: undefined.  The
\* call does nothing or the process dies.
IsrNotifyFreed ==
  /\ pc["isr"] = "sending"
  /\ pc["main"] = "free"
  /\ \/ Goto("isr", "arm") /\ Leave("isr") /\ UNCHANGED <<mem, sample>>
     \/ Die
  /\ UNCHANGED <<keyVars, messageVars, gpio, failures, method, requests, registered>>

-----------------------------------------------------------------------------
MainStep == BlobInit("main") \/ BlobAddBegin("main") \/ BlobAddEnd("main")
            \/ UbusBegin("main") \/ SendReply \/ MkeydNotify

IsrStep == Arm \/ Interrupt \/ IsrSample \/ BlobInit("isr")
           \/ BlobAddBegin("isr") \/ BlobAddEnd("isr") \/ UbusBegin("isr")
           \/ IsrNotify \/ IsrNotifyFreed

Lifecycle == Connect \/ AddObject \/ MkeydInit \/ UloopEnd \/ Exit

Next ==
  \/ Lifecycle
  \/ KeyEdge
  \/ \E m \in Methods : Receive(m)
  \/ MainStep
  \/ IsrStep
  \/ \E t \in Threads : Overrun(t)

\* The kernel schedules both threads; the key, the callers and the end of the
\* daemon owe nothing.
Fairness == WF_vars(MainStep) /\ WF_vars(IsrStep)

Spec == Init /\ [][Next]_vars /\ Fairness

-----------------------------------------------------------------------------
(***************************************************************************)
(* Properties.                                                             *)
(***************************************************************************)

\* The types: what each thread and message is between two steps.
TypeOK ==
  /\ level \in Levels
  /\ edges \in Nat
  /\ irq \in BOOLEAN
  /\ gpio \in {"none", "ok", "failed"}
  /\ failures \in Nat
  /\ mem \in Contents
  /\ pc \in [Threads -> MainPcs \cup IsrPcs]
  /\ pc["main"] \in MainPcs /\ pc["isr"] \in IsrPcs
  /\ stored \in [Threads -> 0..NFields]
  /\ sample \in [Threads -> Readings]
  /\ raced \in [Threads -> BOOLEAN]
  /\ method \in Methods
  /\ requests \in Nat
  /\ word \in Words
  /\ isr_count \in Nat
  /\ notify_count \in Nat
  /\ registered \in BOOLEAN
  /\ sent \in [Kinds -> SUBSET Message]
  /\ reported \in Words \cup {"none"}
  /\ stale \in BOOLEAN
  /\ clean \in [Threads -> BOOLEAN]

\* A message is damaged only by interference: if the other thread did not
\* write b between a message's blob_buf_init and its sending, it carries exactly
\* the three fields its handler adds, whatever was left in b before.
CleanPayloads ==
  \A k \in Kinds : \A m \in sent[k] :
    m.clean => \E r \in Readings : m.payload = Documented(m.job, r)

\* Each test notification belongs to the reply of the same call, is numbered
\* one below it, and repeats its payload if nobody wrote b in between.
NotifyRepeatsReply ==
  \A m \in sent["notify"], r \in sent["reply"] :
    /\ m.n < r.n
    /\ r.n = m.n + 1 => m.tag = r.tag /\ (m.clean => m.payload = r.payload)

\* An edge that comes while mkeyd_isr runs is lost, and a reading may fail; but
\* neither outlasts the next interrupt, because mkeyd_isr reads the line and does
\* not count edges: a thread that waits, with no edge pending, has reported the
\* present level unless its last reading failed or an edge came after it while
\* nobody waited for one.
KeyReportCurrent ==
  /\ pc["isr"] = "wait" /\ ~irq /\ isr_count > 0 /\ pc["main"] # "free"
  /\ ~stale
  => reported = WordOf(level)

\* The daemon reports its key as KeyReporter says: whatever the handlers of calls
\* do to b, and however the two threads race for it, an edge that was waited for
\* is followed by a report of what the line was read as.
ReporterState ==
  IF pc["main"] \in {"free", "exited"} THEN "off"
  ELSE CASE pc["isr"] = "off"                -> "new"
         [] pc["isr"] = "arm"                -> "deaf"
         [] pc["isr"] = "wait" /\ ~irq       -> "listening"
         [] pc["isr"] = "wait" /\ irq        -> "owing"
         [] pc["isr"] = "sample"             -> "owing"
         [] OTHER                            -> "read"
ReporterWord == IF ReporterState = "read" THEN word ELSE "none"
Reporter ==
  INSTANCE KeyReporter WITH state <- ReporterState, word <- ReporterWord
ImplementsReporter == Reporter!Spec

\* Every call is answered, and followed by its test notification, whatever the
\* interrupt thread does meanwhile, unless the race on b has killed the daemon.
RequestAnswered ==
  \A k \in 1..MaxRequests :
    requests = k ~> \/ /\ \E m \in sent["reply"] : m.n = k
                       /\ \E m \in sent["notify"] : m.n = k - 1
                    \/ pc["main"] = "exited"

\* What the comments in mkeyd_status (mkeyd.c:25-29) and mkeyd_get
\* (mkeyd.c:64-68) say a reply is: the method's own three fields.  Asked only of
\* the replies whose bytes are known, those no race tore.
ReplyDocumented ==
  \A m \in sent["reply"] :
    m.payload # Unknown => \E r \in Readings : m.payload = Documented(m.job, r)
=============================================================================
