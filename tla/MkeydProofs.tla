---------------------------- MODULE MkeydProofs -----------------------------
(***************************************************************************)
(* Proofs about the key daemon: its types, the content of a message nobody *)
(* interfered with, the level its subscribers know, the notification that  *)
(* follows a reply, and that its interrupt path implements KeyReporter.    *)
(* They hold for any number of edges, failed readings and calls.  And      *)
(* proofs about the logger the daemon links, for any identities, channels  *)
(* and levels.                                                             *)
(***************************************************************************)
EXTENDS Mkeyd, Log, SequenceTheorems, TLAPS

Starting  == {"connect", "register", "init_gpio"}
Composing == {"blob_add", "adding", "send", "sending", "notify", "notifying"}

\* What the types alone do not say but every action keeps: the interrupt thread
\* lives only while the daemon runs, a thread that still adds has stored fewer than
\* three fields and one that sends all three, and an interrupt that composes has
\* counted itself.
Shape ==
  /\ pc["main"] \in Starting \cup {"exited"} => pc["isr"] = "off"
  /\ \A t \in Threads : pc[t] \in {"blob_add", "adding"} => stored[t] < NFields
  /\ \A t \in Threads : pc[t] \in {"send", "sending", "notify", "notifying"}
                          => stored[t] = NFields
  /\ pc["isr"] \in Handling \ {"arm"} => isr_count > 0

TypeInv == TypeOK /\ Shape

-----------------------------------------------------------------------------
\* What a thread adds is a field.
LEMMA FieldType ==
  ASSUME NEW j \in Jobs, NEW k \in 1..NFields, NEW r \in Readings
  PROVE  Field(j, k, r) \in Fields
BY DEF Jobs, Methods, NFields, Field, Fields, Names, FieldNames

\* What an add leaves in b is a message, or bytes nothing is known of.
LEMMA AddType ==
  ASSUME TypeInv, NEW t \in Threads, BlobAddEnd(t)
  PROVE  /\ mem' \in Contents
         /\ stored'[t] = stored[t] + 1 /\ stored'[t] \in 0..NFields
         /\ Field(Job(t), stored[t] + 1, sample[t]) \in Fields
<1>1. stored[t] \in Nat /\ stored[t] < NFields /\ stored' = [stored EXCEPT ![t] = @ + 1]
  BY DEF TypeInv, TypeOK, Shape, BlobAddEnd, Adding, NFields
<1>2. stored'[t] = stored[t] + 1 /\ stored[t] + 1 \in 1..NFields
  BY <1>1 DEF TypeInv, TypeOK, NFields
<1>3. Job(t) \in Jobs /\ sample[t] \in Readings
  BY DEF TypeInv, TypeOK, Job, Jobs
<1>4. Field(Job(t), stored[t] + 1, sample[t]) \in Fields
  BY <1>2, <1>3, FieldType
<1> DEFINE f == Field(Job(t), stored[t] + 1, sample[t])
<1>5. mem' = IF raced[t] \/ mem = Unknown THEN Unknown ELSE Append(mem, f)
  BY DEF BlobAddEnd
<1>6. f \in Fields
  BY <1>4
<1> HIDE DEF f
<1>7. mem' \in Contents
  BY <1>5, <1>6 DEF TypeInv, TypeOK, Contents
<1> QED BY <1>2, <1>4, <1>7 DEF NFields

\* What is handed to libubus is a message.
LEMMA SendType ==
  ASSUME TypeInv, NEW t \in Threads, NEW k \in Kinds, NEW n \in Nat,
         NEW w \in Methods \cup Words, Send(t, k, n, w)
  PROVE  sent' \in [Kinds -> SUBSET Message]
<1>1. Kept(t, k) \in Contents
  BY DEF TypeInv, TypeOK, Kept, Contents
<1>2. Job(t) \in Jobs /\ clean[t] \in BOOLEAN
  BY DEF TypeInv, TypeOK, Job, Jobs, Threads
<1>3. [n |-> n, job |-> Job(t), tag |-> w, payload |-> Kept(t, k),
       clean |-> clean[t]] \in Message
  BY <1>1, <1>2 DEF Message
<1> QED BY <1>3 DEF Send, TypeInv, TypeOK

\* A reading of the line, and whether it is one more that failed.
LEMMA GpioReadType ==
  ASSUME TypeInv, NEW r, GpioRead(r)
  PROVE  r \in Readings /\ failures' \in Nat
BY DEF TypeInv, TypeOK, GpioRead, Readings

\* The end of the process.
LEMMA DieType ==
  ASSUME TypeInv, Die
  PROVE  /\ pc' \in [Threads -> MainPcs \cup IsrPcs]
         /\ pc'["main"] = "exited" /\ pc'["isr"] = "off"
         /\ mem' = << >> /\ mem' \in Contents
         /\ stored' \in [Threads -> 0..NFields] /\ sample' \in [Threads -> Readings]
         /\ raced' \in [Threads -> BOOLEAN] /\ clean' \in [Threads -> BOOLEAN]
<1>1. /\ pc' \in [Threads -> MainPcs \cup IsrPcs]
      /\ pc'["main"] = "exited" /\ pc'["isr"] = "off"
  BY DEF Die, GotoBoth, Threads, MainPcs, IsrPcs
<1>2. mem' = << >> /\ mem' \in Contents
  BY DEF Die, Contents
<1>3. stored' \in [Threads -> 0..NFields] /\ sample' \in [Threads -> Readings]
  BY DEF Die, NFields, Readings, Levels
<1>4. raced' \in [Threads -> BOOLEAN] /\ clean' \in [Threads -> BOOLEAN]
  BY Zenon DEF Die
<1> QED BY <1>1, <1>2, <1>3, <1>4

\* The start: no thread has composed anything.
LEMMA TypeInvInit == Init => TypeInv
<1> SUFFICES ASSUME Init PROVE TypeInv
  OBVIOUS
<1>1. mem \in Contents
  BY DEF Init, Contents
<1>2. /\ pc["main"] = "connect" /\ pc["isr"] = "off"
      /\ pc \in [Threads -> MainPcs \cup IsrPcs]
  BY DEF Init, Threads, MainPcs, IsrPcs
<1>3. sent \in [Kinds -> SUBSET Message]
  BY DEF Init
<1>4. raced \in [Threads -> BOOLEAN] /\ clean \in [Threads -> BOOLEAN]
  BY Zenon DEF Init
<1>5. stored \in [Threads -> 0..NFields]
  BY DEF Init, NFields
<1>6. sample \in [Threads -> Readings]
  BY DEF Init, Readings, Levels
<1>7. pc["main"] \in MainPcs /\ pc["isr"] \in IsrPcs
  BY <1>2 DEF MainPcs, IsrPcs
<1>8. TypeOK
  BY <1>1, <1>2, <1>3, <1>4, <1>5, <1>6, <1>7
  DEF Init, TypeOK, Levels, Methods, Words
<1>9. Shape
  BY <1>2 DEF Shape, Threads, Handling
<1> QED BY <1>8, <1>9 DEF TypeInv

\* Every step keeps the types.
LEMMA TypeInvNext == TypeInv /\ [Next]_vars => TypeInv'
<1> SUFFICES ASSUME TypeInv, [Next]_vars PROVE TypeInv'
  OBVIOUS
<1> USE DEF TypeInv, TypeOK, Threads, Starting
<1> USE DEF Shape, MainPcs, IsrPcs, Handling
<1>1. CASE Lifecycle
  <2>1. CASE Connect
    BY <2>1 DEF Connect, Goto, keyVars, blobVars, messageVars
  <2>2. CASE AddObject
    BY <2>2 DEF AddObject, Goto, keyVars, blobVars, messageVars
  <2>3. CASE MkeydInit
    <3>1. CASE gpio' = "ok" /\ GotoBoth("idle", "arm")
      <4>1. /\ pc' \in [Threads -> MainPcs \cup IsrPcs]
            /\ pc'["main"] = "idle" /\ pc'["isr"] = "arm"
        BY <3>1 DEF GotoBoth
      <4> QED BY <2>3, <3>1, <4>1 DEF MkeydInit, keyVars, blobVars, messageVars
    <3>2. CASE Goto("main", "idle")
      BY <2>3, <3>2 DEF MkeydInit, Goto, keyVars, blobVars, messageVars
    <3> QED BY <2>3, <3>1, <3>2 DEF MkeydInit
  <2>4. CASE UloopEnd
    BY <2>4 DEF UloopEnd, Goto, keyVars, blobVars, messageVars
  <2>5. CASE Exit
    BY <2>5, DieType DEF Exit, keyVars, messageVars
  <2> QED BY <1>1, <2>1, <2>2, <2>3, <2>4, <2>5 DEF Lifecycle
<1>2. CASE KeyEdge
  BY <1>2 DEF KeyEdge, blobVars, messageVars, Levels
<1>3. ASSUME NEW m \in Methods, Receive(m) PROVE TypeInv'
  BY <1>3 DEF Receive, Goto, keyVars, blobVars, messageVars
<1>4. CASE Arm \/ Interrupt
  <2>1. \/ pc' = [pc EXCEPT !["isr"] = "wait"]
        \/ pc' = [pc EXCEPT !["isr"] = "sample"]
    BY <1>4 DEF Arm, Interrupt, Goto
  <2>2. /\ pc' \in [Threads -> MainPcs \cup IsrPcs]
        /\ pc'["main"] = pc["main"] /\ pc'["isr"] \in {"wait", "sample"}
    BY <2>1
  <2>3. irq' \in BOOLEAN /\ stale' \in BOOLEAN
    BY <1>4 DEF Arm, Interrupt
  <2> QED BY <1>4, <2>2, <2>3 DEF Arm, Interrupt, blobVars, messageVars
<1>5. CASE IsrSample
  <2>1. word' \in Words /\ failures' \in Nat /\ stale' \in BOOLEAN
    BY <1>5, GpioReadType DEF IsrSample, WordOf, Words
  <2> QED BY <1>5, <2>1 DEF IsrSample, Goto, blobVars
<1>6. ASSUME NEW t \in Threads, BlobInit(t) PROVE TypeInv'
  <2>1. mem' \in Contents
    BY <1>6 DEF BlobInit, Contents
  <2>2. raced' \in [Threads -> BOOLEAN] /\ clean' \in [Threads -> BOOLEAN]
    BY <1>6 DEF BlobInit, Written, Busy
  <2> QED BY <1>6, <2>1, <2>2 DEF BlobInit, Goto, keyVars, messageVars, NFields
<1>7. ASSUME NEW t \in Threads, BlobAddBegin(t) PROVE TypeInv'
  <2>1. sample' \in [Threads -> Readings] /\ failures' \in Nat
    BY <1>7, GpioReadType DEF BlobAddBegin
  <2>2. raced' \in [Threads -> BOOLEAN] /\ clean' \in [Threads -> BOOLEAN]
    BY <1>7 DEF BlobAddBegin, Written, Busy, Adding
  <2> QED BY <1>7, <2>1, <2>2 DEF BlobAddBegin, Goto, keyVars, messageVars
<1>8. ASSUME NEW t \in Threads, BlobAddEnd(t) PROVE TypeInv'
  <2>1. mem' \in Contents /\ stored'[t] = stored[t] + 1 /\ stored'[t] \in 0..NFields
    BY <1>8, AddType
  <2>2. raced' \in [Threads -> BOOLEAN] /\ clean' \in [Threads -> BOOLEAN]
    BY <1>8 DEF BlobAddEnd, Written, Busy
  <2>3. stored' \in [Threads -> 0..NFields] /\ sample' \in [Threads -> Readings]
        /\ \A u \in Threads : u # t => stored'[u] = stored[u]
    BY <1>8, <2>1 DEF BlobAddEnd, Readings, Levels
  <2>4. pc' = [pc EXCEPT ![t] = IF stored'[t] = NFields THEN "send" ELSE "blob_add"]
    BY <1>8, <2>1 DEF BlobAddEnd, Goto
  <2> QED BY <1>8, <2>1, <2>2, <2>3, <2>4
          DEF BlobAddEnd, Adding, keyVars, messageVars, NFields
<1>9. ASSUME NEW t \in Threads, UbusBegin(t) PROVE TypeInv'
  <2>1. raced' \in [Threads -> BOOLEAN] /\ clean' \in [Threads -> BOOLEAN]
    BY <1>9 DEF UbusBegin, Adding
  <2> QED BY <1>9, <2>1 DEF UbusBegin, Goto, keyVars, messageVars
<1>10. CASE SendReply
  <2>1. sent' \in [Kinds -> SUBSET Message]
    BY <1>10, SendType DEF SendReply, Kinds
  <2> QED BY <1>10, <2>1 DEF SendReply, Goto, keyVars
<1>11. CASE MkeydNotify
  <2>1. sent' \in [Kinds -> SUBSET Message]
    BY <1>11, SendType DEF MkeydNotify, Kinds
  <2> QED BY <1>11, <2>1 DEF MkeydNotify, Goto, Leave, keyVars, NFields
<1>12. CASE IsrNotify
  <2>1. isr_count - 1 \in Nat
    BY <1>12 DEF IsrNotify
  <2>2. sent' \in [Kinds -> SUBSET Message]
    BY <1>12, <2>1, SendType DEF IsrNotify, Kinds
  <2> QED BY <1>12, <2>2 DEF IsrNotify, Goto, Leave, keyVars, NFields
<1>13. CASE IsrNotifyFreed
  <2>1. CASE Die
    BY <1>13, <2>1, DieType DEF IsrNotifyFreed, keyVars, messageVars
  <2>2. CASE Goto("isr", "arm") /\ Leave("isr") /\ UNCHANGED <<mem, sample>>
    BY <1>13, <2>2 DEF IsrNotifyFreed, Goto, Leave, keyVars, messageVars, NFields
  <2> QED BY <1>13, <2>1, <2>2 DEF IsrNotifyFreed
<1>14. ASSUME NEW t \in Threads, Overrun(t) PROVE TypeInv'
  BY <1>14, DieType DEF Overrun, keyVars, messageVars
<1>15. CASE UNCHANGED vars
  BY <1>15 DEF vars
<1> QED
  BY <1>1, <1>2, <1>3, <1>4, <1>5, <1>6, <1>7, <1>8, <1>9, <1>10, <1>11, <1>12,
     <1>13, <1>14, <1>15 DEF Next, MainStep, IsrStep

\* The types hold in every state, however the two threads interleave.
THEOREM TypesHold == Spec => []TypeOK
<1>1. Init => TypeInv
  BY TypeInvInit
<1>2. TypeInv /\ [Next]_vars => TypeInv'
  BY TypeInvNext
<1>3. TypeInv => TypeOK
  BY DEF TypeInv
<1> QED BY <1>1, <1>2, <1>3, PTL DEF Spec

-----------------------------------------------------------------------------
(***************************************************************************)
(* Messages nobody interfered with.  A thread whose blob_buf_init nobody   *)
(* has followed with a write of their own owns b: the message under way    *)
(* consists of the fields it has stored, and no interval of its has raced. *)
(***************************************************************************)
Mine(t, k) == \E r \in Readings : mem[k] = Field(Job(t), k, r)

Owned(t) ==
  clean[t] /\ pc[t] \in Composing =>
    /\ ~raced[t]
    /\ mem \in Seq(Fields) /\ Len(mem) = stored[t]
    /\ \A k \in 1..stored[t] : Mine(t, k)

CleanInv == \A t \in Threads : Owned(t)

IInv == TypeInv /\ CleanInv /\ CleanPayloads

\* Three fields of a job, stored in order, are the message the code documents.
LEMMA ThreeFields ==
  ASSUME NEW s \in Seq(Fields), Len(s) = NFields, NEW j \in Jobs,
         \A k \in 1..NFields : \E r \in Readings : s[k] = Field(j, k, r)
  PROVE  \E r \in Readings : s = Documented(j, r)
<1>1. PICK r \in Readings : s[3] = Field(j, 3, r)
  BY DEF NFields
<1>2. s[1] = Field(j, 1, r) /\ s[2] = Field(j, 2, r)
  BY DEF NFields, Field
<1>3. \A k \in 1..3 : Field(j, k, r) \in Fields
  BY FieldType DEF NFields
<1>4. /\ Documented(j, r) \in Seq(Fields) /\ Len(Documented(j, r)) = 3
      /\ \A k \in 1..3 : Documented(j, r)[k] = Field(j, k, r)
  <2> DEFINE f1 == Field(j, 1, r)
             f2 == Field(j, 2, r)
             f3 == Field(j, 3, r)
  <2>1. f1 \in Fields /\ f2 \in Fields /\ f3 \in Fields
    BY <1>3
  <2>2. Documented(j, r) = <<f1, f2, f3>>
    BY DEF Documented
  <2>3. \A k \in 1..3 : k = 1 \/ k = 2 \/ k = 3
    OBVIOUS
  <2> HIDE DEF f1, f2, f3
  <2>4. /\ Documented(j, r) \in Seq(Fields) /\ Len(Documented(j, r)) = 3
        /\ Documented(j, r)[1] = f1 /\ Documented(j, r)[2] = f2
        /\ Documented(j, r)[3] = f3
    BY <2>1, <2>2
  <2> QED BY <2>3, <2>4 DEF f1, f2, f3
<1>5. \A k \in 1..3 : s[k] = Field(j, k, r)
  <2>1. \A k \in 1..3 : k = 1 \/ k = 2 \/ k = 3
    OBVIOUS
  <2> QED BY <1>1, <1>2, <2>1
<1>6. Len(s) = 3
  BY DEF NFields
<1>7. s = Documented(j, r)
  BY <1>4, <1>5, <1>6, SeqEqual
<1> QED BY <1>7

\* No field is the pseudo field of Unknown.
LEMMA UnknownIsNoMessage == Unknown \notin Seq(Fields)
<1>1. [name |-> "?", val |-> "?"] \notin Fields
  BY DEF Fields, FieldNames
<1> DEFINE q == [name |-> "?", val |-> "?"]
<1>2. Unknown = <<q>> /\ q \notin Fields
  BY <1>1 DEF Unknown
<1> HIDE DEF q
<1>3. <<q>> \notin Seq(Fields)
  <2> SUFFICES ASSUME <<q>> \in Seq(Fields) PROVE FALSE
    OBVIOUS
  <2>1. Len(<<q>>) = 1 /\ <<q>>[1] = q
    OBVIOUS
  <2>2. <<q>>[1] \in Fields
    BY <2>1
  <2> QED BY <1>2, <2>1, <2>2
<1> QED BY <1>2, <1>3

\* What a thread with three stored fields hands to libubus keeps CleanPayloads.
LEMMA SendClean ==
  ASSUME IInv, NEW t \in Threads, NEW kind \in Kinds, NEW n, NEW w,
         pc[t] \in {"sending", "notifying"}, Send(t, kind, n, w)
  PROVE  CleanPayloads'
<1> DEFINE m == [n |-> n, job |-> Job(t), tag |-> w, payload |-> Kept(t, kind),
                 clean |-> clean[t]]
<1>1. ASSUME clean[t]
      PROVE  \E r \in Readings : Kept(t, kind) = Documented(Job(t), r)
  <2>1. /\ ~raced[t] /\ mem \in Seq(Fields) /\ Len(mem) = NFields
        /\ \A k \in 1..NFields : Mine(t, k)
    BY <1>1 DEF IInv, CleanInv, Owned, Composing, TypeInv, Shape
  <2>2. Job(t) \in Jobs
    BY DEF IInv, TypeInv, TypeOK, Job, Jobs
  <2>3. \E r \in Readings : mem = Documented(Job(t), r)
    BY <2>1, <2>2, ThreeFields DEF Mine
  <2> QED BY <1>1, <2>1, <2>3 DEF Kept
<1>2. m.clean => \E r \in Readings : m.payload = Documented(m.job, r)
  BY <1>1
<1>3. sent' = [sent EXCEPT ![kind] = {m}]
  BY DEF Send
<1>4. ASSUME NEW k \in Kinds, NEW x \in sent'[k]
      PROVE  x.clean => \E r \in Readings : x.payload = Documented(x.job, r)
  <2>1. x = m \/ x \in sent[k]
    BY <1>3, <1>4 DEF IInv, TypeInv, TypeOK
  <2> QED BY <1>2, <2>1 DEF IInv, CleanPayloads
<1> QED BY <1>4 DEF CleanPayloads

\* An add by the thread that owns b appends its field; any other ends ownership.
LEMMA AddOwned ==
  ASSUME IInv, NEW t \in Threads, BlobAddEnd(t)
  PROVE  CleanInv'
<1>1. stored'[t] = stored[t] + 1 /\ stored[t] \in Nat
      /\ Field(Job(t), stored[t] + 1, sample[t]) \in Fields
  BY AddType DEF IInv, TypeInv, TypeOK
<1>2. \A u \in Threads : u # t => ~clean'[u]
  BY DEF BlobAddEnd
<1>3. ASSUME clean'[t] PROVE Owned(t)'
  <2>1. /\ ~raced[t] /\ mem \in Seq(Fields) /\ Len(mem) = stored[t]
        /\ \A k \in 1..stored[t] : Mine(t, k)
    BY <1>3 DEF IInv, CleanInv, Owned, Composing, BlobAddEnd, Adding
  <2> DEFINE f == Field(Job(t), stored[t] + 1, sample[t])
  <2>2. mem' = Append(mem, f) /\ f \in Fields
    BY <1>1, <2>1, UnknownIsNoMessage DEF BlobAddEnd
  <2>3. ~raced'[t] /\ Job(t)' = Job(t) /\ sample[t] \in Readings
    BY DEF BlobAddEnd, Written, Job, IInv, TypeInv, TypeOK
  <2> HIDE DEF f
  <2>4. mem' \in Seq(Fields) /\ Len(mem') = stored'[t]
        /\ mem'[stored[t] + 1] = f
        /\ \A k \in 1..stored[t] : mem'[k] = mem[k]
    BY <1>1, <2>1, <2>2
  <2>5. ASSUME NEW k \in 1..stored'[t] PROVE Mine(t, k)'
    <3>1. CASE k = stored[t] + 1
      BY <2>3, <2>4, <3>1 DEF Mine, f
    <3>2. CASE k # stored[t] + 1
      <4>1. k \in 1..stored[t]
        BY <1>1, <2>5, <3>2
      <4> QED BY <2>1, <2>3, <2>4, <4>1 DEF Mine
    <3> QED BY <3>1, <3>2
  <2> QED BY <2>3, <2>4, <2>5 DEF Owned
<1> QED BY <1>2, <1>3 DEF CleanInv, Owned

\* Every step keeps a message nobody interfered with as its thread composed it.
LEMMA CleanInvNext == IInv /\ [Next]_vars => CleanInv' /\ CleanPayloads'
<1> SUFFICES ASSUME IInv, [Next]_vars PROVE CleanInv' /\ CleanPayloads'
  OBVIOUS
<1> USE DEF IInv, CleanInv, Threads, Composing
<1>t. TypeInv /\ TypeOK
  BY DEF TypeInv
<1>1. CASE Connect \/ AddObject \/ MkeydInit \/ UloopEnd
  BY <1>1, <1>t DEF Connect, AddObject, MkeydInit, UloopEnd, Goto, GotoBoth,
     blobVars, messageVars, Owned, Mine, Job, CleanPayloads, TypeOK
<1>2. CASE KeyEdge
  BY <1>2 DEF KeyEdge, blobVars, messageVars, Owned, Mine, Job, CleanPayloads
<1>3. ASSUME NEW m \in Methods, Receive(m) PROVE CleanInv' /\ CleanPayloads'
  BY <1>3, <1>t DEF Receive, Goto, blobVars, messageVars, Owned, Mine, Job,
                    CleanPayloads, TypeOK
<1>4. CASE Arm \/ Interrupt \/ IsrSample
  BY <1>4, <1>t DEF Arm, Interrupt, IsrSample, Goto, blobVars, messageVars, Owned,
                    Mine, Job, CleanPayloads, TypeOK
<1>5. ASSUME NEW t \in Threads, BlobInit(t) PROVE CleanInv' /\ CleanPayloads'
  <2>1. mem' \in Seq(Fields) /\ Len(mem') = 0 /\ stored'[t] = 0 /\ ~raced'[t]
    BY <1>5, <1>t DEF BlobInit, Written, TypeOK
  <2>2. \A u \in Threads : u # t => ~clean'[u]
    BY <1>5 DEF BlobInit
  <2>3. CleanPayloads'
    BY <1>5 DEF BlobInit, messageVars, CleanPayloads
  <2> QED BY <2>1, <2>2, <2>3 DEF Owned
<1>6. ASSUME NEW t \in Threads, BlobAddBegin(t) PROVE CleanInv' /\ CleanPayloads'
  <2>1. \A u \in Threads : u # t => ~clean'[u]
    BY <1>6 DEF BlobAddBegin
  <2>2. clean'[t] => clean[t] /\ ~raced'[t]
    BY <1>6 DEF BlobAddBegin, Written
  <2>3. pc[t] \in Composing /\ mem' = mem /\ stored' = stored /\ method' = method
    BY <1>6 DEF BlobAddBegin
  <2>4. CleanPayloads'
    BY <1>6 DEF BlobAddBegin, messageVars, CleanPayloads
  <2> QED BY <2>1, <2>2, <2>3, <2>4 DEF Owned, Mine, Job
<1>7. ASSUME NEW t \in Threads, BlobAddEnd(t) PROVE CleanInv' /\ CleanPayloads'
  BY <1>7, AddOwned DEF BlobAddEnd, messageVars, CleanPayloads
<1>8. ASSUME NEW t \in Threads, UbusBegin(t) PROVE CleanInv' /\ CleanPayloads'
  <2>1. clean'[t] => clean[t] /\ ~raced'[t]
    BY <1>8, <1>t DEF UbusBegin, TypeOK
  <2>2. \A u \in Threads : u # t =>
          clean'[u] = clean[u] /\ raced'[u] = raced[u] /\ pc'[u] = pc[u]
    BY <1>8, <1>t DEF UbusBegin, Goto, TypeOK
  <2>3. pc[t] \in Composing /\ mem' = mem /\ stored' = stored /\ method' = method
    BY <1>8 DEF UbusBegin
  <2>4. CleanPayloads'
    BY <1>8 DEF UbusBegin, messageVars, CleanPayloads
  <2> QED BY <2>1, <2>2, <2>3, <2>4 DEF Owned, Mine, Job
<1>9. CASE SendReply
  <2>1. CleanPayloads'
    BY <1>9, SendClean DEF SendReply, Kinds
  <2> QED BY <1>9, <1>t, <2>1 DEF SendReply, Goto, Owned, Mine, Job, TypeOK
<1>10. CASE MkeydNotify
  <2>1. CleanPayloads'
    BY <1>10, SendClean DEF MkeydNotify, Kinds
  <2> QED BY <1>10, <1>t, <2>1 DEF MkeydNotify, Goto, Leave, Owned, Mine, Job, TypeOK
<1>11. CASE IsrNotify
  <2>1. CleanPayloads'
    BY <1>11, SendClean DEF IsrNotify, Kinds
  <2> QED BY <1>11, <1>t, <2>1 DEF IsrNotify, Goto, Leave, Owned, Mine, Job, TypeOK
<1>12. CASE IsrNotifyFreed /\ ~Die
  BY <1>12, <1>t DEF IsrNotifyFreed, Goto, Leave, messageVars, Owned, Mine, Job,
                     CleanPayloads, TypeOK
<1>13. CASE Die /\ sent' = sent
  BY <1>13 DEF Die, Owned, CleanPayloads
<1>14. CASE UNCHANGED vars
  BY <1>14 DEF vars, Owned, Mine, Job, CleanPayloads
<1> QED
  BY <1>1, <1>2, <1>3, <1>4, <1>5, <1>6, <1>7, <1>8, <1>9, <1>10, <1>11, <1>12,
     <1>13, <1>14
  DEF Next, MainStep, IsrStep, Lifecycle, Exit, IsrNotifyFreed, Overrun, messageVars

\* A message that the other thread did not interfere with is the documented one.
THEOREM CleanPayloadsHold == Spec => []CleanPayloads
<1>1. Init => IInv
  <2>1. Init => TypeInv
    BY TypeInvInit
  <2> QED BY <2>1 DEF Init, IInv, CleanInv, CleanPayloads, Owned, Composing, Threads
<1>2. IInv /\ [Next]_vars => IInv'
  BY TypeInvNext, CleanInvNext DEF IInv
<1>3. IInv => CleanPayloads
  BY DEF IInv
<1> QED BY <1>1, <1>2, <1>3, PTL DEF Spec

-----------------------------------------------------------------------------
(***************************************************************************)
(* What subscribers know.  An interrupt thread past its reading holds the  *)
(* word of the present level, unless the reading failed or an edge came    *)
(* after it; it reports that word before it waits again.                   *)
(***************************************************************************)
ReportInv ==
  /\ pc["main"] \in Starting => isr_count = 0
  /\ pc["isr"] \in Handling \ {"arm"} /\ ~stale => word = WordOf(level)
  /\ /\ pc["isr"] = "arm" \/ (pc["isr"] = "wait" /\ ~irq)
     /\ isr_count > 0 /\ pc["main"] # "free" /\ ~stale
     => reported = WordOf(level)

\* Every step leaves the interrupt thread with a word that fits the level, unless
\* the level is known to be stale.
LEMMA ReportInvNext == TypeInv /\ ReportInv /\ [Next]_vars => ReportInv'
<1> SUFFICES ASSUME TypeInv, ReportInv, [Next]_vars PROVE ReportInv'
  OBVIOUS
<1> USE DEF ReportInv, Starting, Handling, Threads
<1>t. TypeOK /\ Shape
  BY DEF TypeInv
<1>1. CASE Connect \/ AddObject \/ MkeydInit \/ UloopEnd
  BY <1>1, <1>t DEF Connect, AddObject, MkeydInit, UloopEnd, Goto, GotoBoth,
     keyVars, messageVars, TypeOK
<1>2. CASE KeyEdge
  BY <1>2, <1>t DEF KeyEdge, messageVars, TypeOK
<1>3. ASSUME NEW m \in Methods, Receive(m) PROVE ReportInv'
  BY <1>3, <1>t DEF Receive, Goto, keyVars, messageVars, TypeOK
<1>4. CASE Arm \/ Interrupt
  BY <1>4, <1>t DEF Arm, Interrupt, Goto, messageVars, TypeOK
<1>5. CASE IsrSample
  <2>1. PICK r \in Readings : GpioRead(r) /\ word' = WordOf(r) /\ stale' = (r = "err")
    BY <1>5 DEF IsrSample
  <2>2. ~stale' => word' = WordOf(level)
    BY <2>1 DEF GpioRead
  <2> QED BY <1>5, <1>t, <2>2 DEF IsrSample, Goto, TypeOK, Shape
<1>6. ASSUME NEW t \in Threads,
             BlobInit(t) \/ BlobAddBegin(t) \/ BlobAddEnd(t) \/ UbusBegin(t)
      PROVE  ReportInv'
  BY <1>6, <1>t DEF BlobInit, BlobAddBegin, BlobAddEnd, UbusBegin, Adding, Goto,
                    keyVars, messageVars, TypeOK
<1>7. CASE SendReply \/ MkeydNotify
  BY <1>7, <1>t DEF SendReply, MkeydNotify, Goto, keyVars, TypeOK
<1>8. CASE IsrNotify
  BY <1>8, <1>t DEF IsrNotify, Goto, keyVars, TypeOK
<1>9. CASE IsrNotifyFreed /\ ~Die
  BY <1>9, <1>t DEF IsrNotifyFreed, Goto, keyVars, messageVars, TypeOK
<1>10. CASE Die
  BY <1>10, <1>t, DieType DEF TypeInv
<1>11. CASE UNCHANGED vars
  BY <1>11 DEF vars
<1> QED
  BY <1>1, <1>2, <1>3, <1>4, <1>5, <1>6, <1>7, <1>8, <1>9, <1>10, <1>11
  DEF Next, MainStep, IsrStep, Lifecycle, Exit, Overrun

\* The start: no edge, and no interrupt thread.
LEMMA InitReportInv == Init => ReportInv
BY DEF Init, ReportInv, Handling, Threads

\* An edge lost behind a handler or a failed reading leaves the subscribers with an
\* old word until the next interrupt, and nothing else does.
THEOREM KeyReportHolds == Spec => []KeyReportCurrent
<1>1. TypeInv /\ ReportInv /\ [Next]_vars => (TypeInv /\ ReportInv)'
  BY TypeInvNext, ReportInvNext
<1>2. ReportInv => KeyReportCurrent
  BY DEF ReportInv, KeyReportCurrent
<1> QED BY TypeInvInit, InitReportInv, <1>1, <1>2, PTL DEF Spec

-----------------------------------------------------------------------------
(***************************************************************************)
(* The test notification.  A call counts itself in requests when it is     *)
(* received and in notify_count when its notification is out; in between   *)
(* the reply that was sent is the message still in b, unless the interrupt *)
(* thread has written b.                                                   *)
(***************************************************************************)
Notifying == {"notify", "notifying"}

RepeatInv ==
  /\ pc["main"] # "exited" =>
       requests = IF pc["main"] \in Composing \cup {"blob_init"}
                  THEN notify_count + 1 ELSE notify_count
  /\ \A m \in sent["notify"] : m.n < notify_count
  /\ pc["main"] \in Notifying =>
       \A r \in sent["reply"] :
         /\ r.n = requests /\ r.tag = method
         /\ clean["main"] => r.payload = mem
  /\ NotifyRepeatsReply

\* Every step keeps the count of the notifications, and what the last call replied.
LEMMA RepeatInvNext == IInv /\ RepeatInv /\ [Next]_vars => RepeatInv'
<1> SUFFICES ASSUME IInv, RepeatInv, [Next]_vars PROVE RepeatInv'
  OBVIOUS
<1> USE DEF RepeatInv, NotifyRepeatsReply, Composing, Notifying, Threads
<1>t. TypeOK
  BY DEF IInv, TypeInv
<1>1. CASE Connect \/ AddObject \/ MkeydInit \/ UloopEnd
  BY <1>1, <1>t DEF Connect, AddObject, MkeydInit, UloopEnd, Goto, GotoBoth,
     blobVars, messageVars, TypeOK
<1>2. CASE KeyEdge
  BY <1>2 DEF KeyEdge, blobVars, messageVars
<1>3. ASSUME NEW m \in Methods, Receive(m) PROVE RepeatInv'
  BY <1>3, <1>t DEF Receive, Goto, blobVars, messageVars, TypeOK
<1>4. CASE Arm \/ Interrupt \/ IsrSample
  BY <1>4, <1>t DEF Arm, Interrupt, IsrSample, Goto, blobVars, messageVars, TypeOK
\* The only steps of the interrupt thread that write b take it from the handler.
<1>5. ASSUME NEW t \in Threads,
             BlobInit(t) \/ BlobAddBegin(t) \/ BlobAddEnd(t) \/ UbusBegin(t)
      PROVE  RepeatInv'
  <2>1. /\ method' = method /\ requests' = requests
        /\ notify_count' = notify_count /\ sent' = sent
    BY <1>5 DEF BlobInit, BlobAddBegin, BlobAddEnd, UbusBegin, messageVars
  <2>2. NotifyRepeatsReply'
    BY <2>1
  <2>3. CASE t = "main" /\ UbusBegin(t)
    <3>1. mem' = mem /\ (clean'["main"] => clean["main"])
      BY <1>t, <2>3 DEF UbusBegin, TypeOK
    <3>2. pc["main"] \in {"send", "notify"}
          /\ pc'["main"] = IF pc["main"] = "send" THEN "sending" ELSE "notifying"
      BY <1>t, <2>3 DEF UbusBegin, Goto, TypeOK
    <3> QED BY <2>1, <2>2, <3>1, <3>2
  <2>4. CASE t = "main" /\ ~UbusBegin(t)
    <3>1. pc["main"] \in {"blob_init", "blob_add", "adding"}
          /\ pc'["main"] \in {"blob_add", "adding", "send"}
      BY <1>5, <1>t, <2>4 DEF BlobInit, BlobAddBegin, BlobAddEnd, Adding, Goto, TypeOK
    <3> QED BY <2>1, <2>2, <3>1
  <2>5. CASE t = "isr"
    <3>1. pc'["main"] = pc["main"]
      BY <1>5, <1>t, <2>5 DEF BlobInit, BlobAddBegin, BlobAddEnd, UbusBegin, Goto, TypeOK
    <3>2. clean'["main"] => clean["main"] /\ mem' = mem
      <4>1. BlobInit("isr") \/ BlobAddBegin("isr") \/ BlobAddEnd("isr")
              => ~clean'["main"]
        BY DEF BlobInit, BlobAddBegin, BlobAddEnd
      <4>2. UbusBegin("isr") => clean'["main"] = clean["main"] /\ mem' = mem
        BY <1>t DEF UbusBegin, TypeOK
      <4> QED BY <1>5, <2>5, <4>1, <4>2
    <3> QED BY <2>1, <2>2, <3>1, <3>2
  <2> QED BY <2>3, <2>4, <2>5
<1>6. CASE SendReply
  <2> DEFINE r == [n |-> requests, job |-> Job("main"), tag |-> method,
                   payload |-> Kept("main", "reply"), clean |-> clean["main"]]
  <2>1. sent'["reply"] = {r} /\ sent'["notify"] = sent["notify"]
    BY <1>6, <1>t DEF SendReply, Send, TypeOK, Kinds
  <2>2. clean["main"] => r.payload = mem
    BY <1>6 DEF SendReply, Kept, IInv, CleanInv, Owned
  <2>3. requests = notify_count + 1 /\ notify_count \in Nat
    BY <1>6, <1>t DEF SendReply, TypeOK
  <2>4. \A m \in sent["notify"] : m.n \in Nat /\ m.n < r.n /\ r.n # m.n + 1
    BY <1>t, <2>3 DEF TypeOK, Kinds, Message
  <2>5. NotifyRepeatsReply'
    BY <2>1, <2>4
  <2>6. pc'["main"] = "notify"
    BY <1>6, <1>t DEF SendReply, Goto, TypeOK
  <2>7. /\ mem' = mem /\ clean' = clean /\ requests' = requests /\ method' = method
        /\ notify_count' = notify_count
    BY <1>6 DEF SendReply
  <2> QED BY <2>1, <2>2, <2>3, <2>5, <2>6, <2>7
<1>7. CASE MkeydNotify
  <2> DEFINE m == [n |-> notify_count, job |-> Job("main"), tag |-> method,
                   payload |-> Kept("main", "notify"), clean |-> clean["main"]]
  <2>1. sent'["notify"] = {m} /\ sent'["reply"] = sent["reply"]
    BY <1>7, <1>t DEF MkeydNotify, Send, TypeOK, Kinds
  <2>2. /\ requests = notify_count + 1 /\ notify_count \in Nat
        /\ requests' = requests /\ notify_count' = notify_count + 1
    BY <1>7, <1>t DEF MkeydNotify, TypeOK
  <2>3. \A r \in sent["reply"] : /\ r.n = requests /\ r.tag = method
                                 /\ clean["main"] => r.payload = mem
    BY <1>7 DEF MkeydNotify
  <2>4. clean["main"] => Kept("main", "notify") = mem
    BY <1>7 DEF MkeydNotify, Kept, IInv, CleanInv, Owned
  <2>5. NotifyRepeatsReply'
    BY <2>1, <2>2, <2>3, <2>4
  <2>6. pc'["main"] = "idle"
    BY <1>7, <1>t DEF MkeydNotify, Goto, TypeOK
  <2> QED BY <2>1, <2>2, <2>5, <2>6
<1>8. CASE IsrNotify
  <2>1. sent'["reply"] = sent["reply"] /\ sent'["notify"] = sent["notify"]
    BY <1>8, <1>t DEF IsrNotify, Send, TypeOK, Kinds
  <2>2. clean'["main"] = clean["main"] /\ mem' = mem
    BY <1>8, <1>t DEF IsrNotify, Leave, TypeOK
  <2> QED BY <1>8, <1>t, <2>1, <2>2 DEF IsrNotify, Goto, TypeOK
<1>9. CASE IsrNotifyFreed /\ ~Die
  BY <1>9, <1>t DEF IsrNotifyFreed, Goto, messageVars, TypeOK
<1>10. CASE Die /\ UNCHANGED messageVars
  <2>1. pc'["main"] = "exited"
    BY <1>10, DieType DEF IInv
  <2> QED BY <1>10, <2>1 DEF messageVars
<1>11. CASE UNCHANGED vars
  BY <1>11 DEF vars
<1> QED
  BY <1>1, <1>2, <1>3, <1>4, <1>5, <1>6, <1>7, <1>8, <1>9, <1>10, <1>11
  DEF Next, MainStep, IsrStep, Lifecycle, Exit, IsrNotifyFreed, Overrun

\* The test notification of a call is numbered one below the call's reply, names
\* the same method, and repeats its payload unless the interrupt thread wrote b
\* between the two.
THEOREM NotifyRepeatsReplyHolds == Spec => []NotifyRepeatsReply
<1>1. Init => RepeatInv
  <2> SUFFICES ASSUME Init PROVE RepeatInv
    OBVIOUS
  <2>1. pc["main"] = "connect" /\ requests = 0 /\ notify_count = 0
    BY DEF Init, Threads
  <2>2. sent["reply"] = {} /\ sent["notify"] = {}
    BY DEF Init, Kinds
  <2> QED BY <2>1, <2>2 DEF RepeatInv, NotifyRepeatsReply, Composing, Notifying
<1>2. Init => IInv
  BY TypeInvInit DEF Init, IInv, CleanInv, CleanPayloads, Owned, Composing, Threads
<1>3. IInv /\ RepeatInv /\ [Next]_vars => (IInv /\ RepeatInv)'
  BY TypeInvNext, CleanInvNext, RepeatInvNext DEF IInv
<1>4. RepeatInv => NotifyRepeatsReply
  BY DEF RepeatInv
<1> QED BY <1>1, <1>2, <1>3, <1>4, PTL DEF Spec

-----------------------------------------------------------------------------
(***************************************************************************)
(* Refinement of KeyReporter, without its fairness.                        *)
(***************************************************************************)
Running == pc["main"] \notin {"free", "exited"}

\* A step that leaves what KeyReporter sees of the daemon alone.
LEMMA ReporterStutters ==
  ASSUME Running' = Running, UNCHANGED <<level, word, reported, irq>>,
         pc'["isr"] = pc["isr"] \/ {pc["isr"], pc'["isr"]} \subseteq Handling \ {"arm"}
  PROVE  UNCHANGED Reporter!vars
BY DEF Running, Reporter!vars, ReporterState, ReporterWord, Handling

\* A step of the daemon is one of KeyReporter's or leaves it where it was.
LEMMA ReporterStep == TypeInv /\ [Next]_vars => [Reporter!Next]_(Reporter!vars)
<1> SUFFICES ASSUME TypeInv, [Next]_vars PROVE [Reporter!Next]_(Reporter!vars)
  OBVIOUS
<1> USE DEF Threads
<1>t. TypeOK /\ Shape
  BY DEF TypeInv
<1>s. /\ ~Running => ReporterState = "off"
      /\ Running /\ pc["isr"] = "sample" => ReporterState = "owing"
      /\ Running /\ pc["isr"] \in Handling \ {"arm"} => ReporterState = "read"
  BY DEF Running, ReporterState, Handling
<1>p. /\ ~Running' => ReporterState' = "off"
      /\ Running' /\ pc'["isr"] = "arm" => ReporterState' = "deaf"
      /\ Running' /\ pc'["isr"] \in Handling \ {"arm"} => ReporterState' = "read"
  BY DEF Running, ReporterState, Handling
<1>w. /\ ReporterState # "read" => ReporterWord = "none"
      /\ ReporterState' # "read" => ReporterWord' = "none"
      /\ ReporterState = "read" => ReporterWord = word
      /\ ReporterState' = "read" => ReporterWord' = word'
  BY DEF ReporterWord
\* A step of a daemon that has ended, or ends.
<1>e. ASSUME ~Running', level' = level, reported' = reported
      PROVE  Reporter!Next
  BY <1>e, <1>p, <1>w DEF Reporter!Next, Reporter!Stop
<1>1. CASE Connect \/ AddObject
  BY <1>1, <1>t DEF Connect, AddObject, Goto, keyVars, messageVars, TypeOK, Shape,
     Starting, ReporterState, ReporterWord, Reporter!vars, Reporter!Next, Reporter!Stop
<1>2. CASE MkeydInit
  BY <1>2, <1>t DEF MkeydInit, Goto, GotoBoth, keyVars, messageVars, TypeOK, Shape,
     Starting, ReporterState, ReporterWord, Reporter!vars, Reporter!Next, Reporter!Start
<1>3. CASE UloopEnd
  BY <1>3, <1>t, <1>e DEF UloopEnd, Goto, keyVars, messageVars, TypeOK, Running
<1>4. CASE Die /\ UNCHANGED <<keyVars, messageVars>>
  <2>1. pc'["main"] = "exited"
    BY <1>4, DieType
  <2> QED BY <1>4, <1>e, <2>1 DEF keyVars, messageVars, Running
<1>5. CASE KeyEdge
  <2>1. /\ pc' = pc /\ word' = word /\ reported' = reported
        /\ irq' = (irq \/ pc["isr"] # "off")
        /\ level' = IF level = "low" THEN "high" ELSE "low"
    BY <1>5 DEF KeyEdge, messageVars
  <2>2. ReporterState' = IF ReporterState = "listening" THEN "owing" ELSE ReporterState
    BY <1>t, <2>1 DEF ReporterState, TypeOK
  <2>3. ReporterWord' = ReporterWord
    BY <2>1, <2>2 DEF ReporterWord
  <2> QED BY <2>1, <2>2, <2>3 DEF Reporter!Next, Reporter!KeyEdge
<1>6. ASSUME NEW m \in Methods, Receive(m) PROVE UNCHANGED Reporter!vars
  BY <1>6, <1>t, ReporterStutters DEF Receive, Goto, keyVars, messageVars, TypeOK, Running
<1>7. CASE Arm
  BY <1>7, <1>t DEF Arm, Goto, messageVars, TypeOK, ReporterState, ReporterWord,
                    Reporter!vars, Reporter!Next, Reporter!Listen
<1>8. CASE Interrupt
  BY <1>8, <1>t DEF Interrupt, Goto, messageVars, TypeOK, ReporterState, ReporterWord,
                    Reporter!vars
<1>9. CASE IsrSample
  <2>1. word' \in {Reporter!WordFor(level), "KeyPress"}
    BY <1>9 DEF IsrSample, GpioRead, WordOf, Reporter!WordFor, Readings
  <2>2. /\ level' = level /\ reported' = reported /\ Running' = Running
        /\ pc["isr"] = "sample" /\ pc'["isr"] = "blob_init"
    BY <1>9, <1>t DEF IsrSample, Goto, Running, TypeOK
  <2>3. CASE ~Running
    BY <1>e, <2>2, <2>3
  <2>4. CASE Running
    <3>1. ReporterState = "owing" /\ ReporterState' = "read" /\ ReporterWord' = word'
      BY <1>s, <1>p, <1>w, <2>2, <2>4 DEF Handling
    <3> QED BY <2>1, <2>2, <3>1 DEF Reporter!Next, Reporter!Read
  <2> QED BY <2>3, <2>4
<1>10. ASSUME NEW t \in Threads,
              BlobInit(t) \/ BlobAddBegin(t) \/ BlobAddEnd(t) \/ UbusBegin(t)
       PROVE  UNCHANGED Reporter!vars
  <2>1. UNCHANGED <<level, word, reported, irq>>
    BY <1>10 DEF BlobInit, BlobAddBegin, BlobAddEnd, UbusBegin, keyVars, messageVars
  <2>2. /\ pc' = [pc EXCEPT ![t] = pc'[t]]
        /\ pc[t] \in {"blob_init", "blob_add", "adding", "send", "notify"}
        /\ pc'[t] \in {"blob_add", "adding", "send", "sending", "notifying"}
        /\ t = "isr" => pc'[t] # "notifying"
    BY <1>10, <1>t DEF BlobInit, BlobAddBegin, BlobAddEnd, UbusBegin, Adding, Goto,
                       TypeOK, IsrPcs
  <2>3. Running' = Running
    BY <1>t, <2>2 DEF Running, TypeOK
  <2>4. pc'["isr"] = pc["isr"] \/ {pc["isr"], pc'["isr"]} \subseteq Handling \ {"arm"}
    <3>1. CASE t = "main"
      BY <1>t, <2>2, <3>1 DEF TypeOK
    <3>2. CASE t = "isr"
      BY <1>t, <2>2, <3>2 DEF TypeOK, Handling, IsrPcs
    <3> QED BY <3>1, <3>2
  <2> QED BY <2>1, <2>3, <2>4, ReporterStutters
<1>11. CASE SendReply \/ MkeydNotify
  BY <1>11, <1>t, ReporterStutters
  DEF SendReply, MkeydNotify, Goto, keyVars, TypeOK, Running
<1>12. CASE IsrNotify
  <2>1. /\ level' = level /\ reported' = word /\ Running /\ Running'
        /\ pc["isr"] = "sending" /\ pc'["isr"] = "arm"
    BY <1>12, <1>t DEF IsrNotify, Goto, keyVars, TypeOK, Shape, Running
  <2>2. /\ ReporterState = "read" /\ ReporterWord = word
        /\ ReporterState' = "deaf" /\ ReporterWord' = "none"
    BY <1>s, <1>p, <1>w, <2>1 DEF Handling
  <2> QED BY <2>1, <2>2 DEF Reporter!Next, Reporter!Report
<1>13. CASE IsrNotifyFreed /\ ~Die
  BY <1>13, <1>t, <1>e DEF IsrNotifyFreed, Goto, keyVars, messageVars, TypeOK, Running
<1>14. CASE UNCHANGED vars
  BY <1>14 DEF vars, ReporterState, ReporterWord, Reporter!vars
<1> QED
  BY <1>1, <1>2, <1>3, <1>4, <1>5, <1>6, <1>7, <1>8, <1>9, <1>10, <1>11, <1>12,
     <1>13, <1>14
  DEF Next, MainStep, IsrStep, Lifecycle, Exit, Overrun, IsrNotifyFreed

\* mkeyd_isr, however it interleaves with the handlers, the key and the end of
\* the daemon, takes only the steps KeyReporter allows.
THEOREM ReporterRefined == Spec => Reporter!Init /\ [][Reporter!Next]_(Reporter!vars)
<1>1. Init => Reporter!Init
  BY DEF Init, Levels, Threads, ReporterState, ReporterWord, Reporter!Init
<1>2. TypeInv /\ [Next]_vars => TypeInv'
  BY TypeInvNext
<1> QED BY TypeInvInit, ReporterStep, <1>1, <1>2, PTL DEF Spec

-----------------------------------------------------------------------------
(***************************************************************************)
(* The logger.  What the daemon calls of it (log_open, log_set_level, the  *)
(* the messages of main, log_close; mkeyd.c:163-206) are some of the calls *)
(* LogNext allows, in any order.                                           *)
(***************************************************************************)
\* A close leaves a typed connection.
LEMMA CloseType ==
  ASSUME LogTypeOK, NEW i, NEW c
  PROVE  AfterClose(i, c) \in [open : BOOLEAN, tag : Tags]
BY DEF LogTypeOK, AfterClose, Closed, Tags

\* What log_defaults leaves behind: a typed state in which the logger is
\* initialised and syslog has been told its identity if its channels want it.
LEMMA DefaultsReady ==
  ASSUME NEW c, NEW i \in Tags, NEW s \in [open : BOOLEAN, tag : Tags],
         Defaults(i)
  PROVE  /\ _log_ident' \in Tags /\ _log_initialized'
         /\ AfterDefaults(c, s) \in [open : BOOLEAN, tag : Tags]
         /\ "syslog" \in c =>
              (_log_ident' # Null => AfterDefaults(c, s).tag = _log_ident')
BY DEF Defaults, AfterDefaults, AfterOpenlog, Tags

LogInv == LogTypeOK /\ SyslogReady

\* The start of the logger, before any call.
LEMMA LogInvInit == LogInit => LogInv
<1> SUFFICES ASSUME LogInit PROVE LogInv
  OBVIOUS
<1>1. _log_level \in LogLevels /\ _log_channels \subseteq Channels
  BY LevelsAssumption, ChannelsAssumption DEF LogInit
<1>2. syslog \in [open : BOOLEAN, tag : Tags]
  BY DEF LogInit, Closed, Tags
<1>3. logged \in [console : Tags \cup {NotSent}, syslog : Tags \cup {NotSent}]
  BY DEF LogInit, Nothing
<1> QED BY <1>1, <1>2, <1>3 DEF LogInit, LogInv, LogTypeOK, SyslogReady, Tags

\* Every call keeps the invariant of the logger.
LEMMA LogInvNext == LogInv /\ [LogNext]_logVars => LogInv'
<1> SUFFICES ASSUME LogInv, [LogNext]_logVars PROVE LogInv'
  OBVIOUS
<1> USE DEF LogInv, LogTypeOK, SyslogReady
<1>1. ASSUME NEW l \in LogLevels, log_output(l) PROVE LogInv'
  <2>1. CASE _log_initialized
    <3>1. syslog' = IF "syslog" \in _log_channels THEN [syslog EXCEPT !.open = TRUE]
                    ELSE syslog
      BY <1>1, <2>1 DEF log_output
    <3>2. /\ syslog' \in [open : BOOLEAN, tag : Tags] /\ syslog'.tag = syslog.tag
      BY <3>1
    <3> QED BY <1>1, <2>1, <3>2 DEF log_output, Tags
  <2>2. CASE ~_log_initialized
    <3> DEFINE conn == AfterDefaults(_log_channels, syslog)
    <3>1. /\ _log_ident' \in Tags /\ _log_initialized'
          /\ conn \in [open : BOOLEAN, tag : Tags]
          /\ "syslog" \in _log_channels =>
               (_log_ident' # Null => conn.tag = _log_ident')
      BY <1>1, <2>2, DefaultsReady DEF log_output
    <3>2. syslog' = IF "syslog" \in _log_channels THEN [conn EXCEPT !.open = TRUE]
                    ELSE conn
      BY <1>1, <2>2 DEF log_output
    <3>3. _log_initialized' = TRUE
      BY <1>1, <2>2 DEF log_output, Defaults
    <3> HIDE DEF conn
    <3>4. /\ syslog' \in [open : BOOLEAN, tag : Tags] /\ syslog'.tag = conn.tag
      BY <3>1, <3>2
    <3> QED BY <1>1, <3>1, <3>3, <3>4 DEF log_output, Tags
  <2> QED BY <2>1, <2>2
<1>2. ASSUME NEW l \in LogLevels, log_set_level(l) PROVE LogInv'
  BY <1>2 DEF log_set_level
<1>3. ASSUME NEW c \in SUBSET Channels, log_set_channel(c) PROVE LogInv'
  <2> DEFINE s == AfterClose(_log_initialized, c)
  <2>1. s \in [open : BOOLEAN, tag : Tags]
    BY CloseType
  <2>2. Defaults(_log_ident) /\ syslog' = AfterDefaults(c, s)
    BY <1>3 DEF log_set_channel
  <2> HIDE DEF s
  <2>3. /\ _log_ident' \in Tags /\ _log_initialized'
        /\ AfterDefaults(c, s) \in [open : BOOLEAN, tag : Tags]
        /\ "syslog" \in c =>
             (_log_ident' # Null => AfterDefaults(c, s).tag = _log_ident')
    BY <2>1, <2>2, DefaultsReady
  <2>4. _log_initialized' = TRUE
    BY <2>2 DEF Defaults
  <2> QED BY <1>3, <2>2, <2>3, <2>4 DEF log_set_channel
<1>4. ASSUME NEW i \in Idents \cup {Null}, NEW c \in SUBSET Channels, log_open(i, c)
      PROVE  LogInv'
  BY <1>4, CloseType DEF log_open, Tags
<1>5. CASE log_close
  BY <1>5, CloseType DEF log_close
<1>6. CASE UNCHANGED logVars
  BY <1>6 DEF logVars
<1> QED BY <1>1, <1>2, <1>3, <1>4, <1>5, <1>6 DEF LogNext

\* Every state of the logger has its types.
THEOREM LogTypes == LogSpec => []LogTypeOK
<1>1. LogInv => LogTypeOK
  BY DEF LogInv
<1> QED BY LogInvInit, LogInvNext, <1>1, PTL DEF LogSpec

\* For an initialised logger with a syslog channel openlog has been called with the
\* identity in force, whatever calls led there.
THEOREM SyslogReadyHolds == LogSpec => []SyslogReady
<1>1. LogInv => SyslogReady
  BY DEF LogInv
<1> QED BY LogInvInit, LogInvNext, <1>1, PTL DEF LogSpec

\* Only log_output sends, and LogInv' tells it what syslog calls the program.
LEMMA OneIdentityNext == LogInv /\ OneIdentity /\ [LogNext]_logVars => OneIdentity'
<1> SUFFICES ASSUME LogInv, OneIdentity, [LogNext]_logVars PROVE OneIdentity'
  OBVIOUS
<1>1. ASSUME NEW l \in LogLevels, log_output(l) PROVE OneIdentity'
  <2>1. SyslogReady' /\ _log_channels' = _log_channels
    BY <1>1, LogInvNext DEF LogInv, log_output
  <2>2. _log_initialized'
    BY <1>1 DEF log_output, Defaults, LogInv, LogTypeOK
  <2>3. logged' = [console |-> IF "console" \in _log_channels THEN _log_ident'
                               ELSE NotSent,
                   syslog  |-> IF "syslog" \in _log_channels THEN syslog'.tag
                               ELSE NotSent]
    BY <1>1 DEF log_output
  <2> QED BY <2>1, <2>2, <2>3 DEF SyslogReady, OneIdentity
<1>2. ASSUME logged' = logged PROVE OneIdentity'
  BY <1>2 DEF OneIdentity
<1> QED BY <1>1, <1>2 DEF LogNext, logVars, log_set_level, log_set_channel, log_open,
                          log_close

\* No message is attributed to two programs: written to both channels, it bears
\* one identity, whatever order the logger was reconfigured in.
THEOREM OneIdentityHolds == LogSpec => []OneIdentity
<1>1. LogInit => OneIdentity
  BY DEF LogInit, Nothing, OneIdentity
<1> QED BY LogInvInit, LogInvNext, OneIdentityNext, <1>1, PTL DEF LogSpec
=============================================================================
