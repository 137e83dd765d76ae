---------------------------- MODULE KeyBusProofs ----------------------------
(***************************************************************************)
(* KeyBus for any number of runs of the daemon, keys and rounds.           *)
(***************************************************************************)
EXTENDS KeyBus, TLAPS

KsMessage == [type : {"notify", "removed"}, run : Nat]
Answer    == [type : {"data", "status"}, seq : Nat, ret : {"none", "ok", "not found"}]

\* What Append adds, and what it leaves.
LEMMA AppendAt ==
  ASSUME NEW S, NEW s \in Seq(S), NEW e \in S
  PROVE  /\ Append(s, e) \in Seq(S) /\ Len(Append(s, e)) = Len(s) + 1
         /\ \A k \in 1..Len(s) : Append(s, e)[k] = s[k]
         /\ Append(s, e)[Len(s) + 1] = e
OBVIOUS

\* What Tail leaves, and the head it takes.
LEMMA TailAt ==
  ASSUME NEW S, NEW s \in Seq(S), s # << >>
  PROVE  /\ Tail(s) \in Seq(S) /\ Len(Tail(s)) = Len(s) - 1 /\ Len(s) \in Nat \ {0}
         /\ \A k \in 1..(Len(s) - 1) : Tail(s)[k] = s[k + 1]
         /\ Head(s) = s[1] /\ s[1] \in S
OBVIOUS

\* What mkeyd answers is an answer.
LEMMA AnswerType ==
  ASSUME NEW n \in Nat
  PROVE  Data(n) \in Answer /\ Status(n, "ok") \in Answer
         /\ Status(n, "not found") \in Answer
BY DEF Data, Status, Answer

-----------------------------------------------------------------------------
(***************************************************************************)
(* Types, and how many requests the caller has made where it is.           *)
(***************************************************************************)
Made ==
  \/ caller = "status" /\ ~waiting /\ seq = 2 * i
  \/ caller = "status" /\ waiting /\ seq = 2 * i + 1
  \/ caller = "get" /\ ~waiting /\ seq = 2 * i + 1
  \/ caller = "get" /\ waiting /\ seq = 2 * i + 2
  \/ caller = "sleep" /\ seq = 2 * i + 2
  \/ caller \in {"connect", "lookup", "exited"} /\ seq = 2 * i

CallerInv ==
  /\ caller \in {"connect", "lookup", "status", "get", "sleep", "exited"}
  /\ caller \in {"connect", "lookup"} => id = 0 /\ i = 0
  /\ caller \in {"status", "get", "sleep"} => id # 0
  /\ caller # "exited" => i < Rounds
  /\ waiting => caller \in Methods
  /\ i \in 0..Rounds /\ seq \in Nat
  /\ Made

DaemonTypes ==
  /\ run \in Nat /\ runs \in Nat /\ run <= runs /\ runs <= MaxRuns
  /\ object \in {0, run} /\ keys \in 0..MaxKeys
  /\ id \in 0..runs /\ obj_id \in 0..runs
  /\ ks \in {"connect", "lookup", "subscribe", "loop", "exited"}

MessageTypes ==
  /\ inbox \in Seq(Nat)
  /\ serving \in [seq : Nat, next : {"idle", "notify", "status"}]
  /\ replied \subseteq 1..seq /\ notified \subseteq 1..seq /\ called \subseteq 1..seq
  /\ toKs \in Seq(KsMessage) /\ toCaller \in Seq(Answer)

TypeInv == waiting \in BOOLEAN /\ CallerInv /\ DaemonTypes /\ MessageTypes

(***************************************************************************)
(* A call on its way is newer than every call that was answered, and the   *)
(* call that is served is the newest of those; both are with the run the   *)
(* caller knows.                                                           *)
(***************************************************************************)
ServeInv ==
  /\ \A k \in 1..Len(inbox) :
       /\ inbox[k] \in 1..seq
       /\ \A n \in replied : n < inbox[k]
       /\ \A l \in 1..(k - 1) : inbox[l] < inbox[k]
  /\ serving # Idle =>
       /\ serving.next # "idle" /\ serving.seq \in replied
       /\ \A n \in replied : n <= serving.seq
  /\ inbox # << >> \/ serving # Idle => run = id /\ run # 0

(***************************************************************************)
(* ks subscribes once, to the object it found; the removal is the last     *)
(* message it is sent.                                                     *)
(***************************************************************************)
KsInv ==
  /\ ks \in {"connect", "lookup"} => obj_id = 0
  /\ ks \in {"connect", "lookup", "subscribe"} =>
       subscribed = 0 /\ toKs = << >> /\ heard = {} /\ gone = {}
  /\ subscribed # 0 => subscribed = obj_id /\ subscribed = object
  /\ heard \subseteq {obj_id} /\ gone \subseteq {obj_id}
  /\ gone # {} => toKs = << >> /\ subscribed = 0
  /\ \A k \in 1..Len(toKs) :
       /\ toKs[k].run = obj_id
       /\ toKs[k].type = "removed" => k = Len(toKs) /\ subscribed = 0

(***************************************************************************)
(* Data is on its way only of requests that were answered, and before the  *)
(* status of the request.                                                  *)
(***************************************************************************)
Seen(n) == seq \in called \/ \E j \in 1..n : toCaller[j] = Data(seq)

Told(k) ==
  LET m == toCaller[k]
  IN  /\ m.seq \in 1..seq
      /\ m.type = "data" => m.seq \in replied
      /\ m.type = "status" /\ m.ret = "ok"
           => m.seq \in notified /\ (waiting /\ m.seq = seq => Seen(k - 1))

AnswerInv ==
  /\ \A k \in 1..Len(toCaller) : Told(k)
  /\ serving.next = "status" => serving.seq \in notified
  /\ serving # Idle /\ waiting /\ serving.seq = seq => Seen(Len(toCaller))

IInv == TypeInv /\ ServeInv /\ KsInv /\ AnswerInv

-----------------------------------------------------------------------------
\* The start: nothing is registered, subscribed, called or sent.
LEMMA IInvInit == Init => IInv
<1> SUFFICES ASSUME Init PROVE IInv
  OBVIOUS
<1> USE KeyBusAssumption DEF Init
<1>0. waiting \in BOOLEAN
  OBVIOUS
<1>1. CallerInv
  BY DEF CallerInv, Made, Methods
<1>2. DaemonTypes
  BY DEF DaemonTypes
<1>3. MessageTypes
  BY DEF MessageTypes, Idle
<1>4. ServeInv /\ KsInv
  BY DEF ServeInv, KsInv
<1>5. AnswerInv
  BY DEF AnswerInv, Idle
<1> QED BY <1>0, <1>1, <1>2, <1>3, <1>4, <1>5 DEF IInv, TypeInv

\* No step takes the caller where its count of requests does not fit.
LEMMA CallerInvNext == IInv /\ [Next]_vars => CallerInv'
<1> SUFFICES ASSUME CallerInv, DaemonTypes, [Next]_vars PROVE CallerInv'
  BY DEF IInv, TypeInv
<1> USE KeyBusAssumption DEF CallerInv
<1>1. CASE UNCHANGED callerVars
  BY <1>1 DEF callerVars, Made
<1>2. CASE CallerConnect
  <2>1. waiting' <=> waiting
    BY <1>2 DEF CallerConnect
  <2>2. caller = "connect" /\ caller' \in {"lookup", "exited"}
        /\ id' = id /\ i' = i /\ seq' = seq
    BY <1>2 DEF CallerConnect
  <2> QED BY <2>1, <2>2 DEF Made, Methods
<1>3. CASE CallerLookup
  BY <1>3 DEF CallerLookup, Made, DaemonTypes, Methods
<1>4. CASE Invoke
  <2>1. waiting' /\ ~waiting
    BY <1>4 DEF Invoke
  <2>2. caller \in Methods /\ caller' = caller /\ id' = id /\ i' = i /\ seq' = seq + 1
    BY <1>4 DEF Invoke
  <2> QED BY <2>1, <2>2 DEF Made, Methods
<1>5. CASE waiting /\ Return /\ UNCHANGED <<id, i, seq>>
  BY <1>5 DEF Return, Made, Methods
<1>6. CASE CallerSleep
  BY <1>6 DEF CallerSleep, Made, Methods
<1>7. CASE UNCHANGED <<caller, id, waiting, i, seq>>
  BY <1>7 DEF Made
<1>8. MkeydStart \/ MkeydStop \/ MkeydIsr \/ MkeydNotify \/ KsStep \/ KsEnd
        => UNCHANGED callerVars
  BY DEF MkeydStart, MkeydStop, MkeydIsr, MkeydNotify, KsStep, KsConnect, KsLookup,
         KsSubscribe, KsReceive, KsEnd
<1>9. MkeydReply \/ MkeydStatus => UNCHANGED <<caller, id, waiting, i, seq>>
  BY DEF MkeydReply, MkeydStatus
<1>10. CallerReceive => \/ UNCHANGED <<caller, id, waiting, i, seq>>
                        \/ waiting /\ Return /\ UNCHANGED <<id, i, seq>>
  BY DEF CallerReceive
<1>11. CallerTimeout => waiting /\ Return /\ UNCHANGED <<id, i, seq>>
  BY DEF CallerTimeout
<1>12. UNCHANGED vars => UNCHANGED callerVars
  BY DEF vars
<1> QED
  BY <1>1, <1>2, <1>3, <1>4, <1>5, <1>6, <1>7, <1>8, <1>9, <1>10, <1>11, <1>12
  DEF Next, Serve, CallerStep

\* The caller waits or does not.
LEMMA WaitingNext == waiting \in BOOLEAN /\ [Next]_vars => waiting' \in BOOLEAN
BY DEF Next, Serve, KsStep, CallerStep, MkeydStart, MkeydStop, MkeydIsr, MkeydReply,
       MkeydNotify, MkeydStatus, KsConnect, KsLookup, KsSubscribe, KsReceive, KsEnd,
       CallerConnect, CallerLookup, Invoke, CallerReceive, Return, CallerTimeout,
       CallerSleep, vars, callerVars

\* No step takes the ids of runs out of the runs there have been.
LEMMA DaemonTypesNext == IInv /\ [Next]_vars => DaemonTypes'
<1> SUFFICES ASSUME DaemonTypes, [Next]_vars PROVE DaemonTypes'
  BY DEF IInv, TypeInv
<1> USE KeyBusAssumption DEF DaemonTypes
<1>0. CASE MkeydStart
  BY <1>0 DEF MkeydStart, ksVars, callerVars
<1>1. CASE MkeydStop
  BY <1>1 DEF MkeydStop, callerVars
<1>6. CASE MkeydIsr
  BY <1>6 DEF MkeydIsr, callerVars
<1>2. CASE Serve
  BY <1>2 DEF Serve, MkeydReply, MkeydNotify, MkeydStatus, ksVars, callerVars
<1>3. CASE KsStep \/ KsEnd
  BY <1>3 DEF KsStep, KsConnect, KsLookup, KsSubscribe, KsReceive, KsEnd, daemonVars,
              callerVars
<1>4. CASE CallerLookup
  BY <1>4 DEF CallerLookup, daemonVars, ksVars
<1>7. CASE UNCHANGED <<run, runs, object, keys, id, obj_id, ks>>
  BY <1>7
<1>8. CallerConnect \/ Invoke \/ CallerReceive \/ CallerTimeout \/ CallerSleep
        => UNCHANGED <<run, runs, object, keys, id, obj_id, ks>>
  BY DEF CallerConnect, Invoke, CallerReceive, CallerTimeout, CallerSleep, daemonVars,
         ksVars
<1>5. CASE UNCHANGED vars
  BY <1>5 DEF vars, daemonVars, ksVars, callerVars
<1> QED
  BY <1>0, <1>1, <1>2, <1>3, <1>4, <1>5, <1>6, <1>7, <1>8 DEF Next, CallerStep

\* Notify is one message more to ks or nothing.
LEMMA NotifyType ==
  ASSUME IInv, Notify
  PROVE  /\ toKs' \in Seq(KsMessage)
         /\ toKs' = toKs
            \/ /\ subscribed # 0 /\ run = obj_id
               /\ toKs' = Append(toKs, [type |-> "notify", run |-> run])
<1>1. [type |-> "notify", run |-> run] \in KsMessage
  BY DEF IInv, TypeInv, DaemonTypes, KsMessage
<1>2. toKs \in Seq(KsMessage)
  BY DEF IInv, TypeInv, MessageTypes
<1>3. subscribed # 0 /\ subscribed = object => run = obj_id
  BY DEF IInv, TypeInv, DaemonTypes, KsInv
<1> QED BY <1>1, <1>2, <1>3, AppendAt DEF Notify

\* No step sends what is not a message, or marks a request not made.
LEMMA MessageTypesNext == IInv /\ [Next]_vars => MessageTypes'
<1> SUFFICES ASSUME IInv, [Next]_vars PROVE MessageTypes'
  OBVIOUS
<1>t. MessageTypes /\ seq \in Nat /\ run \in Nat /\ object \in Nat
  BY DEF IInv, TypeInv, CallerInv, DaemonTypes
<1>n. seq \in Nat
  BY <1>t
<1>q. inbox \in Seq(Nat) /\ toKs \in Seq(KsMessage) /\ toCaller \in Seq(Answer)
  BY <1>t DEF MessageTypes
<1>1. CASE MkeydStart
  BY <1>t, <1>1 DEF MessageTypes, MkeydStart, ksVars, callerVars
<1>2. CASE MkeydStop
  <2>1. [type |-> "removed", run |-> object] \in KsMessage
    BY <1>t DEF MessageTypes, KsMessage
  <2>2. toKs' = toKs \/ toKs' = Append(toKs, [type |-> "removed", run |-> object])
    BY <1>2 DEF MkeydStop
  <2>3. toKs' \in Seq(KsMessage)
    BY <1>q, <2>1, <2>2, AppendAt
  <2> QED BY <1>t, <1>2, <2>3 DEF MessageTypes, MkeydStop, callerVars, Idle
<1>3. CASE MkeydIsr
  BY <1>t, <1>3, NotifyType DEF MessageTypes, MkeydIsr, callerVars
<1>4. CASE MkeydReply
  <2>1. Tail(inbox) \in Seq(Nat) /\ Head(inbox) = inbox[1] /\ 1 \in 1..Len(inbox)
    BY <1>t, <1>4, TailAt DEF MessageTypes, MkeydReply
  <2>2. Head(inbox) \in 1..seq
    BY <2>1 DEF IInv, ServeInv
  <2>3. Head(inbox) \in Nat
    BY <1>t, <2>2
  <2>4. Data(Head(inbox)) \in Answer
    BY <2>3, AnswerType
  <2>5. toCaller' \in Seq(Answer)
    BY <1>t, <1>4, <2>4, AppendAt DEF MessageTypes, MkeydReply
  <2>6. serving' \in [seq : Nat, next : {"idle", "notify", "status"}]
    BY <1>4, <2>3 DEF MkeydReply
  <2> QED BY <1>t, <1>4, <2>1, <2>2, <2>5, <2>6 DEF MessageTypes, MkeydReply, ksVars
<1>5. CASE MkeydNotify
  <2>1. serving # Idle
    BY <1>5 DEF MkeydNotify, Idle
  <2>2. serving.seq \in 1..seq
    BY <1>t, <2>1 DEF MessageTypes, IInv, ServeInv
  <2>3. serving' \in [seq : Nat, next : {"idle", "notify", "status"}]
    BY <1>t, <1>5 DEF MessageTypes, MkeydNotify
  <2> QED BY <1>t, <1>5, <2>2, <2>3, NotifyType DEF MessageTypes, MkeydNotify, callerVars
<1>6. CASE MkeydStatus
  <2>0. serving.seq \in Nat
    BY <1>t DEF MessageTypes
  <2>1. Status(serving.seq, "ok") \in Answer
    BY <2>0, AnswerType
  <2>2. toCaller' \in Seq(Answer)
    BY <1>t, <1>6, <2>1, AppendAt DEF MessageTypes, MkeydStatus
  <2> QED BY <1>t, <1>6, <2>2 DEF MessageTypes, MkeydStatus, ksVars, Idle
<1>7. CASE KsConnect \/ KsLookup \/ KsSubscribe
  BY <1>t, <1>7 DEF MessageTypes, KsConnect, KsLookup, KsSubscribe, daemonVars, callerVars
<1>14. CASE KsEnd
  BY <1>t, <1>14 DEF MessageTypes, KsEnd, daemonVars, callerVars
<1>8. CASE KsReceive
  BY <1>t, <1>8, TailAt DEF MessageTypes, KsReceive, daemonVars, callerVars
<1>9. CASE CallerConnect \/ CallerLookup
  BY <1>t, <1>9 DEF MessageTypes, CallerConnect, CallerLookup, daemonVars, ksVars
<1>10. CASE Invoke
  <2>0. seq + 1 \in Nat
    BY <1>t
  <2>1. Status(seq + 1, "not found") \in Answer
    BY <2>0, AnswerType
  <2>2. /\ seq' = seq + 1
        /\ toCaller' = toCaller \/ toCaller' = Append(toCaller, Status(seq + 1, "not found"))
        /\ inbox' = inbox \/ inbox' = Append(inbox, seq + 1)
    BY <1>10 DEF Invoke
  <2>3. toCaller' \in Seq(Answer)
    BY <1>q, <2>1, <2>2, AppendAt
  <2>4. inbox' \in Seq(Nat)
    <3>1. Append(inbox, seq + 1) \in Seq(Nat)
      BY <1>q, <2>0
    <3> QED BY <1>q, <2>2, <3>1
  <2>5. 1..seq \subseteq 1..(seq + 1)
    BY <1>n
  <2> QED BY <1>t, <1>10, <2>2, <2>3, <2>4, <2>5 DEF MessageTypes, Invoke, ksVars
<1>11. CASE CallerReceive
  <2>1. toCaller' \in Seq(Answer)
    BY <1>t, <1>11, TailAt DEF MessageTypes, CallerReceive
  <2>2. seq \in 1..seq
    BY <1>11 DEF CallerReceive, IInv, TypeInv, CallerInv, Made, Methods
  <2>3. called' \subseteq 1..seq
    BY <1>t, <1>11, <2>2 DEF MessageTypes, CallerReceive
  <2> QED BY <1>t, <1>11, <2>1, <2>3 DEF MessageTypes, CallerReceive, daemonVars, ksVars
<1>12. CASE CallerTimeout \/ CallerSleep
  BY <1>t, <1>12 DEF MessageTypes, CallerTimeout, CallerSleep, daemonVars, ksVars
<1>13. CASE UNCHANGED vars
  BY <1>t, <1>13 DEF MessageTypes, vars, daemonVars, ksVars, callerVars
<1> QED
  BY <1>1, <1>2, <1>3, <1>4, <1>5, <1>6, <1>7, <1>8, <1>9, <1>10, <1>11, <1>12, <1>13,
     <1>14
  DEF Next, Serve, KsStep, CallerStep

\* No step puts an older call behind a newer one, or before its answer.
LEMMA ServeInvNext == IInv /\ [Next]_vars => ServeInv'
<1> SUFFICES ASSUME IInv, [Next]_vars PROVE ServeInv'
  OBVIOUS
<1> USE DEF IInv, ServeInv
<1>1. CASE MkeydStart
  BY <1>1 DEF MkeydStart, callerVars
<1>2. CASE MkeydStop
  BY <1>2 DEF MkeydStop
<1>3. CASE MkeydIsr \/ KsConnect \/ KsLookup \/ KsSubscribe \/ KsReceive \/ KsEnd
  BY <1>3 DEF MkeydIsr, KsConnect, KsLookup, KsSubscribe, KsReceive, KsEnd,
              daemonVars, callerVars
<1>4. CASE MkeydReply
  <2> DEFINE h == Head(inbox)
  <2>1. /\ inbox # << >> /\ inbox \in Seq(Nat) /\ h = inbox[1]
        /\ Len(inbox') = Len(inbox) - 1 /\ Len(inbox) \in Nat \ {0}
        /\ \A k \in 1..(Len(inbox) - 1) : inbox'[k] = inbox[k + 1]
    BY <1>4, TailAt DEF MkeydReply, TypeInv, MessageTypes
  <2>2. h \in 1..seq /\ \A n \in replied : n < h
    BY <2>1
  <2>3. ASSUME NEW k \in 1..Len(inbox')
        PROVE  /\ inbox'[k] \in 1..seq
               /\ \A n \in replied' : n < inbox'[k]
               /\ \A l \in 1..(k - 1) : inbox'[l] < inbox'[k]
    <3>1. k \in Nat /\ k + 1 \in 1..Len(inbox) /\ inbox'[k] = inbox[k + 1]
      BY <2>1
    <3>2. inbox[1] < inbox[k + 1]
      BY <3>1
    <3>3. ASSUME NEW l \in 1..(k - 1) PROVE inbox'[l] < inbox'[k]
      <4>1. l \in 1..(Len(inbox) - 1) /\ l + 1 \in 1..((k + 1) - 1)
        BY <2>1, <3>1
      <4>2. inbox[l + 1] < inbox[k + 1] /\ inbox'[l] = inbox[l + 1]
        BY <2>1, <3>1, <4>1
      <4> QED BY <3>1, <4>2
    <3> QED BY <1>4, <2>1, <3>1, <3>2, <3>3 DEF MkeydReply
  <2>4. /\ serving' = [seq |-> h, next |-> "notify"] /\ h \in replied'
        /\ \A n \in replied' : n <= h
    <3>1. replied' = replied \cup {h} /\ serving' = [seq |-> h, next |-> "notify"]
      BY <1>4 DEF MkeydReply
    <3>2. seq \in Nat /\ replied \subseteq 1..seq
      BY DEF TypeInv, CallerInv, MessageTypes
    <3>3. ASSUME NEW n \in replied' PROVE n <= h
      <4>1. CASE n \in replied
        BY <2>2, <3>2, <4>1
      <4>2. CASE n = h
        BY <2>2, <3>2, <4>2
      <4> QED BY <3>1, <4>1, <4>2
    <3> QED BY <3>1, <3>3
  <2>5. serving'.next # "idle" /\ serving'.seq = h
    BY <2>4
  <2>6. run' = run /\ id' = id /\ seq' = seq /\ run = id /\ run # 0
    BY <1>4 DEF MkeydReply
  <2> QED BY <2>3, <2>4, <2>5, <2>6
<1>5. CASE MkeydNotify
  BY <1>5 DEF MkeydNotify, callerVars, Idle, TypeInv, MessageTypes
<1>6. CASE MkeydStatus
  BY <1>6 DEF MkeydStatus
\* The caller that looks the daemon up has made no call.
<1>7. CASE CallerConnect \/ CallerLookup
  <2>1. seq = 0
    BY <1>7 DEF CallerConnect, CallerLookup, TypeInv, CallerInv, Made
  <2>2. Len(inbox) \in Nat /\ (inbox # << >> => Len(inbox) # 0)
    BY DEF TypeInv, MessageTypes
  <2>3. inbox = << >>
    BY <2>1, <2>2
  <2>4. serving = Idle
    BY <2>1 DEF TypeInv, MessageTypes
  <2> QED BY <1>7, <2>3, <2>4 DEF CallerConnect, CallerLookup, daemonVars
<1>8. CASE Invoke
  <2>1. seq \in Nat /\ seq' = seq + 1 /\ replied' = replied /\ serving' = serving
        /\ run' = run /\ id' = id /\ replied \subseteq 1..seq
    BY <1>8 DEF Invoke, TypeInv, CallerInv, MessageTypes
  <2>2. CASE inbox' = inbox
    BY <2>1, <2>2
  <2>3. CASE id = object /\ inbox' = Append(inbox, seq + 1)
    <3>1. run = id /\ run # 0
      BY <1>8, <2>3 DEF Invoke, TypeInv, CallerInv, DaemonTypes, Methods
    <3>2. /\ Len(inbox') = Len(inbox) + 1 /\ Len(inbox) \in Nat
          /\ \A k \in 1..Len(inbox) : inbox'[k] = inbox[k]
          /\ inbox'[Len(inbox) + 1] = seq + 1
      BY <2>1, <2>3, AppendAt DEF TypeInv, MessageTypes
    <3>3. ASSUME NEW k \in 1..Len(inbox')
          PROVE  /\ inbox'[k] \in 1..(seq + 1)
                 /\ \A n \in replied : n < inbox'[k]
                 /\ \A l \in 1..(k - 1) : inbox'[l] < inbox'[k]
      <4>1. CASE k \in 1..Len(inbox)
        BY <2>1, <3>2, <4>1
      <4>2. CASE k = Len(inbox) + 1
        BY <2>1, <3>2, <4>2
      <4> QED BY <3>2, <4>1, <4>2
    <3> QED BY <2>1, <3>1, <3>3
  <2> QED BY <1>8, <2>2, <2>3 DEF Invoke
<1>9. CASE CallerReceive \/ CallerTimeout \/ CallerSleep
  BY <1>9 DEF CallerReceive, CallerTimeout, CallerSleep, daemonVars
<1>10. CASE UNCHANGED vars
  BY <1>10 DEF vars, daemonVars, callerVars
<1> QED
  BY <1>1, <1>2, <1>3, <1>4, <1>5, <1>6, <1>7, <1>8, <1>9, <1>10
  DEF Next, Serve, KsStep, CallerStep

\* No step sends ks anything after the removal, or about another object.
LEMMA KsInvNext == IInv /\ [Next]_vars => KsInv'
<1> SUFFICES ASSUME KsInv, DaemonTypes, IInv, [Next]_vars PROVE KsInv'
  BY DEF IInv, TypeInv
<1>k. toKs \in Seq(KsMessage) /\ Len(toKs) \in Nat /\ (toKs # << >> => Len(toKs) > 0)
  BY DEF IInv, TypeInv, MessageTypes
<1>1. CASE MkeydStart
  BY <1>1 DEF MkeydStart, ksVars, KsInv, DaemonTypes
<1>2. CASE MkeydStop
  <2>1. CASE subscribed # 0
    <3> DEFINE e == [type |-> "removed", run |-> object]
    <3>1. e \in KsMessage
      BY DEF KsMessage, DaemonTypes
    <3>2. /\ subscribed = object /\ subscribed = obj_id /\ gone = {} /\ ks \in {"loop", "exited"}
          /\ \A k \in 1..Len(toKs) : toKs[k].run = obj_id /\ toKs[k].type # "removed"
      BY <2>1 DEF KsInv, DaemonTypes
    <3>3. subscribed' = 0 /\ toKs' = Append(toKs, e)
          /\ UNCHANGED <<ks, obj_id, heard, gone>>
      BY <1>2, <2>1, <3>2 DEF MkeydStop
    <3>4. /\ Len(toKs') = Len(toKs) + 1
          /\ \A k \in 1..Len(toKs) : toKs'[k] = toKs[k]
          /\ toKs'[Len(toKs) + 1] = e
      BY <1>k, <3>1, <3>3, AppendAt
    <3>5. ASSUME NEW k \in 1..Len(toKs')
          PROVE  toKs'[k].run = obj_id /\ (toKs'[k].type = "removed" => k = Len(toKs'))
      <4>1. CASE k = Len(toKs) + 1
        BY <3>2, <3>4, <4>1
      <4>2. CASE k \in 1..Len(toKs)
        BY <3>2, <3>4, <4>2
      <4> QED BY <1>k, <3>4, <4>1, <4>2
    <3> QED BY <3>2, <3>3, <3>5 DEF KsInv
  <2>2. CASE subscribed = 0
    BY <1>2, <2>2 DEF MkeydStop, KsInv
  <2> QED BY <2>1, <2>2
\* A notification goes to a subscriber that has not been told of the removal.
<1>3. CASE Notify /\ UNCHANGED <<ks, obj_id, subscribed, object, heard, gone>>
  <2>1. CASE toKs' = toKs
    BY <1>3, <2>1 DEF KsInv
  <2>2. CASE /\ subscribed # 0 /\ run = obj_id
             /\ toKs' = Append(toKs, [type |-> "notify", run |-> run])
    <3> DEFINE e == [type |-> "notify", run |-> run]
    <3>1. e \in KsMessage
      BY DEF KsMessage, DaemonTypes
    <3>2. /\ Len(toKs') = Len(toKs) + 1
          /\ \A k \in 1..Len(toKs) : toKs'[k] = toKs[k]
          /\ toKs'[Len(toKs) + 1] = e
      BY <1>k, <2>2, <3>1, AppendAt
    <3>3. /\ gone = {} /\ ks \in {"loop", "exited"}
          /\ \A k \in 1..Len(toKs) : toKs[k].run = obj_id /\ toKs[k].type # "removed"
      BY <2>2 DEF KsInv, DaemonTypes
    <3>4. ASSUME NEW k \in 1..Len(toKs')
          PROVE  toKs'[k].run = obj_id /\ toKs'[k].type # "removed"
      <4>1. CASE k = Len(toKs) + 1
        BY <2>2, <3>2, <4>1
      <4>2. CASE k \in 1..Len(toKs)
        BY <3>2, <3>3, <4>2
      <4> QED BY <1>k, <3>2, <4>1, <4>2
    <3> QED BY <1>3, <3>3, <3>4 DEF KsInv
  <2> QED BY <1>3, <2>1, <2>2, NotifyType
<1>4. CASE KsConnect
  BY <1>4 DEF KsConnect, daemonVars, KsInv
<1>5. CASE KsLookup
  BY <1>5 DEF KsLookup, daemonVars, KsInv
<1>6. CASE KsSubscribe
  BY <1>k, <1>6 DEF KsSubscribe, daemonVars, KsInv
<1>7. CASE KsReceive
  <2>1. /\ toKs # << >> /\ ks = "loop" /\ toKs' = Tail(toKs)
        /\ UNCHANGED <<ks, obj_id, subscribed, object>>
    BY <1>7 DEF KsReceive, daemonVars
  <2>2. /\ Len(toKs') = Len(toKs) - 1 /\ Head(toKs) = toKs[1] /\ 1 \in 1..Len(toKs)
        /\ \A k \in 1..(Len(toKs) - 1) : toKs'[k] = toKs[k + 1]
    BY <1>k, <2>1, TailAt
  <2>3. gone = {} /\ Head(toKs).run = obj_id
    BY <2>1, <2>2 DEF KsInv
  <2>7. toKs[1].type \in {"notify", "removed"}
    <3>1. toKs[1] \in KsMessage
      BY <1>k, <2>1, TailAt
    <3> QED BY <3>1 DEF KsMessage
  <2>4. ASSUME NEW k \in 1..Len(toKs')
        PROVE  /\ toKs'[k].run = obj_id
               /\ toKs'[k].type = "removed" => k = Len(toKs') /\ subscribed = 0
    <3>1. k + 1 \in 1..Len(toKs) /\ toKs'[k] = toKs[k + 1]
      BY <1>k, <2>2
    <3>2. toKs[k + 1].type = "removed" => k + 1 = Len(toKs) /\ subscribed = 0
      BY <3>1 DEF KsInv
    <3>3. toKs[k + 1].run = obj_id
      BY <3>1 DEF KsInv
    <3> QED BY <1>k, <2>2, <3>1, <3>2, <3>3
  <2>5. CASE Head(toKs).type = "notify"
    <3>1. heard' = heard \cup {obj_id} /\ gone' = {}
      BY <1>7, <2>3, <2>5 DEF KsReceive
    <3> QED BY <2>1, <2>4, <3>1 DEF KsInv
  <2>6. CASE Head(toKs).type # "notify"
    <3>1. gone' = gone \cup {obj_id} /\ heard' = heard
      BY <1>7, <2>3, <2>6 DEF KsReceive
    <3>2. Len(toKs) = 1 /\ subscribed = 0
      BY <2>2, <2>6, <2>7 DEF KsInv
    <3>3. toKs' = << >>
      BY <2>2, <3>2
    <3> QED BY <2>1, <2>3, <2>4, <3>1, <3>2, <3>3 DEF KsInv
  <2> QED BY <2>5, <2>6
<1>8. CASE KsEnd
  BY <1>8 DEF KsEnd, daemonVars, KsInv
<1>9. CASE UNCHANGED <<ks, obj_id, subscribed, toKs, object, heard, gone>>
  BY <1>9 DEF KsInv
<1>10. /\ MkeydIsr \/ MkeydNotify
             => Notify /\ UNCHANGED <<ks, obj_id, subscribed, object, heard, gone>>
       /\ MkeydReply \/ MkeydStatus \/ CallerStep \/ UNCHANGED vars
             => UNCHANGED <<ks, obj_id, subscribed, toKs, object, heard, gone>>
  BY DEF MkeydIsr, MkeydNotify, MkeydReply, MkeydStatus, CallerStep, CallerConnect,
         CallerLookup, Invoke, CallerReceive, CallerTimeout, CallerSleep, vars,
         daemonVars, ksVars
<1> QED
  BY <1>1, <1>2, <1>3, <1>4, <1>5, <1>6, <1>7, <1>8, <1>9, <1>10
  DEF Next, Serve, KsStep

\* No step sends a status before the data of its request.
LEMMA AnswerInvNext == IInv /\ [Next]_vars => AnswerInv'
<1> SUFFICES ASSUME IInv, [Next]_vars PROVE AnswerInv'
  OBVIOUS
<1>a. AnswerInv
  BY DEF IInv
<1>k. toCaller \in Seq(Answer) /\ Len(toCaller) \in Nat
  BY DEF IInv, TypeInv, MessageTypes
<1>n. seq \in Nat /\ replied \subseteq 1..seq
  BY DEF IInv, TypeInv, CallerInv, MessageTypes
<1>1. CASE /\ UNCHANGED <<toCaller, seq, waiting, called, replied, notified>>
           /\ serving' = serving \/ serving' = Idle
  BY <1>a, <1>1 DEF AnswerInv, Told, Seen, Idle
<1>2. CASE MkeydReply
  <2> DEFINE h == Head(inbox)
  <2>1. h \in 1..seq
    <3>1. h = inbox[1] /\ 1 \in 1..Len(inbox)
      BY <1>2, TailAt DEF MkeydReply, IInv, TypeInv, MessageTypes
    <3> QED BY <3>1 DEF IInv, ServeInv
  <2>2. h \in Nat
    BY <1>n, <2>1
  <2>3. /\ toCaller' = Append(toCaller, Data(h)) /\ replied' = replied \cup {h}
        /\ serving' = [seq |-> h, next |-> "notify"]
        /\ UNCHANGED <<seq, waiting, called, notified>>
    BY <1>2 DEF MkeydReply
  <2>4. /\ Len(toCaller') = Len(toCaller) + 1
        /\ \A k \in 1..Len(toCaller) : toCaller'[k] = toCaller[k]
        /\ toCaller'[Len(toCaller) + 1] = Data(h)
    <3>1. Data(h) \in Answer
      BY <2>2, AnswerType
    <3> QED BY <1>k, <2>3, <3>1, AppendAt
  <2>5. ASSUME NEW k \in 1..Len(toCaller') PROVE Told(k)'
    <3>1. CASE k \in 1..Len(toCaller)
      <4>1. Told(k) /\ toCaller'[k] = toCaller[k]
        BY <1>a, <2>4, <3>1 DEF AnswerInv
      <4>2. Seen(k - 1) => Seen(k - 1)'
        BY <1>k, <2>3, <2>4, <3>1 DEF Seen
      <4> QED BY <2>3, <4>1, <4>2 DEF Told
    <3>2. CASE k = Len(toCaller) + 1
      <4>1. toCaller'[k].seq = h /\ toCaller'[k].type = "data"
        BY <2>4, <3>2 DEF Data
      <4> QED BY <2>1, <2>3, <4>1 DEF Told
    <3> QED BY <1>k, <2>4, <3>1, <3>2
  <2>6. h = seq => Seen(Len(toCaller))'
    <3>1. h = seq => toCaller'[Len(toCaller')] = Data(seq)'
      BY <2>3, <2>4 DEF Data
    <3> QED BY <1>k, <2>4, <3>1 DEF Seen
  <2>7. serving'.next # "status" /\ serving'.seq = h
    BY <2>3
  <2> QED BY <2>3, <2>5, <2>6, <2>7 DEF AnswerInv
<1>3. CASE MkeydNotify
  <2>1. /\ serving # Idle /\ serving'.seq = serving.seq
        /\ notified' = notified \cup {serving.seq}
        /\ UNCHANGED <<toCaller, seq, waiting, called, replied>>
    BY <1>3 DEF MkeydNotify, Idle, callerVars, IInv, TypeInv, MessageTypes
  <2> QED BY <1>a, <2>1 DEF AnswerInv, Told, Seen
<1>4. CASE MkeydStatus
  <2> DEFINE e == Status(serving.seq, "ok")
  <2>1. /\ serving # Idle /\ serving.next = "status" /\ serving' = Idle
        /\ toCaller' = Append(toCaller, e)
        /\ UNCHANGED <<seq, waiting, called, replied, notified>>
    BY <1>4 DEF MkeydStatus, Idle
  <2>2. serving.seq \in 1..seq
    BY <1>n, <2>1 DEF IInv, ServeInv
  <2>3. serving.seq \in Nat
    BY <1>n, <2>2
  <2>4. /\ Len(toCaller') = Len(toCaller) + 1
        /\ \A k \in 1..Len(toCaller) : toCaller'[k] = toCaller[k]
        /\ toCaller'[Len(toCaller) + 1] = e
    <3>1. e \in Answer
      BY <2>3, AnswerType
    <3> QED BY <1>k, <2>1, <3>1, AppendAt
  <2>5. ASSUME NEW k \in 1..Len(toCaller') PROVE Told(k)'
    <3>0. Seen(k - 1) => Seen(k - 1)'
      BY <1>k, <2>1, <2>4 DEF Seen
    <3>1. CASE k \in 1..Len(toCaller)
      <4>1. Told(k) /\ toCaller'[k] = toCaller[k]
        BY <1>a, <2>4, <3>1 DEF AnswerInv
      <4> QED BY <2>1, <3>0, <4>1 DEF Told
    <3>2. CASE k = Len(toCaller) + 1
      <4>1. toCaller'[k].seq = serving.seq /\ toCaller'[k].type = "status"
        BY <2>4, <3>2 DEF Status
      <4>2. serving.seq \in notified /\ (waiting /\ serving.seq = seq => Seen(Len(toCaller)))
        BY <1>a, <2>1 DEF AnswerInv
      <4>3. Seen(Len(toCaller)) => Seen(k - 1)
        BY <1>k, <3>2 DEF Seen
      <4> QED BY <2>1, <2>2, <3>0, <4>1, <4>2, <4>3 DEF Told
    <3> QED BY <1>k, <2>4, <3>1, <3>2
  <2>6. serving'.next = "idle"
    BY <2>1 DEF Idle
  <2> QED BY <2>1, <2>5, <2>6 DEF AnswerInv
<1>5. CASE Invoke
  <2> DEFINE e == Status(seq + 1, "not found")
  <2>1. seq' = seq + 1 /\ UNCHANGED <<serving, called, replied, notified>>
    BY <1>5 DEF Invoke
  <2>a. toCaller' = toCaller \/ toCaller' = Append(toCaller, e)
    BY <1>5 DEF Invoke
  <2>0. seq + 1 \in Nat
    BY <1>n
  <2>2. e \in Answer
    BY <2>0, AnswerType
  <2>3. /\ Len(toCaller') = Len(toCaller) \/ Len(toCaller') = Len(toCaller) + 1
        /\ \A k \in 1..Len(toCaller) : toCaller'[k] = toCaller[k]
        /\ Len(toCaller') = Len(toCaller) + 1 => toCaller'[Len(toCaller) + 1] = e
    <3>1. CASE toCaller' = toCaller
      <4>1. Len(toCaller') = Len(toCaller) /\ Len(toCaller) # Len(toCaller) + 1
        BY <1>k, <3>1
      <4> QED BY <3>1, <4>1
    <3>2. CASE toCaller' = Append(toCaller, e)
      <4>1. /\ Len(Append(toCaller, e)) = Len(toCaller) + 1
            /\ \A k \in 1..Len(toCaller) : Append(toCaller, e)[k] = toCaller[k]
            /\ Append(toCaller, e)[Len(toCaller) + 1] = e
        <5>1. toCaller \in Seq(Answer)
          BY <1>k
        <5> HIDE DEF e
        <5> QED BY <2>2, <5>1, AppendAt
      <4> QED BY <3>2, <4>1
    <3> QED BY <2>a, <3>1, <3>2
  <2>4. ASSUME NEW k \in 1..Len(toCaller') PROVE Told(k)'
    <3>1. CASE k \in 1..Len(toCaller)
      <4>1. Told(k) /\ toCaller'[k] = toCaller[k]
        BY <1>a, <2>3, <3>1 DEF AnswerInv
      <4>2. toCaller[k].seq \in 1..(seq + 1) /\ toCaller[k].seq # seq + 1
        BY <1>n, <4>1 DEF Told
      <4> QED BY <2>1, <4>1, <4>2 DEF Told
    <3>2. CASE k = Len(toCaller) + 1
      <4>1. Len(toCaller') = Len(toCaller) + 1
        <5>1. Len(toCaller') = Len(toCaller) \/ Len(toCaller') = Len(toCaller) + 1
          BY <2>3
        <5> QED BY <1>k, <3>2, <5>1
      <4>2. toCaller'[k] = e
        BY <2>3, <3>2, <4>1
      <4>3. toCaller'[k].seq = seq + 1 /\ toCaller'[k].type = "status"
            /\ toCaller'[k].ret = "not found"
        <5>1. e.seq = seq + 1 /\ e.type = "status" /\ e.ret = "not found"
          BY DEF Status
        <5> QED BY <4>2, <5>1
      <4>4. seq + 1 \in 1..(seq + 1)
        BY <1>n
      <4> QED BY <2>1, <4>3, <4>4 DEF Told
    <3>3. k \in 1..Len(toCaller) \/ k = Len(toCaller) + 1
      <4>1. Len(toCaller') = Len(toCaller) \/ Len(toCaller') = Len(toCaller) + 1
        BY <2>3
      <4> QED BY <1>k, <4>1
    <3> QED BY <3>1, <3>2, <3>3
  <2>5. serving # Idle => serving.seq # seq + 1
    BY <1>n DEF IInv, ServeInv
  <2>6. serving'.next = "status" => serving'.seq \in notified'
    BY <1>a, <2>1 DEF AnswerInv
  <2>7. ~(serving' # Idle /\ serving'.seq = seq')
    BY <2>1, <2>5
  <2> QED BY <2>4, <2>6, <2>7 DEF AnswerInv, Idle
<1>6. CASE CallerReceive
  <2> DEFINE h == Head(toCaller)
  <2>1. /\ toCaller # << >> /\ toCaller' = Tail(toCaller)
        /\ UNCHANGED <<serving, seq, replied, notified>>
        /\ called \subseteq called' /\ (waiting' => waiting)
    BY <1>6 DEF CallerReceive, Return, daemonVars
  <2>2. waiting' /\ h = Data(seq) => seq \in called'
    BY <1>6 DEF CallerReceive, Return, Data
  <2>3. /\ Len(toCaller') = Len(toCaller) - 1 /\ h = toCaller[1]
        /\ \A k \in 1..(Len(toCaller) - 1) : toCaller'[k] = toCaller[k + 1]
    BY <1>k, <2>1, TailAt
  <2>4. ASSUME NEW n \in 0..(Len(toCaller) - 1), waiting', Seen(n + 1)
        PROVE  Seen(n)'
    <3>1. CASE seq \in called
      BY <2>1, <3>1 DEF Seen
    <3>2. CASE \E j \in 1..(n + 1) : toCaller[j] = Data(seq)
      <4>1. PICK j \in 1..(n + 1) : toCaller[j] = Data(seq)
        BY <3>2
      <4>2. CASE j = 1
        BY <2>1, <2>2, <2>3, <2>4, <4>1, <4>2 DEF Seen
      <4>3. CASE j # 1
        <5>1. j - 1 \in 1..n /\ toCaller'[j - 1] = Data(seq)
          BY <1>k, <2>3, <4>1, <4>3
        <5>2. Data(seq)' = Data(seq)
          BY <2>1 DEF Data
        <5> QED BY <5>1, <5>2 DEF Seen
      <4> QED BY <4>2, <4>3
    <3> QED BY <2>4, <3>1, <3>2 DEF Seen
  <2>5. ASSUME NEW k \in 1..Len(toCaller') PROVE Told(k)'
    <3>1. k + 1 \in 1..Len(toCaller) /\ toCaller'[k] = toCaller[k + 1]
          /\ k - 1 \in 0..(Len(toCaller) - 1) /\ (k + 1) - 1 = (k - 1) + 1
      BY <1>k, <2>3
    <3>2. Told(k + 1)
      BY <1>a, <3>1 DEF AnswerInv
    <3>3. waiting' /\ Seen((k + 1) - 1) => Seen(k - 1)'
      BY <2>4, <3>1
    <3> QED BY <2>1, <3>1, <3>2, <3>3 DEF Told
  <2>6. waiting' /\ Seen(Len(toCaller)) => Seen(Len(toCaller))'
    <3>1. PICK n \in 0..(Len(toCaller) - 1) : n = Len(toCaller) - 1
      BY <1>k, <2>1, TailAt
    <3>2. waiting' /\ Seen(n + 1) => Seen(n)'
      BY <2>4
    <3>3. n + 1 = Len(toCaller) /\ n = Len(toCaller')
      BY <1>k, <2>3, <3>1
    <3> QED BY <3>2, <3>3 DEF Seen
  <2>7. serving'.next = "status" => serving'.seq \in notified'
    BY <1>a, <2>1 DEF AnswerInv
  <2>8. serving' # Idle /\ waiting' /\ serving'.seq = seq' => Seen(Len(toCaller))
    BY <1>a, <2>1 DEF AnswerInv
  <2> QED BY <2>5, <2>6, <2>7, <2>8 DEF AnswerInv, Idle
<1>7. CASE CallerTimeout
  <2>1. ~waiting' /\ UNCHANGED <<toCaller, seq, called, replied, notified, serving>>
    BY <1>7 DEF CallerTimeout, Return, daemonVars
  <2> QED BY <1>a, <2>1 DEF AnswerInv, Told, Seen
<1>8. MkeydStart \/ MkeydStop \/ MkeydIsr \/ KsStep \/ KsEnd \/ CallerConnect
        \/ CallerLookup \/ CallerSleep \/ UNCHANGED vars
        => /\ UNCHANGED <<toCaller, seq, waiting, called, replied, notified>>
           /\ serving' = serving \/ serving' = Idle
  BY DEF MkeydStart, MkeydStop, MkeydIsr, KsStep, KsConnect, KsLookup, KsSubscribe,
         KsReceive, KsEnd, CallerConnect, CallerLookup, CallerSleep, vars, daemonVars,
         callerVars
<1> QED
  BY <1>1, <1>2, <1>3, <1>4, <1>5, <1>6, <1>7, <1>8 DEF Next, Serve, CallerStep

-----------------------------------------------------------------------------
\* Every step keeps the invariant.
LEMMA IInvNext == IInv /\ [Next]_vars => IInv'
BY CallerInvNext, WaitingNext, DaemonTypesNext, MessageTypesNext, ServeInvNext,
   KsInvNext, AnswerInvNext DEF IInv, TypeInv

\* The invariant holds throughout.
LEMMA IInvHolds == Spec => []IInv
BY IInvInit, IInvNext, PTL DEF Spec

\* Whatever the daemon, its keys, the subscriber and the caller do, the caller
\* makes two calls a round and no more, and every request on its way, served or
\* answered is one it made.
THEOREM BusTypes == Spec => []TypeOK
<1>1. IInv => TypeOK
  <2> SUFFICES ASSUME IInv PROVE TypeOK
    OBVIOUS
  <2> USE KeyBusAssumption
  <2>1. /\ run \in 0..MaxRuns /\ runs \in run..MaxRuns /\ object \in {0, run}
        /\ keys \in 0..MaxKeys /\ obj_id \in 0..MaxRuns /\ id \in 0..MaxRuns
        /\ ks \in {"connect", "lookup", "subscribe", "loop", "exited"}
    BY DEF IInv, TypeInv, DaemonTypes
  <2>2. \A k \in 1..Len(inbox) : inbox[k] \in 1..seq
    BY DEF IInv, ServeInv
  <2>3. serving \in [seq : 0..seq, next : {"idle", "notify", "status"}]
    <3>1. seq \in Nat /\ serving \in [seq : Nat, next : {"idle", "notify", "status"}]
      BY DEF IInv, TypeInv, CallerInv, MessageTypes
    <3>2. serving # Idle => serving.seq \in 1..seq
      BY DEF IInv, TypeInv, MessageTypes, ServeInv
    <3>3. serving.seq \in 0..seq
      BY <3>1, <3>2 DEF Idle
    <3> QED BY <3>1, <3>3
  <2>4. subscribed \in {0, obj_id}
    BY DEF IInv, KsInv
  <2>5. /\ caller \in {"connect", "lookup", "status", "get", "sleep", "exited"}
        /\ i \in 0..Rounds /\ seq \in 0..(2 * Rounds)
    BY DEF IInv, TypeInv, CallerInv, Made
  <2>6. called \subseteq 1..seq /\ replied \subseteq 1..seq /\ notified \subseteq 1..seq
    BY DEF IInv, TypeInv, MessageTypes
  <2>7. waiting \in BOOLEAN
    BY DEF IInv, TypeInv
  <2> QED BY <2>1, <2>2, <2>3, <2>4, <2>5, <2>6, <2>7 DEF TypeOK
<1> QED BY <1>1, IInvHolds, PTL

\* ks and the caller each know one run of the daemon: one started again neither
\* reaches ks nor serves the caller, and after the removal ks hears nothing.
THEOREM OneRunKnownHolds == Spec => []OneRunKnown
<1>1. IInv => OneRunKnown
  <2> SUFFICES ASSUME IInv PROVE OneRunKnown
    OBVIOUS
  <2>1. \A k \in 1..Len(toKs) : toKs[k].run = obj_id /\ obj_id \notin gone
    <3>1. toKs = << >> => Len(toKs) = 0
      OBVIOUS
    <3> QED BY <3>1 DEF IInv, KsInv
  <2> QED BY <2>1 DEF IInv, KsInv, ServeInv, OneRunKnown
<1> QED BY <1>1, IInvHolds, PTL

\* An "ok" for the caller means that the test notification was handed to the
\* broker, and that the callback of a call that is still open runs first.
THEOREM NotifiedBeforeStatusHolds == Spec => []NotifiedBeforeStatus
<1>1. IInv => NotifiedBeforeStatus
  BY DEF IInv, AnswerInv, Told, Seen, NotifiedBeforeStatus
<1> QED BY <1>1, IInvHolds, PTL

(***************************************************************************)
(* Refinement of RemoteCall, without its fairness.                         *)
(***************************************************************************)
LEMMA CallStep == IInv /\ [Next]_vars => [Calls!Next]_(Calls!vars)
<1> SUFFICES ASSUME IInv, [Next]_vars PROVE [Calls!Next]_(Calls!vars)
  OBVIOUS
<1>1. CASE UNCHANGED <<seq, waiting, replied, notified, called>>
  BY <1>1 DEF Calls!vars
<1>2. CASE MkeydReply
  <2>1. Head(inbox) = inbox[1] /\ 1 \in 1..Len(inbox)
    BY <1>2, TailAt DEF MkeydReply, IInv, TypeInv, MessageTypes
  <2>2. Head(inbox) \in 1..seq /\ \A n \in replied : n < Head(inbox)
    BY <2>1 DEF IInv, ServeInv
  <2>3. Calls!Begin(Head(inbox))
    BY <1>2, <2>2 DEF MkeydReply, Calls!Begin
  <2> QED BY <2>2, <2>3 DEF Calls!Next
<1>3. CASE MkeydNotify
  <2>1. serving # Idle
    BY <1>3 DEF MkeydNotify, Idle
  <2>2. /\ serving.seq \in replied /\ serving.seq \in 1..seq
        /\ \A n \in replied : n <= serving.seq
    BY <2>1 DEF IInv, ServeInv, TypeInv, MessageTypes
  <2>3. Calls!Finish(serving.seq)
    BY <1>3, <2>2 DEF MkeydNotify, callerVars, Calls!Finish
  <2> QED BY <2>2, <2>3 DEF Calls!Next
<1>4. CASE Invoke
  BY <1>4 DEF Invoke, Calls!Next, Calls!Make
<1>5. CASE CallerReceive
  <2>1. CASE Return /\ called' = called
    BY <1>5, <2>1 DEF CallerReceive, Return, daemonVars, Calls!Next, Calls!Return
  <2>2. CASE /\ Head(toCaller).seq = seq /\ Head(toCaller).type = "data"
             /\ called' = called \cup {seq} /\ UNCHANGED waiting
    <3>1. Head(toCaller) = toCaller[1] /\ 1 \in 1..Len(toCaller)
      BY <1>5, TailAt DEF CallerReceive, IInv, TypeInv, MessageTypes
    <3>2. seq \in replied
      BY <2>2, <3>1 DEF IInv, AnswerInv, Told
    <3> QED BY <1>5, <2>2, <3>2 DEF CallerReceive, daemonVars, Calls!Next, Calls!Learn
  <2>3. CASE UNCHANGED <<waiting, called>>
    BY <1>5, <2>3 DEF CallerReceive, daemonVars, Calls!vars
  <2> QED BY <1>5, <2>1, <2>2, <2>3 DEF CallerReceive
<1>6. CASE CallerTimeout
  BY <1>6 DEF CallerTimeout, Return, daemonVars, Calls!Next, Calls!Return
<1>7. MkeydStart \/ MkeydStop \/ MkeydIsr \/ MkeydStatus \/ KsStep \/ KsEnd
        \/ CallerConnect \/ CallerLookup \/ CallerSleep \/ UNCHANGED vars
        => UNCHANGED <<seq, waiting, replied, notified, called>>
  BY DEF MkeydStart, MkeydStop, MkeydIsr, MkeydStatus, KsStep, KsConnect, KsLookup,
         KsSubscribe, KsReceive, KsEnd, CallerConnect, CallerLookup, CallerSleep, vars,
         daemonVars, callerVars
<1> QED BY <1>1, <1>2, <1>3, <1>4, <1>5, <1>6, <1>7 DEF Next, Serve, CallerStep

\* The daemon and the caller make of a call what RemoteCall says: at most once, in
\* order, and no answer to another call is taken for this one's, for any number of
\* rounds and runs and however late the answers are.
THEOREM CallsRefined == Spec => Calls!Init /\ [][Calls!Next]_(Calls!vars)
<1>1. Init => Calls!Init
  BY DEF Init, Calls!Init
<1> QED BY <1>1, IInvHolds, CallStep, PTL DEF Spec
=============================================================================
