----------------------- MODULE ChildProcessProxyProofs -----------------------
(***************************************************************************)
(* Proofs about ChildProcessProxy, for any set of calls and whatever the   *)
(* two processes do to each other.  The invariant IInv is inductive: every *)
(* call is in one place between the two processes, and the worker is       *)
(* started once.  What the proxy promises its user follows from it.        *)
(***************************************************************************)
EXTENDS ChildProcessProxy, TLAPS

-----------------------------------------------------------------------------
(* Channels *)

\* The members of a channel after a message was sent or received.
LEMMA RangeOfAppend ==
    ASSUME NEW S, NEW s \in Seq(S), NEW m \in S
    PROVE  Range(Append(s, m)) = Range(s) \cup {m}
<1> DEFINE t == Append(s, m)
<1>1. /\ DOMAIN s = 1..Len(s) /\ DOMAIN t = 1..Len(t) /\ Len(t) = Len(s) + 1 /\ Len(s) \in Nat
      /\ \A k \in DOMAIN s : k \in DOMAIN t /\ t[k] = s[k]
      /\ \A k \in DOMAIN t : k \in DOMAIN s \/ k = Len(t)
      /\ Len(t) \in DOMAIN t /\ t[Len(t)] = m
  OBVIOUS
<1> HIDE DEF t
<1> QED BY <1>1 DEF Range, t

LEMMA RangeOfTail ==
    ASSUME NEW S, NEW s \in Seq(S), s # << >>
    PROVE  Range(s) = Range(Tail(s)) \cup {Head(s)}
<1> DEFINE t == Tail(s)
<1>1. /\ DOMAIN s = 1..Len(s) /\ DOMAIN t = 1..Len(t) /\ Len(t) = Len(s) - 1 /\ Len(s) \in Nat
      /\ \A k \in DOMAIN t : t[k] = s[k + 1]
      /\ Head(s) = s[1] /\ 1 \in DOMAIN s
  OBVIOUS
<1> HIDE DEF t
<1>2. ASSUME NEW k \in DOMAIN s PROVE s[k] \in Range(t) \cup {s[1]}
  <2>1. CASE k = 1
    BY <2>1
  <2>2. CASE k # 1
    <3>1. k - 1 \in DOMAIN t /\ t[k - 1] = s[k]
      BY <1>1, <2>2
    <3> QED BY <3>1 DEF Range
  <2> QED BY <2>1, <2>2
<1>3. ASSUME NEW k \in DOMAIN t PROVE t[k] \in Range(s)
  BY <1>1 DEF Range
<1> QED BY <1>1, <1>2, <1>3 DEF Range, t

\* What a channel holds and carries depends on its members only.
LEMMA SameMembers ==
    ASSUME NEW s, NEW t, NEW h, Range(s) = Range(t) \cup {h}
    PROVE  /\ h.kind \notin CallKinds => Carried(s) = Carried(t)
           /\ h.kind \in CallKinds => Carried(s) = Carried(t) \cup {<<h.id, h.call>>}
           /\ \A kind : Holds(s, kind) <=> Holds(t, kind) \/ h.kind = kind
BY DEF Carried, Holds, InChannel

\* What a channel holds after a message was sent, and that a message that carries
\* no call changes nothing else.
LEMMA AppendToChannel ==
    ASSUME NEW S, NEW s \in Seq(S), NEW m \in S, NEW t, t = Append(s, m)
    PROVE  /\ m.kind \notin CallKinds => Carried(t) = Carried(s)
           /\ m.kind \notin CallKinds /\ CarriesOnce(s) => CarriesOnce(t)
           /\ \A kind : Holds(t, kind) <=> Holds(s, kind) \/ m.kind = kind
           /\ \A kind : HoldsOnce(s, kind) /\ (m.kind = kind => ~Holds(s, kind)) => HoldsOnce(t, kind)
<1>1. /\ DOMAIN s = 1..Len(s) /\ DOMAIN t = 1..Len(t)
      /\ \A k \in DOMAIN s : k \in DOMAIN t /\ t[k] = s[k]
      /\ \A k \in DOMAIN t : k \in DOMAIN s \/ k = Len(t)
      /\ Len(t) \in DOMAIN t /\ t[Len(t)] = m
  OBVIOUS
<1>2. Range(t) = Range(s) \cup {m}
  BY RangeOfAppend
<1>3. \A k \in DOMAIN s : s[k] \in Range(s)
  BY DEF Range
<1>4. m.kind \notin CallKinds /\ CarriesOnce(s) => CarriesOnce(t)
  BY <1>1 DEF CarriesOnce
<1>5. \A kind : HoldsOnce(s, kind) /\ (m.kind = kind => ~Holds(s, kind)) => HoldsOnce(t, kind)
  <2>1. \A kind : ~Holds(s, kind) => \A k \in DOMAIN s : s[k].kind # kind
    BY <1>3 DEF Holds, InChannel
  <2> QED BY <1>1, <2>1 DEF HoldsOnce
<1>6. /\ m.kind \notin CallKinds => Carried(t) = Carried(s)
      /\ \A kind : Holds(t, kind) <=> Holds(s, kind) \/ m.kind = kind
  BY <1>2, SameMembers
<1> QED BY <1>4, <1>5, <1>6

\* What a channel carries after a call was sent that it did not carry.
LEMMA AppendCall ==
    ASSUME NEW S, NEW s \in Seq(S), NEW m \in S, NEW t, t = Append(s, m),
           m.kind \in CallKinds, CarriesOnce(s), \A p \in Carried(s) : p[1] # m.id
    PROVE  Carried(t) = Carried(s) \cup {<<m.id, m.call>>} /\ CarriesOnce(t)
<1>1. /\ DOMAIN s = 1..Len(s) /\ DOMAIN t = 1..Len(t)
      /\ \A k \in DOMAIN s : t[k] = s[k]
      /\ \A k \in DOMAIN t : k \in DOMAIN s \/ k = Len(t)
      /\ t[Len(t)] = m
  OBVIOUS
<1>2. Range(t) = Range(s) \cup {m}
  BY RangeOfAppend
<1>3. \A k \in DOMAIN s : s[k].kind \in CallKinds => <<s[k].id, s[k].call>> \in Carried(s)
  BY DEF Range, Carried, InChannel
<1>4. \A k \in DOMAIN s : s[k].kind \in CallKinds => s[k].id # m.id
  BY <1>3
<1>5. CarriesOnce(t)
  BY <1>1, <1>4 DEF CarriesOnce
<1>6. Carried(t) = Carried(s) \cup {<<m.id, m.call>>}
  BY <1>2, SameMembers
<1> QED BY <1>5, <1>6

\* What a channel holds after a message was received, and that a message that
\* carries no call changes nothing else.
LEMMA TailOfChannel ==
    ASSUME NEW S, NEW s \in Seq(S), s # << >>, NEW t, t = Tail(s), NEW h, h = Head(s)
    PROVE  /\ h.kind \notin CallKinds => Carried(t) = Carried(s)
           /\ CarriesOnce(s) => CarriesOnce(t)
           /\ \A kind : Holds(s, kind) <=> Holds(t, kind) \/ h.kind = kind
           /\ \A kind : HoldsOnce(s, kind) => HoldsOnce(t, kind) /\ (h.kind = kind => ~Holds(t, kind))
<1>1. /\ DOMAIN s = 1..Len(s) /\ DOMAIN t = 1..Len(t) /\ Len(t) = Len(s) - 1 /\ Len(s) \in Nat
      /\ \A k \in DOMAIN t : k + 1 \in DOMAIN s /\ k + 1 # 1 /\ t[k] = s[k + 1]
      /\ 1 \in DOMAIN s /\ h = s[1]
  OBVIOUS
<1>2. Range(s) = Range(t) \cup {h}
  BY RangeOfTail
<1>3. \A m \in Range(t) : \E k \in DOMAIN s : k # 1 /\ s[k] = m
  BY <1>1 DEF Range
<1>4. CarriesOnce(s) => CarriesOnce(t)
  BY <1>1 DEF CarriesOnce
<1>6. \A kind : HoldsOnce(s, kind) => HoldsOnce(t, kind) /\ (h.kind = kind => ~Holds(t, kind))
  BY <1>1, <1>3 DEF Holds, HoldsOnce, InChannel
<1>7. h.kind \notin CallKinds => Carried(t) = Carried(s)
  BY <1>2 DEF Carried, InChannel
<1>8. \A kind : Holds(s, kind) <=> Holds(t, kind) \/ h.kind = kind
  BY <1>2 DEF Holds, InChannel
<1> QED BY <1>4, <1>6, <1>7, <1>8

\* What a channel carries after a call was received.
LEMMA TailCall ==
    ASSUME NEW S, NEW s \in Seq(S), s # << >>, NEW t, t = Tail(s), NEW h, h = Head(s),
           h.kind \in CallKinds, CarriesOnce(s)
    PROVE  /\ Carried(s) = Carried(t) \cup {<<h.id, h.call>>} /\ CarriesOnce(t)
           /\ \A p \in Carried(t) : p[1] # h.id
<1>1. /\ DOMAIN s = 1..Len(s) /\ DOMAIN t = 1..Len(t) /\ Len(t) = Len(s) - 1 /\ Len(s) \in Nat
      /\ \A k \in DOMAIN t : k + 1 \in DOMAIN s /\ k + 1 # 1 /\ t[k] = s[k + 1]
      /\ 1 \in DOMAIN s /\ h = s[1]
  OBVIOUS
<1>2. Range(s) = Range(t) \cup {h}
  BY RangeOfTail
<1>3. \A m \in Range(t) : \E k \in DOMAIN s : k # 1 /\ s[k] = m
  BY <1>1 DEF Range
<1>4. CarriesOnce(t)
  BY <1>1 DEF CarriesOnce
<1>5. \A p \in Carried(t) : p[1] # h.id
  BY <1>1, <1>3 DEF CarriesOnce, Carried, InChannel
<1>6. Carried(s) = Carried(t) \cup {<<h.id, h.call>>}
  BY <1>2, SameMembers
<1> QED BY <1>4, <1>5, <1>6

\* An empty channel carries nothing.
LEMMA EmptyChannel ==
    ASSUME NEW s, s = << >>
    PROVE  /\ Carried(s) = {} /\ CarriesOnce(s)
           /\ \A kind : ~Holds(s, kind) /\ HoldsOnce(s, kind)
BY DEF Carried, CarriesOnce, Holds, HoldsOnce, InChannel, Range
-----------------------------------------------------------------------------
(* Helpers of the main process *)

\* Sending leaves the channel as it was when the worker is dead.
LEMMA SendFacts ==
    ASSUME TypeOK, NEW m \in WorkerMessages, Send(m)
    PROVE  /\ toWorker' \in Seq(WorkerMessages)
           /\ errorEvent' \in {"none", "crashed", "spawnError"}
           /\ \/ worker # "dead" /\ toWorker' = Append(toWorker, m)
              \/ toWorker' = toWorker
<1>1. CASE worker # "dead"
  <2>1. toWorker' = Append(toWorker, m) /\ errorEvent' = errorEvent
    BY <1>1 DEF Send
  <2>2. Append(toWorker, m) \in Seq(WorkerMessages) /\ errorEvent \in {"none", "crashed", "spawnError"}
    BY DEF TypeOK
  <2> QED BY <1>1, <2>1, <2>2
<1>2. CASE worker = "dead"
  <2>1. toWorker' = toWorker /\ errorEvent' \in {errorEvent, "crashed"}
    BY <1>2 DEF Send
  <2> QED BY <2>1 DEF TypeOK
<1> QED BY <1>1, <1>2

\* Settling changes the outcome of open calls only.
LEMMA SettleFacts ==
    ASSUME TypeOK, NEW calls, NEW how \in {"result", "rejected"} \cup Errors, Settle(calls, how)
    PROVE  /\ outcome' \in [Calls -> {"unmade", "pending", "result", "rejected"} \cup Errors]
           /\ \A c \in Calls : outcome'[c] = IF c \in calls /\ Pending(c) THEN how ELSE outcome[c]
BY DEF Settle, TypeOK

\* After reportError() no call is open that has a task.
LEMMA ReportErrorFacts ==
    ASSUME TypeOK, NEW error \in Errors, ReportError(error)
    PROVE  /\ outcome' \in [Calls -> {"unmade", "pending", "result", "rejected"} \cup Errors]
           /\ \A c \in Calls : \/ outcome'[c] = outcome[c] /\ (Pending(c) => \A p \in workerTasks : p[2] # c)
                               \/ outcome'[c] = error /\ Pending(c)
           /\ initTask' \in {"pending", "resolved"} \cup Errors
           /\ initTask' = "resolved" <=> initTask = "resolved"
           /\ workerTasks' = workerTasks
<1> DEFINE calls == {p[2] : p \in workerTasks}
<1>1. Settle(calls, error) /\ workerTasks' = workerTasks
      /\ initTask' = IF initTask = "pending" THEN error ELSE initTask
  BY DEF ReportError
<1>2. /\ outcome' \in [Calls -> {"unmade", "pending", "result", "rejected"} \cup Errors]
      /\ \A c \in Calls : outcome'[c] = IF c \in calls /\ Pending(c) THEN error ELSE outcome[c]
  BY <1>1, SettleFacts
<1>3. initTask' \in {"pending", "resolved"} \cup Errors
  BY <1>1 DEF TypeOK
<1>4. initTask' = "resolved" <=> initTask = "resolved"
  BY <1>1 DEF Errors
<1> QED BY <1>1, <1>2, <1>3, <1>4

\* The channel to the worker after dispose().
LEMMA DisposeProxyFacts ==
    ASSUME TypeOK, DisposeProxy
    PROVE  /\ toWorker' \in Seq(WorkerMessages)
           /\ errorEvent' \in {"none", "crashed", "spawnError"}
           /\ \/ worker # "dead" /\ toWorker' = Append(toWorker, [kind |-> "Dispose"])
              \/ toWorker' = toWorker
           /\ isDisposed' = TRUE
           /\ \/ isDisposed /\ UNCHANGED <<listening, disposeTask>>
              \/ ~isDisposed /\ listening' = FALSE /\ disposeTask' = "pending"
<1>1. [kind |-> "Dispose"] \in WorkerMessages
  BY DEF WorkerMessages
<1>2. CASE isDisposed
  BY <1>2 DEF DisposeProxy, TypeOK
<1>3. CASE ~isDisposed
  <2>1. listening' = FALSE /\ isDisposed' = TRUE /\ disposeTask' = "pending"
        /\ Send([kind |-> "Dispose"])
    BY <1>3 DEF DisposeProxy
  <2> QED BY <1>1, <1>3, <2>1, SendFacts
<1> QED BY <1>2, <1>3
-----------------------------------------------------------------------------
(* Types *)

\* The messages that the two processes make.
LEMMA Messages ==
    /\ \A kind \in {"Init", "Dispose"} : [kind |-> kind] \in WorkerMessages
    /\ \A kind \in {"Ready", "Initialized", "InitError", "DisposeCompleted"} :
          [kind |-> kind] \in ParentMessages
    /\ \A id \in Ids, c \in Calls : [kind |-> "Call", id |-> id, call |-> c] \in CallMessages
    /\ CallMessages \subseteq WorkerMessages
    /\ \A m \in WorkerMessages : m.kind \in {"Call", "Init", "Dispose"}
    /\ \A m \in WorkerMessages : m.kind = "Call" => m \in CallMessages
    /\ \A m \in CallMessages : m.kind = "Call" /\ m.id \in Nat /\ m.call \in Calls
<1>1. \A m \in CallMessages : m.kind = "Call" /\ m.id \in Nat /\ m.call \in Calls
  BY DEF CallMessages, Ids
<1>2. \A m \in [kind : {"Init", "Dispose"}] : m.kind \in {"Init", "Dispose"}
  OBVIOUS
<1>3. \A m \in WorkerMessages : m.kind \in {"Call", "Init", "Dispose"}
  BY <1>1, <1>2 DEF WorkerMessages
<1>4. \A m \in WorkerMessages : m.kind = "Call" => m \in CallMessages
  BY <1>1, <1>2 DEF WorkerMessages
<1>5. \A id \in Ids, c \in Calls : [kind |-> "Call", id |-> id, call |-> c] \in CallMessages
  BY DEF CallMessages
<1>6. \A kind \in {"Init", "Dispose"} : [kind |-> kind] \in WorkerMessages
  BY DEF WorkerMessages
<1>7. \A kind \in {"Ready", "Initialized", "InitError", "DisposeCompleted"} :
          [kind |-> kind] \in ParentMessages
  BY DEF ParentMessages
<1>8. CallMessages \subseteq WorkerMessages
  BY DEF WorkerMessages
<1> QED BY <1>1, <1>3, <1>4, <1>5, <1>6, <1>7, <1>8

\* The answer to a call carries the call.
LEMMA Answers ==
    ASSUME NEW m \in CallMessages, NEW kind \in {"CallResult", "CallRejection"}
    PROVE  LET r == [m EXCEPT !.kind = kind]
           IN  r \in ParentMessages /\ r \in Replies /\ r.kind = kind /\ r.id = m.id /\ r.call = m.call
BY DEF CallMessages, ParentMessages, Replies

\* The messages that the main process gets.
LEMMA ParentKinds ==
    ASSUME NEW m \in ParentMessages
    PROVE  /\ m.kind \in CallKinds => m \in Replies /\ m.kind # "Call" /\ m.id \in Nat /\ m.call \in Calls
           /\ m.kind # "Call"
<1>1. ASSUME m \in Replies PROVE m.kind \in {"CallResult", "CallRejection"} /\ m.id \in Nat /\ m.call \in Calls
  BY <1>1 DEF Replies, Ids
<1>2. ASSUME m \notin Replies
      PROVE  m.kind \in {"Ready", "Initialized", "InitError", "DisposeCompleted"}
  BY <1>2 DEF ParentMessages
<1> QED BY <1>1, <1>2 DEF CallKinds

\* The head and the tail of a channel have its types.
LEMMA TypeOfTail ==
    ASSUME NEW S, NEW s \in Seq(S), s # << >>
    PROVE  Tail(s) \in Seq(S) /\ Head(s) \in S
OBVIOUS

LEMMA TypeOfAppend ==
    ASSUME NEW S, NEW s \in Seq(S), NEW m \in S
    PROVE  Append(s, m) \in Seq(S)
OBVIOUS

LEMMA TypeStep == TypeOK /\ [Next]_vars => TypeOK'
<1> SUFFICES ASSUME TypeOK, [Next]_vars PROVE TypeOK'
  OBVIOUS
<1> USE DEF parentVars, workerVars
<1>0. << >> \in Seq(WorkerMessages) /\ {} \in SUBSET CallMessages
  OBVIOUS
<1>1. ASSUME NEW c \in Calls, Forward(c) PROVE TypeOK'
  <2>1. outcome' \in [Calls -> {"unmade", "pending", "result", "rejected"} \cup Errors]
    BY <1>1 DEF Forward, TypeOK
  <2>2. counter' \in Nat /\ workerTasks' \in SUBSET (Ids \X Calls) /\ thens' \in Seq(Ids \X Calls)
    <3>1. <<NextId, c>> \in Ids \X Calls /\ counter \in Nat
      BY DEF TypeOK, NextId, Ids
    <3>2. thens' \in Seq(Ids \X Calls)
      <4>1. thens' = thens \/ thens' = Append(thens, <<NextId, c>>)
        BY <1>1 DEF Forward
      <4>2. thens \in Seq(Ids \X Calls)
        BY DEF TypeOK
      <4>3. \A p \in Ids \X Calls : Append(thens, p) \in Seq(Ids \X Calls)
        BY <4>2, TypeOfAppend
      <4> QED BY <3>1, <4>1, <4>2, <4>3
    <3>3. workerTasks' \in SUBSET (Ids \X Calls)
      <4>1. \A p \in workerTasks' : p \in workerTasks \/ p = <<NextId, c>>
        BY <1>1 DEF Forward
      <4> QED BY <3>1, <4>1 DEF TypeOK
    <3>4. counter' = counter \/ counter' = counter + 1
      BY <1>1 DEF Forward
    <3> QED BY <3>1, <3>2, <3>3, <3>4
  <2> QED BY <1>1, <2>1, <2>2 DEF Forward, TypeOK
<1>2. CASE Dispose
  <2>1. /\ toWorker' \in Seq(WorkerMessages) /\ errorEvent' \in {"none", "crashed", "spawnError"}
        /\ isDisposed' \in BOOLEAN /\ listening' \in BOOLEAN
        /\ disposeTask' \in {"none", "pending", "settled", "killed"}
    BY <1>2, DisposeProxyFacts DEF Dispose, TypeOK
  <2> QED BY <1>2, <2>1 DEF Dispose, TypeOK
<1>3. CASE RunThen
  <2>1. thens' \in Seq(Ids \X Calls) /\ Head(thens) \in Ids \X Calls
    BY <1>3, TypeOfTail DEF RunThen, TypeOK
  <2> DEFINE id == Head(thens)[1]
             c  == Head(thens)[2]
  <2>2. id \in Ids /\ c \in Calls
    BY <2>1
  <2>3. /\ toWorker' \in Seq(WorkerMessages) /\ errorEvent' \in {"none", "crashed", "spawnError"}
        /\ outcome' \in [Calls -> {"unmade", "pending", "result", "rejected"} \cup Errors]
    <3>1. CASE initTask = "resolved" /\ Send([kind |-> "Call", id |-> id, call |-> c]) /\ UNCHANGED outcome
      BY <3>1, <2>2, Messages, SendFacts DEF TypeOK
    <3>2. CASE initTask # "resolved" /\ Settle({c}, initTask) /\ UNCHANGED <<toWorker, errorEvent>>
      <4>1. initTask \in Errors
        BY <1>3, <3>2 DEF RunThen, TypeOK
      <4> QED BY <4>1, <3>2, SettleFacts DEF TypeOK
    <3> QED BY <1>3, <3>1, <3>2 DEF RunThen
  <2> QED BY <1>3, <2>1, <2>3 DEF RunThen, TypeOK
<1>4. CASE DisposeExpires
  BY <1>4 DEF DisposeExpires, TypeOK
<1>5. CASE Kill
  BY <1>0, <1>5 DEF Kill, TypeOK
<1>6. ASSUME NEW kind, Receive(kind)
      PROVE  toParent' \in Seq(ParentMessages) /\ Head(toParent) \in ParentMessages
  BY <1>6, TypeOfTail DEF Receive, TypeOK
<1>7. CASE OnReady
  <2>1. toWorker' \in Seq(WorkerMessages) /\ errorEvent' \in {"none", "crashed", "spawnError"}
    BY <1>7, Messages, SendFacts DEF OnReady
  <2> QED BY <1>6, <1>7, <2>1 DEF OnReady, Receive, TypeOK
<1>8. CASE OnInitialized
  BY <1>6, <1>8 DEF OnInitialized, Receive, TypeOK
<1>9. ASSUME NEW kind \in {"CallResult", "CallRejection"}, NEW how \in {"result", "rejected"}, OnReply(kind, how)
      PROVE  TypeOK'
  <2> DEFINE m == Head(toParent)
             tasks == {p \in workerTasks : p[1] = m.id}
             calls == {p[2] : p \in tasks}
  <2>1. /\ Receive(kind) /\ workerTasks' = workerTasks \ tasks /\ Settle(calls, how)
        /\ answer' = [c \in Calls |-> IF c \in calls /\ Pending(c) THEN {m.call} ELSE answer[c]]
    BY <1>9 DEF OnReply
  <2>2. m \in ParentMessages /\ m.kind = kind
    BY <1>6, <2>1 DEF Receive
  <2>3. m.call \in Calls
    BY <2>2, ParentKinds DEF CallKinds
  <2>4. answer' \in [Calls -> SUBSET Calls]
    BY <2>1, <2>3 DEF TypeOK
  <2>5. outcome' \in [Calls -> {"unmade", "pending", "result", "rejected"} \cup Errors]
    BY <2>1, SettleFacts
  <2>6. workerTasks' \in SUBSET (Ids \X Calls)
    BY <2>1 DEF TypeOK
  <2> QED BY <1>6, <1>9, <2>1, <2>4, <2>5, <2>6 DEF OnReply, Receive, TypeOK
<1>10. CASE OnDisposeCompleted
  BY <1>6, <1>10 DEF OnDisposeCompleted, Receive, TypeOK
<1>11. CASE OnInitError
  <2>1. /\ toWorker' \in Seq(WorkerMessages) /\ errorEvent' \in {"none", "crashed", "spawnError"}
        /\ isDisposed' \in BOOLEAN /\ listening' \in BOOLEAN
        /\ disposeTask' \in {"none", "pending", "settled", "killed"}
    BY <1>11, DisposeProxyFacts DEF OnInitError, TypeOK
  <2>2. /\ outcome' \in [Calls -> {"unmade", "pending", "result", "rejected"} \cup Errors]
        /\ initTask' \in {"pending", "resolved"} \cup Errors /\ workerTasks' = workerTasks
    BY <1>11, ReportErrorFacts DEF OnInitError, Errors
  <2> QED BY <1>6, <1>11, <2>1, <2>2 DEF OnInitError, Receive, TypeOK, Errors
<1>12. CASE HandleUnexpectedExit
  <2>1. /\ outcome' \in [Calls -> {"unmade", "pending", "result", "rejected"} \cup Errors]
        /\ initTask' \in {"pending", "resolved"} \cup Errors /\ workerTasks' = workerTasks
    BY <1>12, ReportErrorFacts DEF HandleUnexpectedExit, Errors
  <2> QED BY <1>12, <2>1 DEF HandleUnexpectedExit, TypeOK, Errors
<1>13. CASE HandleError
  <2>0. errorEvent \in Errors
    BY <1>13 DEF HandleError, TypeOK, Errors
  <2>1. /\ outcome' \in [Calls -> {"unmade", "pending", "result", "rejected"} \cup Errors]
        /\ initTask' \in {"pending", "resolved"} \cup Errors /\ workerTasks' = workerTasks
    BY <2>0, <1>13, ReportErrorFacts DEF HandleError
  <2> QED BY <1>13, <2>1 DEF HandleError, TypeOK
<1>14. CASE Boot
  BY <1>14, Messages, TypeOfAppend DEF Boot, TypeOK
<1>15. CASE HandleMessage
  <2>1. toWorker' \in Seq(WorkerMessages) /\ Head(toWorker) \in WorkerMessages
    BY <1>15, TypeOfTail DEF HandleMessage, TypeOK
  <2>2. ASSUME Head(toWorker).kind = "Call"
        PROVE  /\ Head(toWorker) \in CallMessages
               /\ [Head(toWorker) EXCEPT !.kind = "CallRejection"] \in ParentMessages
    BY <2>1, <2>2, Messages, Answers
  <2>3. executing' \in SUBSET CallMessages
    BY <1>15, <2>2 DEF HandleMessage, TypeOK
  <2>4. toParent' \in Seq(ParentMessages)
    BY <1>15, <2>2, TypeOfAppend DEF HandleMessage, TypeOK
  <2>5. /\ worker' \in {"booting", "up", "initializing", "ready", "initFailed", "hung", "dead"}
        /\ shuttingDown' \in BOOLEAN /\ UNCHANGED parentVars /\ toWorker' = Tail(toWorker)
    BY <1>15 DEF HandleMessage, TypeOK
  <2> QED BY <2>1, <2>3, <2>4, <2>5 DEF TypeOK
<1>16. CASE InitEnds
  <2>1. \E m \in ParentMessages : toParent' = Append(toParent, m)
    BY <1>16, Messages DEF InitEnds
  <2>2. toParent' \in Seq(ParentMessages)
    BY <2>1, TypeOfAppend DEF TypeOK
  <2> QED BY <1>16, <2>2 DEF InitEnds, TypeOK
<1>17. CASE ShutdownEnds
  BY <1>17, Messages, TypeOfAppend DEF ShutdownEnds, TypeOK
<1>18. ASSUME NEW m \in executing, CallEnds(m) PROVE TypeOK'
  <2>1. m \in CallMessages
    BY DEF TypeOK
  <2>2. \E r \in ParentMessages : toParent' = Append(toParent, r)
    BY <1>18, <2>1, Answers DEF CallEnds
  <2>3. toParent' \in Seq(ParentMessages)
    BY <2>2, TypeOfAppend DEF TypeOK
  <2> QED BY <1>18, <2>3 DEF CallEnds, TypeOK
<1>19. CASE Hang
  BY <1>19 DEF Hang, TypeOK
<1>20. CASE Crash
  BY <1>0, <1>20 DEF Crash, TypeOK
<1>21. CASE SpawnFails
  BY <1>0, <1>21 DEF SpawnFails, TypeOK
<1>22. CASE UNCHANGED vars
  BY <1>22 DEF vars, TypeOK
<1> QED BY <1>1, <1>2, <1>3, <1>4, <1>5, <1>7, <1>8, <1>9, <1>10, <1>11, <1>12, <1>13, <1>14,
           <1>15, <1>16, <1>17, <1>18, <1>19, <1>20, <1>21, <1>22
        DEF Next, ParentStep, WorkerStep
-----------------------------------------------------------------------------
(* Tasks *)

\* Nothing but forward() and the replies changes the tasks.
LEMMA SameTasks ==
    ASSUME TypeOK, TasksAreCalls, workerTasks' = workerTasks, counter' = counter,
           \A c \in Calls : \/ outcome'[c] = outcome[c]
                            \/ outcome'[c] \notin {"unmade", "pending"}
    PROVE  TasksAreCalls'
<1>1. \A p \in workerTasks : p[2] \in Calls
  BY DEF TypeOK
<1>2. \A c \in Calls : Pending(c)' => Pending(c)
  BY DEF Pending
<1>3. \A p \in workerTasks : outcome'[p[2]] # "unmade"
  BY <1>1 DEF TasksAreCalls
<1> QED BY <1>1, <1>2, <1>3 DEF TasksAreCalls

LEMMA TasksStep == TypeOK /\ TasksAreCalls /\ [Next]_vars => TasksAreCalls'
<1> SUFFICES ASSUME TypeOK, TasksAreCalls, [Next]_vars PROVE TasksAreCalls'
  OBVIOUS
<1> USE DEF parentVars, workerVars
<1>1. ASSUME NEW c \in Calls, Forward(c) PROVE TasksAreCalls'
  <2>1. CASE fatalError # "none"
    <3>1. fatalError \in Errors /\ workerTasks' = workerTasks /\ counter' = counter
          /\ outcome' = [outcome EXCEPT ![c] = fatalError]
      BY <1>1, <2>1 DEF Forward, TypeOK
    <3>2. \A e \in Calls : outcome'[e] = outcome[e] \/ outcome'[e] = fatalError
      BY <3>1 DEF TypeOK
    <3>3. \A e \in Calls : outcome'[e] = outcome[e] \/ outcome'[e] \notin {"unmade", "pending"}
      BY <3>1, <3>2 DEF Errors
    <3> QED BY <3>1, <3>3, SameTasks
  <2>2. CASE fatalError = "none"
    <3>1. /\ workerTasks' = {p \in workerTasks : p[1] # counter} \cup {<<counter, c>>}
          /\ counter' = counter + 1 /\ outcome[c] = "unmade"
          /\ outcome' = [outcome EXCEPT ![c] = "pending"]
      BY <1>1, <2>2 DEF Forward, NextId
    <3>2. /\ outcome'[c] = "pending" /\ \A e \in Calls : e # c => outcome'[e] = outcome[e]
          /\ counter \in Nat
      BY <3>1 DEF TypeOK
    <3>3. \A p \in workerTasks : p[1] \in Nat /\ p[2] \in Calls /\ p[1] < counter /\ p[2] # c
      BY <3>1 DEF TypeOK, TasksAreCalls, Ids
    <3>4. \A p \in workerTasks' : p \in workerTasks \/ (p[1] = counter /\ p[2] = c /\ p = <<counter, c>>)
      BY <3>1
    <3>5. \A p \in workerTasks : p \in workerTasks'
      BY <3>1, <3>2, <3>3
    <3>6. \A p \in workerTasks' : p[1] < counter' /\ outcome'[p[2]] # "unmade"
      BY <3>1, <3>2, <3>3, <3>4 DEF TasksAreCalls
    <3>7. \A p, q \in workerTasks' : p[1] = q[1] \/ p[2] = q[2] => p = q
      <4>1. \A p \in workerTasks : p[1] # counter
        BY <3>2, <3>3
      <4> QED BY <3>3, <3>4, <4>1 DEF TasksAreCalls
    <3>8. \A e \in Calls : Pending(e)' => \E p \in workerTasks' : p[2] = e
      <4>1. <<counter, c>> \in workerTasks' /\ <<counter, c>>[2] = c
        BY <3>1
      <4> QED BY <3>2, <3>5, <4>1 DEF Pending, TasksAreCalls
    <3> QED BY <3>6, <3>7, <3>8 DEF TasksAreCalls
  <2> QED BY <2>1, <2>2
<1>2. ASSUME UNCHANGED <<workerTasks, counter, outcome>> PROVE TasksAreCalls'
  BY <1>2, SameTasks
<1>3. CASE RunThen
  <2>1. CASE outcome' = outcome
    BY <1>3, <2>1, SameTasks DEF RunThen
  <2>2. CASE initTask # "resolved" /\ Settle({Head(thens)[2]}, initTask)
    <3>1. initTask \in Errors
      BY <1>3, <2>2 DEF RunThen, TypeOK
    <3>2. \A c \in Calls : outcome'[c] = outcome[c] \/ outcome'[c] = initTask
      BY <2>2, <3>1, SettleFacts
    <3> QED BY <1>3, <3>1, <3>2, SameTasks DEF RunThen, Errors
  <2> QED BY <1>3, <2>1, <2>2 DEF RunThen
<1>4. ASSUME NEW error \in Errors, ReportError(error), counter' = counter PROVE TasksAreCalls'
  <2>1. workerTasks' = workerTasks /\ \A c \in Calls : outcome'[c] = outcome[c] \/ outcome'[c] = error
    BY <1>4, ReportErrorFacts
  <2> QED BY <1>4, <2>1, SameTasks DEF Errors
<1>5. ASSUME NEW kind, NEW how \in {"result", "rejected"}, OnReply(kind, how) PROVE TasksAreCalls'
  <2> DEFINE m == Head(toParent)
             tasks == {p \in workerTasks : p[1] = m.id}
             calls == {p[2] : p \in tasks}
  <2>1. workerTasks' = workerTasks \ tasks /\ Settle(calls, how) /\ counter' = counter
    BY <1>5 DEF OnReply, Receive
  <2>2. \A c \in Calls : outcome'[c] = IF c \in calls /\ Pending(c) THEN how ELSE outcome[c]
    BY <2>1, SettleFacts
  <2>3. \A c \in Calls : Pending(c)' => Pending(c) /\ c \notin calls
    BY <2>2 DEF Pending
  <2>4. \A p \in workerTasks : p[2] \in Calls /\ outcome'[p[2]] # "unmade"
    <3>1. \A p \in workerTasks : p[2] \in Calls
      BY DEF TypeOK
    <3> QED BY <3>1, <2>2 DEF TasksAreCalls
  <2>5. \A p \in workerTasks : p \in workerTasks' \/ p[2] \in calls
    BY <2>1
  <2>6. \A c \in Calls : Pending(c)' => \E p \in workerTasks' : p[2] = c
    BY <2>3, <2>5 DEF TasksAreCalls
  <2>7. \A p \in workerTasks' : p \in workerTasks
    BY <2>1
  <2> QED BY <2>1, <2>4, <2>6, <2>7 DEF TasksAreCalls
<1>6. CASE OnInitError
  BY <1>4, <1>6 DEF OnInitError, Receive, Errors
<1>7. CASE HandleUnexpectedExit
  BY <1>4, <1>7 DEF HandleUnexpectedExit, Errors
<1>8. CASE HandleError
  <2>1. errorEvent \in Errors
    BY <1>8 DEF HandleError, TypeOK, Errors
  <2> QED BY <1>4, <1>8, <2>1 DEF HandleError
<1>9. CASE \/ Dispose \/ DisposeExpires \/ Kill \/ OnReady \/ OnInitialized \/ OnDisposeCompleted
           \/ WorkerStep \/ Hang \/ Crash \/ SpawnFails \/ UNCHANGED vars
  BY <1>2, <1>9 DEF Dispose, DisposeExpires, Kill, OnReady, OnInitialized, OnDisposeCompleted, Receive,
                    WorkerStep, Boot, HandleMessage, InitEnds, ShutdownEnds, CallEnds,
                    Hang, Crash, SpawnFails, vars
<1> QED BY <1>1, <1>3, <1>5, <1>6, <1>7, <1>8, <1>9 DEF Next, ParentStep
-----------------------------------------------------------------------------
(* The places of a call *)

\* A sequence without repetition stays so when something new is appended.
LEMMA AppendOnce ==
    ASSUME NEW S, NEW s \in Seq(S), NEW m \in S, m \notin Range(s), NEW t, t = Append(s, m),
           \A j, k \in DOMAIN s : s[j] = s[k] => j = k
    PROVE  \A j, k \in DOMAIN t : t[j] = t[k] => j = k
<1>1. /\ DOMAIN s = 1..Len(s) /\ DOMAIN t = 1..Len(t) /\ Len(t) = Len(s) + 1 /\ Len(s) \in Nat
      /\ \A k \in DOMAIN s : t[k] = s[k]
      /\ \A k \in DOMAIN t : k \in DOMAIN s \/ k = Len(t)
      /\ t[Len(t)] = m
  OBVIOUS
<1>2. \A k \in DOMAIN s : s[k] # m
  BY DEF Range
<1> QED BY <1>1, <1>2

\* Its head is not in its tail.
LEMMA TailOnce ==
    ASSUME NEW S, NEW s \in Seq(S), s # << >>, NEW t, t = Tail(s),
           \A j, k \in DOMAIN s : s[j] = s[k] => j = k
    PROVE  /\ \A j, k \in DOMAIN t : t[j] = t[k] => j = k
           /\ Head(s) \notin Range(t)
<1>1. /\ DOMAIN s = 1..Len(s) /\ DOMAIN t = 1..Len(t) /\ Len(t) = Len(s) - 1 /\ Len(s) \in Nat
      /\ \A k \in DOMAIN t : k \in Nat /\ k + 1 \in DOMAIN s /\ k + 1 # 1 /\ t[k] = s[k + 1]
      /\ Head(s) = s[1] /\ 1 \in DOMAIN s
  OBVIOUS
<1>2. \A j, k \in DOMAIN t : t[j] = t[k] => j = k
  BY <1>1
<1>3. Head(s) \notin Range(t)
  BY <1>1 DEF Range
<1> QED BY <1>2, <1>3

\* What is executed is a call, and only once.
LEMMA ExecutedFacts ==
    ASSUME TypeOK, NEW m \in CallMessages
    PROVE  LET pairs(ms) == {<<n.id, n.call>> : n \in ms}
           IN  /\ pairs(executing \cup {m}) = Executed \cup {<<m.id, m.call>>}
               /\ m \in executing => /\ Executed = pairs(executing \ {m}) \cup {<<m.id, m.call>>}
                                     /\ <<m.id, m.call>> \notin pairs(executing \ {m})
<1> DEFINE pairs(ms) == {<<n.id, n.call>> : n \in ms}
<1>1. \A n \in executing : n \in CallMessages
  BY DEF TypeOK
<1>2. \A n \in CallMessages : n = [kind |-> "Call", id |-> n.id, call |-> n.call]
  BY DEF CallMessages
<1>3. \A n \in executing : <<n.id, n.call>> = <<m.id, m.call>> => n = m
  BY <1>1, <1>2
<1>4. pairs(executing \cup {m}) = Executed \cup {<<m.id, m.call>>}
  BY DEF Executed
<1>5. ASSUME m \in executing
      PROVE  /\ Executed = pairs(executing \ {m}) \cup {<<m.id, m.call>>}
             /\ <<m.id, m.call>> \notin pairs(executing \ {m})
  BY <1>3, <1>5 DEF Executed
<1> QED BY <1>4, <1>5
\* A step that moves no call keeps the places.
LEMMA SamePlaces ==
    ASSUME OnePlacePerCall, workerTasks' = workerTasks, thens' = thens,
           Carried(toWorker)' \subseteq Carried(toWorker), CarriesOnce(toWorker)',
           Executed' \subseteq Executed,
           Carried(toParent)' \subseteq Carried(toParent), CarriesOnce(toParent)'
    PROVE  OnePlacePerCall'
BY DEF OnePlacePerCall

\* Messages that carry no call do not matter.
LEMMA OtherMessages ==
    ASSUME TypeOK, OnePlacePerCall, workerTasks' = workerTasks, thens' = thens,
           Executed' \subseteq Executed,
           \/ toWorker' = toWorker \/ toWorker' = << >>
           \/ \E m \in WorkerMessages : m.kind \notin CallKinds /\ toWorker' = Append(toWorker, m)
           \/ toWorker # << >> /\ Head(toWorker).kind \notin CallKinds /\ toWorker' = Tail(toWorker),
           \/ toParent' = toParent
           \/ \E m \in ParentMessages : m.kind \notin CallKinds /\ toParent' = Append(toParent, m)
           \/ toParent # << >> /\ Head(toParent).kind \notin CallKinds /\ toParent' = Tail(toParent)
    PROVE  OnePlacePerCall'
<1>1. /\ toWorker \in Seq(WorkerMessages) /\ toParent \in Seq(ParentMessages)
      /\ CarriesOnce(toWorker) /\ CarriesOnce(toParent)
  BY DEF TypeOK, OnePlacePerCall
<1>2. Carried(toWorker') \subseteq Carried(toWorker) /\ CarriesOnce(toWorker')
  BY <1>1, AppendToChannel, TailOfChannel, EmptyChannel
<1>3. Carried(toParent') \subseteq Carried(toParent) /\ CarriesOnce(toParent')
  BY <1>1, AppendToChannel, TailOfChannel
<1>4. Carried(toWorker)' = Carried(toWorker') /\ Carried(toParent)' = Carried(toParent')
      /\ (CarriesOnce(toWorker)' <=> CarriesOnce(toWorker'))
      /\ (CarriesOnce(toParent)' <=> CarriesOnce(toParent'))
  BY DEF Carried, CarriesOnce, InChannel
<1> QED BY <1>2, <1>3, <1>4, SamePlaces
\* forward() registers a new call and puts it in line.
LEMMA ForwardPlaces ==
    ASSUME TypeOK, TasksAreCalls, OnePlacePerCall, NEW c \in Calls, Forward(c)
    PROVE  OnePlacePerCall'
<1>1. CASE fatalError # "none"
  <2>1. UNCHANGED <<workerTasks, thens, toWorker, executing, toParent>>
    BY <1>1 DEF Forward, workerVars
  <2> QED BY <2>1, OtherMessages DEF Executed
<1>2. CASE fatalError = "none"
  <2> DEFINE p == <<counter, c>>
  <2>1. /\ workerTasks' = {q \in workerTasks : q[1] # counter} \cup {p}
        /\ thens' = Append(thens, p) /\ UNCHANGED <<toWorker, executing, toParent>>
    BY <1>2 DEF Forward, NextId, workerVars
  <2>2. /\ \A q \in workerTasks : q[1] \in Nat /\ q[1] < counter
        /\ counter \in Nat /\ thens \in Seq(Ids \X Calls) /\ p \in Ids \X Calls
    BY DEF TypeOK, TasksAreCalls, Ids
  <2>3. p[1] = counter
    OBVIOUS
  <2>4. workerTasks' = workerTasks \cup {p} /\ p \notin workerTasks
    BY <2>1, <2>2, <2>3
  <2>5. p \notin Range(thens) \cup Carried(toWorker) \cup Executed \cup Carried(toParent)
    BY <2>4 DEF OnePlacePerCall
  <2> DEFINE S == Ids \X Calls
  <2>9. p \in S /\ thens \in Seq(S) /\ p \notin Range(thens) /\ thens' = Append(thens, p)
        /\ \A j, k \in DOMAIN thens : thens[j] = thens[k] => j = k
    BY <2>1, <2>2, <2>5 DEF OnePlacePerCall
  <2> HIDE DEF p, S
  <2>6. Range(thens') = Range(thens) \cup {p}
    BY <2>9, RangeOfAppend
  <2>7. \A j, k \in DOMAIN thens' : thens'[j] = thens'[k] => j = k
    BY <2>9, AppendOnce
  <2>8. /\ Carried(toWorker)' = Carried(toWorker) /\ Carried(toParent)' = Carried(toParent)
        /\ Executed' = Executed /\ CarriesOnce(toWorker)' = CarriesOnce(toWorker)
        /\ CarriesOnce(toParent)' = CarriesOnce(toParent) /\ Range(thens)' = Range(thens')
    BY <2>1 DEF Carried, CarriesOnce, Executed, InChannel, Range
  <2> QED BY <2>4, <2>5, <2>6, <2>7, <2>8 DEF OnePlacePerCall
<1> QED BY <1>1, <1>2

\* The continuation sends the call, or rejects it.
LEMMA RunThenPlaces ==
    ASSUME TypeOK, TasksAreCalls, OnePlacePerCall, RunThen
    PROVE  OnePlacePerCall'
<1> DEFINE p == Head(thens)
           m == [kind |-> "Call", id |-> p[1], call |-> p[2]]
<1>1. /\ thens # << >> /\ thens' = Tail(thens) /\ thens \in Seq(Ids \X Calls)
      /\ toWorker \in Seq(WorkerMessages) /\ UNCHANGED <<workerTasks, executing, toParent>>
      /\ toWorker' = toWorker \/ Send(m)
  BY DEF RunThen, TypeOK, workerVars
<1>2. p \in Ids \X Calls /\ Range(thens) = Range(thens') \cup {p}
  BY <1>1, TypeOfTail, RangeOfTail
<1>3. /\ \A j, k \in DOMAIN thens' : thens'[j] = thens'[k] => j = k
      /\ p \notin Range(thens')
  BY <1>1, TailOnce DEF OnePlacePerCall
<1>4. /\ m \in WorkerMessages /\ m.kind \in CallKinds /\ <<m.id, m.call>> = p /\ m.id = p[1]
  BY <1>2, Messages DEF CallKinds
<1>5. p \in workerTasks /\ p \notin Carried(toWorker) \cup Executed \cup Carried(toParent)
  BY <1>2 DEF OnePlacePerCall
<1>6. \A q \in Carried(toWorker) : q[1] # p[1]
  BY <1>5 DEF OnePlacePerCall, TasksAreCalls
<1>7. \/ Carried(toWorker') = Carried(toWorker) /\ CarriesOnce(toWorker')
      \/ Carried(toWorker') = Carried(toWorker) \cup {p} /\ CarriesOnce(toWorker')
  <2>1. CarriesOnce(toWorker)
    BY DEF OnePlacePerCall
  <2>2. toWorker' = toWorker \/ toWorker' = Append(toWorker, m)
    BY <1>1, <1>4, SendFacts
  <2> HIDE DEF m, p
  <2>3. CASE toWorker' = Append(toWorker, m)
    <3>1. Carried(toWorker') = Carried(toWorker) \cup {<<m.id, m.call>>} /\ CarriesOnce(toWorker')
      BY <1>1, <1>4, <1>6, <2>1, <2>3, AppendCall
    <3> QED BY <1>4, <3>1
  <2> QED BY <2>1, <2>2, <2>3
<1>8. /\ Carried(toWorker)' = Carried(toWorker') /\ Carried(toParent)' = Carried(toParent)
      /\ Executed' = Executed /\ (CarriesOnce(toWorker)' <=> CarriesOnce(toWorker'))
      /\ (CarriesOnce(toParent)' <=> CarriesOnce(toParent)) /\ Range(thens)' = Range(thens')
  BY <1>1 DEF Carried, CarriesOnce, Executed, InChannel, Range
<1> HIDE DEF m, p
<1> QED BY <1>1, <1>2, <1>3, <1>5, <1>7, <1>8 DEF OnePlacePerCall

\* The worker takes a call to execute it, or answers it at once.
LEMMA HandlePlaces ==
    ASSUME TypeOK, TasksAreCalls, OnePlacePerCall, HandleMessage
    PROVE  OnePlacePerCall'
<1> DEFINE m == Head(toWorker)
           p == <<m.id, m.call>>
           r == [m EXCEPT !.kind = "CallRejection"]
<1>1. /\ toWorker # << >> /\ toWorker' = Tail(toWorker) /\ UNCHANGED <<workerTasks, thens>>
      /\ \/ m.kind \in {"Init", "Dispose"} /\ UNCHANGED <<executing, toParent>>
         \/ m.kind = "Call" /\ executing' = executing \cup {m} /\ toParent' = toParent
         \/ m.kind = "Call" /\ toParent' = Append(toParent, r) /\ executing' = executing
  BY DEF HandleMessage, parentVars, workerVars
<1>2. toWorker \in Seq(WorkerMessages) /\ toParent \in Seq(ParentMessages)
  BY DEF TypeOK
<1>3. CASE m.kind \in {"Init", "Dispose"}
  BY <1>1, <1>3, OtherMessages DEF CallKinds, Executed
<1>4. CASE m.kind = "Call"
  <2>0. m.kind \in CallKinds /\ CarriesOnce(toWorker)
    BY <1>4 DEF CallKinds, OnePlacePerCall
  <2>1. /\ Carried(toWorker) = Carried(toWorker') \cup {p} /\ CarriesOnce(toWorker')
        /\ \A q \in Carried(toWorker') : q[1] # m.id
    BY <1>1, <1>2, <2>0, TailCall
  <2>2. m \in CallMessages
    BY <1>1, <1>2, <1>4, TypeOfTail, Messages
  <2>3. r \in ParentMessages /\ r.kind = "CallRejection" /\ r.id = m.id /\ r.call = m.call
    BY <2>2, Answers
  <2>4. p[1] = m.id /\ CarriesOnce(toWorker)
    BY DEF OnePlacePerCall
  <2>5. /\ CarriesOnce(toWorker') /\ p \notin Carried(toWorker') /\ p \in workerTasks
        /\ p \notin Range(thens) \cup Executed \cup Carried(toParent)
    BY <2>1, <2>4 DEF OnePlacePerCall
  <2>6. \/ Executed' = Executed \cup {p} /\ Carried(toParent)' = Carried(toParent) /\ CarriesOnce(toParent)'
        \/ Executed' = Executed /\ Carried(toParent)' = Carried(toParent) \cup {p} /\ CarriesOnce(toParent)'
    <3>1. CASE executing' = executing \cup {m} /\ toParent' = toParent
      <4>1. Executed' = Executed \cup {p}
        BY <2>2, <3>1, ExecutedFacts DEF Executed
      <4> QED BY <3>1, <4>1 DEF OnePlacePerCall, Carried, CarriesOnce, InChannel
    <3>2. CASE toParent' = Append(toParent, r) /\ executing' = executing
      <4>1. \A q \in Carried(toParent) : q[1] # r.id
        BY <2>3, <2>4, <2>5 DEF OnePlacePerCall, TasksAreCalls
      <4> HIDE DEF r, p
      <4>2. /\ Carried(toParent') = Carried(toParent) \cup {<<r.id, r.call>>}
            /\ CarriesOnce(toParent')
        <5>1. r.kind \in CallKinds /\ CarriesOnce(toParent)
          BY <2>3 DEF CallKinds, OnePlacePerCall
        <5> QED BY <1>2, <2>3, <3>2, <4>1, <5>1, AppendCall
      <4>3. Carried(toParent)' = Carried(toParent') /\ (CarriesOnce(toParent)' <=> CarriesOnce(toParent'))
            /\ Executed' = Executed
        BY <3>2 DEF Carried, CarriesOnce, InChannel, Executed
      <4>4. <<r.id, r.call>> = p
        BY <2>3 DEF p
      <4> QED BY <4>2, <4>3, <4>4
    <3> QED BY <1>1, <1>4, <3>1, <3>2
  <2>7. Carried(toWorker)' = Carried(toWorker') /\ (CarriesOnce(toWorker)' <=> CarriesOnce(toWorker'))
        /\ Range(thens)' = Range(thens)
    BY <1>1 DEF Carried, CarriesOnce, InChannel, Range
  <2> HIDE DEF p, m
  <2> QED BY <1>1, <2>1, <2>5, <2>6, <2>7 DEF OnePlacePerCall
<1> QED BY <1>1, <1>3, <1>4

\* A call that was executed is answered.
LEMMA CallEndsPlaces ==
    ASSUME TypeOK, TasksAreCalls, OnePlacePerCall, NEW m \in executing, CallEnds(m)
    PROVE  OnePlacePerCall'
<1> DEFINE p == <<m.id, m.call>>
<1>1. /\ m \in CallMessages /\ toParent \in Seq(ParentMessages)
      /\ executing' = executing \ {m} /\ UNCHANGED <<workerTasks, thens, toWorker>>
  BY DEF TypeOK, CallEnds, parentVars
<1>2. PICK r \in ParentMessages : /\ toParent' = Append(toParent, r)
                                  /\ r.kind \in CallKinds /\ r.id = m.id /\ r.call = m.call
  BY <1>1, Answers DEF CallEnds, CallKinds
<1>3. Executed = Executed' \cup {p} /\ p \notin Executed'
  BY <1>1, ExecutedFacts DEF Executed
<1>4. p \in workerTasks /\ p \notin Range(thens) \cup Carried(toWorker) \cup Carried(toParent)
      /\ p[1] = m.id /\ CarriesOnce(toParent)
  BY <1>3 DEF OnePlacePerCall
<1>5. \A q \in Carried(toParent) : q[1] # m.id
  BY <1>4 DEF OnePlacePerCall, TasksAreCalls
<1>6. Carried(toParent') = Carried(toParent) \cup {p} /\ CarriesOnce(toParent')
  <2> HIDE DEF p
  <2>1. Carried(toParent') = Carried(toParent) \cup {<<r.id, r.call>>} /\ CarriesOnce(toParent')
    BY <1>1, <1>2, <1>4, <1>5, AppendCall
  <2>2. <<r.id, r.call>> = p
    BY <1>2 DEF p
  <2> QED BY <2>1, <2>2
<1>7. /\ Carried(toParent)' = Carried(toParent') /\ (CarriesOnce(toParent)' <=> CarriesOnce(toParent'))
      /\ Carried(toWorker)' = Carried(toWorker) /\ (CarriesOnce(toWorker)' <=> CarriesOnce(toWorker))
      /\ Range(thens)' = Range(thens)
  BY <1>1 DEF Carried, CarriesOnce, InChannel, Range
<1> HIDE DEF p
<1> QED BY <1>1, <1>3, <1>4, <1>6, <1>7 DEF OnePlacePerCall

\* A reply takes the task with it that it belongs to, and no other.
LEMMA ReplyPlaces ==
    ASSUME TypeOK, TasksAreCalls, OnePlacePerCall, NEW kind \in {"CallResult", "CallRejection"}, NEW how,
           OnReply(kind, how)
    PROVE  OnePlacePerCall'
<1> DEFINE m == Head(toParent)
           p == <<m.id, m.call>>
<1>1. /\ toParent # << >> /\ toParent' = Tail(toParent) /\ m.kind \in CallKinds
      /\ workerTasks' = workerTasks \ {q \in workerTasks : q[1] = m.id}
      /\ UNCHANGED <<thens, toWorker, executing>> /\ toParent \in Seq(ParentMessages)
  BY DEF OnReply, Receive, workerVars, TypeOK, CallKinds
<1>3. CarriesOnce(toParent) /\ p[1] = m.id
  BY DEF OnePlacePerCall
<1>2. /\ Carried(toParent) = Carried(toParent') \cup {p} /\ CarriesOnce(toParent')
      /\ \A q \in Carried(toParent') : q[1] # m.id
  BY <1>1, <1>3, TailCall
<1>4. \A q \in Carried(toParent') : q \in workerTasks'
  BY <1>1, <1>2, <1>3 DEF OnePlacePerCall
<1>5. \A q \in Range(thens) \cup Carried(toWorker) \cup Executed : q \in workerTasks'
  <2>1. p \in Carried(toParent) /\ p \in workerTasks
    BY <1>2 DEF OnePlacePerCall
  <2>2. \A q \in workerTasks : q[1] = m.id => q = p
    BY <1>3, <2>1 DEF TasksAreCalls
  <2> QED BY <1>1, <2>1, <2>2 DEF OnePlacePerCall
<1>6. /\ Carried(toParent)' = Carried(toParent') /\ (CarriesOnce(toParent)' <=> CarriesOnce(toParent'))
      /\ Carried(toWorker)' = Carried(toWorker) /\ (CarriesOnce(toWorker)' <=> CarriesOnce(toWorker))
      /\ Range(thens)' = Range(thens) /\ Executed' = Executed
  BY <1>1 DEF Carried, CarriesOnce, InChannel, Range, Executed
<1> HIDE DEF p, m
<1> QED BY <1>1, <1>2, <1>3, <1>4, <1>5, <1>6 DEF OnePlacePerCall

LEMMA PlacesStep == TypeOK /\ TasksAreCalls /\ OnePlacePerCall /\ [Next]_vars => OnePlacePerCall'
<1> SUFFICES ASSUME TypeOK, TasksAreCalls, OnePlacePerCall, [Next]_vars PROVE OnePlacePerCall'
  OBVIOUS
<1> USE DEF parentVars, workerVars
<1>1. CASE \E c \in Calls : Forward(c)
  BY <1>1, ForwardPlaces
<1>2. CASE RunThen
  BY <1>2, RunThenPlaces
<1>3. CASE HandleMessage
  BY <1>3, HandlePlaces
<1>4. CASE \E m \in executing : CallEnds(m)
  BY <1>4, CallEndsPlaces
<1>5. CASE OnReply("CallResult", "result") \/ OnReply("CallRejection", "rejected")
  BY <1>5, ReplyPlaces
<1>6. \A kind : [kind |-> kind].kind = kind
  OBVIOUS
<1>7. CASE Dispose
  <2>1. toWorker' = toWorker \/ toWorker' = Append(toWorker, [kind |-> "Dispose"])
    BY <1>7, DisposeProxyFacts DEF Dispose
  <2>2. UNCHANGED <<workerTasks, thens, executing, toParent>>
    BY <1>7 DEF Dispose
  <2> QED BY <1>6, <2>1, <2>2, Messages, OtherMessages DEF CallKinds, Executed
<1>8. CASE OnReady
  <2>1. toWorker' = toWorker \/ toWorker' = Append(toWorker, [kind |-> "Init"])
    BY <1>8, Messages, SendFacts DEF OnReady
  <2>2. /\ UNCHANGED <<workerTasks, thens, executing>>
        /\ toParent # << >> /\ Head(toParent).kind = "Ready" /\ toParent' = Tail(toParent)
    BY <1>8 DEF OnReady, Receive
  <2> QED BY <1>6, <2>1, <2>2, Messages, OtherMessages DEF CallKinds, Executed
<1>9. CASE OnInitError
  <2>1. toWorker' = toWorker \/ toWorker' = Append(toWorker, [kind |-> "Dispose"])
    BY <1>9, DisposeProxyFacts DEF OnInitError
  <2>2. /\ UNCHANGED <<workerTasks, thens, executing>>
        /\ toParent # << >> /\ Head(toParent).kind = "InitError" /\ toParent' = Tail(toParent)
    BY <1>9 DEF OnInitError, ReportError, Receive
  <2> QED BY <1>6, <2>1, <2>2, Messages, OtherMessages DEF CallKinds, Executed
<1>10. CASE OnInitialized \/ OnDisposeCompleted
  <2>1. /\ UNCHANGED <<workerTasks, thens, executing, toWorker>>
        /\ toParent # << >> /\ Head(toParent).kind \notin CallKinds /\ toParent' = Tail(toParent)
    BY <1>10 DEF OnInitialized, OnDisposeCompleted, Receive, CallKinds
  <2> QED BY <2>1, OtherMessages DEF Executed
<1>11. CASE Boot \/ InitEnds \/ ShutdownEnds
  <2>1. /\ UNCHANGED <<workerTasks, thens, executing, toWorker>>
        /\ \E kind \in {"Ready", "Initialized", "InitError", "DisposeCompleted"} :
              toParent' = Append(toParent, [kind |-> kind])
    BY <1>11 DEF Boot, InitEnds, ShutdownEnds
  <2> QED BY <1>6, <2>1, Messages, OtherMessages DEF CallKinds, Executed
<1>12. CASE Kill \/ Crash \/ SpawnFails
  <2>1. UNCHANGED <<workerTasks, thens, toParent>> /\ toWorker' = << >> /\ executing' \subseteq executing
    BY <1>12 DEF Kill, Crash, SpawnFails
  <2> QED BY <2>1, OtherMessages DEF Executed
<1>13. CASE DisposeExpires \/ HandleUnexpectedExit \/ HandleError \/ Hang \/ UNCHANGED vars
  <2>1. UNCHANGED <<workerTasks, thens, toParent, toWorker, executing>>
    BY <1>13 DEF DisposeExpires, HandleUnexpectedExit, HandleError, ReportError, Hang, vars
  <2> QED BY <2>1, OtherMessages DEF Executed
<1> QED BY <1>1, <1>2, <1>3, <1>4, <1>5, <1>7, <1>8, <1>9, <1>10, <1>11, <1>12, <1>13
        DEF Next, ParentStep, WorkerStep
-----------------------------------------------------------------------------
(* What becomes of a call *)

\* What a step may do to a call: a settled one stays as it is, an open one may
\* settle, with a result only when the head of the channel answers its task, and
\* a new one is accepted only while there is no fatal error.
LEMMA OutcomeStep ==
    ASSUME TypeOK, [Next]_vars, NEW c \in Calls
    PROVE  \/ outcome'[c] = outcome[c] /\ answer'[c] = answer[c]
           \/ /\ outcome[c] \in {"unmade", "pending"}
              /\ outcome'[c] # "result" /\ answer'[c] = answer[c]
              /\ outcome'[c] = "pending" => fatalError = "none" /\ fatalError' = "none"
           \/ /\ Pending(c) /\ outcome'[c] \in {"result", "rejected"}
              /\ toParent # << >> /\ Head(toParent).kind \in CallKinds
              /\ answer'[c] = {Head(toParent).call}
              /\ \E p \in workerTasks : p[1] = Head(toParent).id /\ p[2] = c
<1> USE DEF parentVars, workerVars
<1> DEFINE Kept == outcome'[c] = outcome[c] /\ answer'[c] = answer[c]
           Moved == /\ outcome[c] \in {"unmade", "pending"}
                    /\ outcome'[c] # "result" /\ answer'[c] = answer[c]
                    /\ outcome'[c] = "pending" => fatalError = "none" /\ fatalError' = "none"
<1>1. ASSUME NEW d \in Calls, Forward(d) PROVE Kept \/ Moved
  <2>1. CASE d = c
    <3>1. /\ outcome[c] = "unmade" /\ answer' = answer /\ fatalError' = fatalError
          /\ outcome' \in {[outcome EXCEPT ![c] = e] : e \in {fatalError, "pending"}}
          /\ outcome' = [outcome EXCEPT ![c] = "pending"] => fatalError = "none"
                \/ outcome' = [outcome EXCEPT ![c] = fatalError]
      BY <1>1, <2>1 DEF Forward
    <3>2. \A e : [outcome EXCEPT ![c] = e][c] = e
      BY DEF TypeOK
    <3>3. fatalError # "result" /\ fatalError # "pending"
      BY DEF TypeOK, Errors
    <3> QED BY <3>1, <3>2, <3>3
  <2>2. CASE d # c
    BY <1>1, <2>2 DEF Forward, TypeOK
  <2> QED BY <2>1, <2>2
<1>2. ASSUME NEW error \in Errors, ReportError(error), answer' = answer PROVE Kept \/ Moved
  <2>1. outcome'[c] = outcome[c] \/ (outcome'[c] = error /\ Pending(c))
    BY <1>2, ReportErrorFacts
  <2> QED BY <1>2, <2>1 DEF Errors, Pending
<1>3. CASE RunThen
  <2>1. CASE outcome' = outcome
    BY <1>3, <2>1 DEF RunThen
  <2>2. CASE initTask # "resolved" /\ Settle({Head(thens)[2]}, initTask)
    <3>1. initTask \in Errors
      BY <1>3, <2>2 DEF RunThen, TypeOK
    <3>2. outcome'[c] = outcome[c] \/ (outcome'[c] = initTask /\ Pending(c))
      BY <2>2, <3>1, SettleFacts
    <3> QED BY <1>3, <3>1, <3>2 DEF RunThen, Errors, Pending
  <2> QED BY <1>3, <2>1, <2>2 DEF RunThen
<1>4. ASSUME NEW kind \in {"CallResult", "CallRejection"}, NEW how \in {"result", "rejected"}, OnReply(kind, how)
      PROVE  \/ Kept
             \/ /\ Pending(c) /\ outcome'[c] \in {"result", "rejected"}
                /\ toParent # << >> /\ Head(toParent).kind \in CallKinds
                /\ answer'[c] = {Head(toParent).call}
                /\ \E p \in workerTasks : p[1] = Head(toParent).id /\ p[2] = c
  <2> DEFINE m == Head(toParent)
             calls == {p[2] : p \in {q \in workerTasks : q[1] = m.id}}
  <2>1. /\ toParent # << >> /\ m.kind \in CallKinds /\ Settle(calls, how)
        /\ answer'[c] = IF c \in calls /\ Pending(c) THEN {m.call} ELSE answer[c]
    BY <1>4 DEF OnReply, Receive, CallKinds
  <2>2. outcome'[c] = IF c \in calls /\ Pending(c) THEN how ELSE outcome[c]
    BY <2>1, SettleFacts
  <2>3. c \in calls => \E p \in workerTasks : p[1] = m.id /\ p[2] = c
    OBVIOUS
  <2> HIDE DEF m, calls
  <2>4. CASE c \in calls /\ Pending(c)
    BY <2>1, <2>2, <2>3, <2>4 DEF m
  <2>5. CASE ~(c \in calls /\ Pending(c))
    BY <2>1, <2>2, <2>5
  <2> QED BY <2>4, <2>5
<1>5. CASE OnInitError
  BY <1>2, <1>5 DEF OnInitError, Errors
<1>6. CASE HandleUnexpectedExit
  BY <1>2, <1>6 DEF HandleUnexpectedExit, Errors
<1>7. CASE HandleError
  <2>1. errorEvent \in Errors
    BY <1>7 DEF HandleError, TypeOK, Errors
  <2> QED BY <1>2, <1>7, <2>1 DEF HandleError
<1>8. CASE \/ Dispose \/ DisposeExpires \/ Kill \/ OnReady \/ OnInitialized \/ OnDisposeCompleted
           \/ WorkerStep \/ Hang \/ Crash \/ SpawnFails \/ UNCHANGED vars
  BY <1>8 DEF Dispose, DisposeExpires, Kill, OnReady, OnInitialized, OnDisposeCompleted, Receive,
              WorkerStep, Boot, HandleMessage, InitEnds, ShutdownEnds, CallEnds,
              Hang, Crash, SpawnFails, vars
<1> QED BY <1>1, <1>3, <1>4, <1>5, <1>6, <1>7, <1>8 DEF Next, ParentStep

\* A result is that of the call: the answer and the task have the same id.
LEMMA AnswersStep ==
    TypeOK /\ TasksAreCalls /\ OnePlacePerCall /\ AnswersMatch /\ [Next]_vars => AnswersMatch'
<1> SUFFICES ASSUME TypeOK, TasksAreCalls, OnePlacePerCall, AnswersMatch, [Next]_vars,
                    NEW c \in Calls, outcome'[c] = "result"
             PROVE  answer'[c] = {c}
  BY DEF AnswersMatch
<1>1. CASE outcome[c] = "result" /\ answer'[c] = answer[c]
  BY <1>1 DEF AnswersMatch
<1>2. CASE /\ toParent # << >> /\ Head(toParent).kind \in CallKinds
           /\ answer'[c] = {Head(toParent).call}
           /\ \E p \in workerTasks : p[1] = Head(toParent).id /\ p[2] = c
  <2> DEFINE m == Head(toParent)
  <2>1. toParent \in Seq(ParentMessages) /\ CarriesOnce(toParent)
    BY DEF TypeOK, OnePlacePerCall
  <2>2. <<m.id, m.call>> \in workerTasks
    <3>1. m \in Range(toParent)
      BY <1>2, <2>1 DEF Range
    <3>2. <<m.id, m.call>> \in Carried(toParent)
      BY <1>2, <3>1 DEF Carried, InChannel
    <3> QED BY <3>2 DEF OnePlacePerCall
  <2>3. PICK p \in workerTasks : p[1] = m.id /\ p[2] = c
    BY <1>2
  <2>4. p = <<m.id, m.call>>
    BY <2>2, <2>3 DEF TasksAreCalls
  <2> QED BY <1>2, <2>3, <2>4
<1> QED BY <1>1, <1>2, OutcomeStep
-----------------------------------------------------------------------------
(* The end of the proxy *)

LEMMA EndStep ==
    ASSUME TypeOK, TasksAreCalls, OneEnd, FatalErrors, [Next]_vars
    PROVE  OneEnd' /\ FatalErrors'
<1> USE DEF parentVars, workerVars
<1>1. CASE fatalError' = fatalError
  <2>1. FatalSettlesAll'
    <3>1. \A c \in Calls : Pending(c)' => Pending(c) \/ fatalError = "none"
      BY OutcomeStep DEF Pending
    <3> QED BY <1>1, <3>1 DEF FatalErrors, FatalSettlesAll
  <2>2. CASE Dispose
    <3>1. ~isDisposed /\ listening' = FALSE /\ isDisposed' = TRUE /\ disposeTask' = "pending"
      BY <2>2, DisposeProxyFacts DEF Dispose
    <3> QED BY <1>1, <2>1, <3>1 DEF OneEnd, FatalErrors, NoFalseAlarm
  <2>3. CASE OnInitError
    <3>1. /\ isDisposed' = TRUE /\ fatalError' # "crashed"
          /\ \/ UNCHANGED <<listening, disposeTask>>
             \/ listening' = FALSE
      BY <2>3, DisposeProxyFacts DEF OnInitError
    <3> QED BY <2>1, <3>1 DEF OneEnd, FatalErrors, NoFalseAlarm
  <2>4. CASE HandleUnexpectedExit
    <3>1. listening /\ listening' = FALSE /\ isDisposed' = TRUE /\ disposeTask' = disposeTask
      BY <2>4 DEF HandleUnexpectedExit
    <3> QED BY <1>1, <2>1, <3>1 DEF OneEnd, FatalErrors, NoFalseAlarm
  <2>5. ASSUME UNCHANGED <<listening, isDisposed>>, disposeTask' # "none" => disposeTask # "none"
        PROVE  OneEnd' /\ FatalErrors'
    BY <1>1, <2>1, <2>5 DEF OneEnd, FatalErrors, NoFalseAlarm
  <2>6. CASE \/ \E c \in Calls : Forward(c)
             \/ RunThen \/ DisposeExpires \/ Kill \/ OnReady \/ OnInitialized \/ OnDisposeCompleted
             \/ OnReply("CallResult", "result") \/ OnReply("CallRejection", "rejected")
             \/ HandleError \/ WorkerStep \/ Hang \/ Crash \/ SpawnFails \/ UNCHANGED vars
    BY <2>5, <2>6 DEF Forward, RunThen, DisposeExpires, Kill, OnReady, OnInitialized, OnDisposeCompleted,
                      OnReply, HandleError, WorkerStep, Boot, HandleMessage, InitEnds, ShutdownEnds,
                      CallEnds, Hang, Crash, SpawnFails, vars
  <2> QED BY <2>2, <2>3, <2>4, <2>6 DEF Next, ParentStep
<1>2. ASSUME NEW error \in Errors, ReportError(error) PROVE FatalSettlesAll'
  <2>1. \A c \in Calls : \/ outcome'[c] = outcome[c] /\ (Pending(c) => \A p \in workerTasks : p[2] # c)
                         \/ outcome'[c] = error
    BY <1>2, ReportErrorFacts
  <2>2. \A c \in Calls : ~Pending(c)'
    BY <2>1 DEF TasksAreCalls, Pending, Errors
  <2> QED BY <2>2 DEF FatalSettlesAll
<1>3. CASE OnInitError
  <2>1. /\ isDisposed' = TRUE /\ fatalError' = "initError" /\ FatalSettlesAll'
        /\ \/ isDisposed /\ UNCHANGED <<listening, disposeTask>>
           \/ listening' = FALSE
    BY <1>2, <1>3, DisposeProxyFacts DEF OnInitError, Errors
  <2> QED BY <2>1 DEF OneEnd, FatalErrors, NoFalseAlarm
<1>4. CASE HandleUnexpectedExit
  <2>1. /\ listening /\ listening' = FALSE /\ isDisposed' = TRUE /\ disposeTask' = disposeTask
        /\ FatalSettlesAll'
    BY <1>2, <1>4 DEF HandleUnexpectedExit, Errors
  <2> QED BY <2>1 DEF OneEnd, FatalErrors, NoFalseAlarm
<1>5. CASE fatalError' # fatalError
  <2>1. OnInitError \/ HandleUnexpectedExit
    BY <1>5 DEF Next, ParentStep, WorkerStep, Forward, Dispose, RunThen, DisposeExpires, Kill, OnReady,
                OnInitialized, OnDisposeCompleted, OnReply, HandleError, Boot, HandleMessage,
                InitEnds, ShutdownEnds, CallEnds, Hang, Crash, SpawnFails, vars
  <2> QED BY <1>3, <1>4, <2>1
<1> QED BY <1>1, <1>5
-----------------------------------------------------------------------------
(* The start of the worker *)

\* A step that sends none of the messages of the start keeps their order.
LEMMA SameStart ==
    ASSUME StartsOnce, worker' = worker, executing' \subseteq executing,
           initTask' = "resolved" => initTask = "resolved" \/ Holds(toParent, "Initialized"),
           HoldsOnce(toParent', "Ready"), HoldsOnce(toWorker', "Init"),
           \A kind \in {"Ready", "Initialized"} : Holds(toParent', kind) => Holds(toParent, kind),
           \A kind \in {"Init", "Call"} : Holds(toWorker', kind) => Holds(toWorker, kind)
    PROVE  StartsOnce'
<1>1. \A kind : /\ Holds(toParent, kind)' <=> Holds(toParent', kind)
                /\ Holds(toWorker, kind)' <=> Holds(toWorker', kind)
                /\ HoldsOnce(toParent, kind)' <=> HoldsOnce(toParent', kind)
                /\ HoldsOnce(toWorker, kind)' <=> HoldsOnce(toWorker', kind)
  BY DEF Holds, HoldsOnce, InChannel
<1> QED BY <1>1 DEF StartsOnce

\* The channels when at most one message is sent or received that is not of the start.
LEMMA OtherStart ==
    ASSUME TypeOK, StartsOnce, worker' = worker, executing' \subseteq executing,
           initTask' = "resolved" => initTask = "resolved" \/ Holds(toParent, "Initialized"),
           \/ toWorker' = toWorker
           \/ \E m \in WorkerMessages : m.kind = "Dispose" /\ toWorker' = Append(toWorker, m)
           \/ toWorker # << >> /\ toWorker' = Tail(toWorker),
           \/ toParent' = toParent
           \/ \E m \in ParentMessages : m.kind \notin {"Ready", "Initialized"} /\ toParent' = Append(toParent, m)
           \/ toParent # << >> /\ toParent' = Tail(toParent)
    PROVE  StartsOnce'
<1>1. /\ toWorker \in Seq(WorkerMessages) /\ toParent \in Seq(ParentMessages)
      /\ HoldsOnce(toParent, "Ready") /\ HoldsOnce(toWorker, "Init")
  BY DEF TypeOK, StartsOnce
<1>2. /\ HoldsOnce(toWorker', "Init")
      /\ \A kind \in {"Init", "Call"} : Holds(toWorker', kind) => Holds(toWorker, kind)
  <2>1. ASSUME NEW m \in WorkerMessages, m.kind = "Dispose", toWorker' = Append(toWorker, m)
        PROVE  /\ HoldsOnce(toWorker', "Init")
               /\ \A kind \in {"Init", "Call"} : Holds(toWorker', kind) => Holds(toWorker, kind)
    BY <1>1, <2>1, AppendToChannel
  <2>2. ASSUME toWorker # << >>, toWorker' = Tail(toWorker)
        PROVE  /\ HoldsOnce(toWorker', "Init")
               /\ \A kind \in {"Init", "Call"} : Holds(toWorker', kind) => Holds(toWorker, kind)
    BY <1>1, <2>2, TailOfChannel
  <2> QED BY <1>1, <2>1, <2>2
<1>3. /\ HoldsOnce(toParent', "Ready")
      /\ \A kind \in {"Ready", "Initialized"} : Holds(toParent', kind) => Holds(toParent, kind)
  <2>1. ASSUME NEW m \in ParentMessages, m.kind \notin {"Ready", "Initialized"}, toParent' = Append(toParent, m)
        PROVE  /\ HoldsOnce(toParent', "Ready")
               /\ \A kind \in {"Ready", "Initialized"} : Holds(toParent', kind) => Holds(toParent, kind)
    BY <1>1, <2>1, AppendToChannel
  <2>2. ASSUME toParent # << >>, toParent' = Tail(toParent)
        PROVE  /\ HoldsOnce(toParent', "Ready")
               /\ \A kind \in {"Ready", "Initialized"} : Holds(toParent', kind) => Holds(toParent, kind)
    BY <1>1, <2>2, TailOfChannel
  <2> QED BY <1>1, <2>1, <2>2
<1> QED BY <1>2, <1>3, SameStart

\* The main process answers Ready with Init, and has read the only Ready then.
LEMMA OnReadyStarts ==
    ASSUME TypeOK, StartsOnce, OnReady
    PROVE  StartsOnce'
<1> DEFINE m == [kind |-> "Init"]
<1>1. /\ toParent # << >> /\ Head(toParent).kind = "Ready" /\ toParent' = Tail(toParent)
      /\ UNCHANGED <<worker, executing, initTask>> /\ Send(m)
      /\ toParent \in Seq(ParentMessages) /\ toWorker \in Seq(WorkerMessages)
  BY DEF OnReady, Receive, workerVars, TypeOK
<1>2. /\ \A kind : Holds(toParent, kind) <=> Holds(toParent', kind) \/ Head(toParent).kind = kind
      /\ \A kind : HoldsOnce(toParent, kind) =>
                      HoldsOnce(toParent', kind) /\ (Head(toParent).kind = kind => ~Holds(toParent', kind))
  BY <1>1, TailOfChannel
<1>3. /\ ~Holds(toParent', "Ready") /\ Holds(toParent, "Ready") /\ HoldsOnce(toParent', "Ready")
      /\ Holds(toParent', "Initialized") => Holds(toParent, "Initialized")
  BY <1>1, <1>2 DEF StartsOnce
<1>4. worker \in {"up", "dead"} /\ ~Holds(toWorker, "Init")
  BY <1>3 DEF StartsOnce
<1>5. m \in WorkerMessages /\ m.kind = "Init"
  BY Messages
<1>6. CASE toWorker' = toWorker
  BY <1>1, <1>3, <1>6, SameStart DEF StartsOnce
<1>7. CASE worker # "dead" /\ toWorker' = Append(toWorker, m)
  <2> HIDE DEF m
  <2>1. /\ \A kind : Holds(toWorker', kind) <=> Holds(toWorker, kind) \/ m.kind = kind
        /\ \A kind : HoldsOnce(toWorker, kind) /\ (m.kind = kind => ~Holds(toWorker, kind)) => HoldsOnce(toWorker', kind)
    BY <1>1, <1>5, <1>7, AppendToChannel
  <2>2. HoldsOnce(toWorker', "Init") /\ (Holds(toWorker', "Call") => Holds(toWorker, "Call"))
    BY <1>4, <1>5, <2>1 DEF StartsOnce
  <2>3. \A kind : /\ Holds(toParent, kind)' <=> Holds(toParent', kind)
                  /\ Holds(toWorker, kind)' <=> Holds(toWorker', kind)
                  /\ HoldsOnce(toParent, kind)' <=> HoldsOnce(toParent', kind)
                  /\ HoldsOnce(toWorker, kind)' <=> HoldsOnce(toWorker', kind)
    BY DEF Holds, HoldsOnce, InChannel
  <2> QED BY <1>1, <1>3, <1>4, <1>7, <2>2, <2>3 DEF StartsOnce
<1> QED BY <1>1, <1>5, <1>6, <1>7, SendFacts

\* A call is sent after initTask has resolved.
LEMMA RunThenStarts ==
    ASSUME TypeOK, StartsOnce, RunThen
    PROVE  StartsOnce'
<1> DEFINE m == [kind |-> "Call", id |-> Head(thens)[1], call |-> Head(thens)[2]]
<1>1. /\ UNCHANGED <<worker, executing, initTask, toParent>>
      /\ toWorker' = toWorker \/ (initTask = "resolved" /\ Send(m))
      /\ thens # << >> /\ thens \in Seq(Ids \X Calls) /\ toWorker \in Seq(WorkerMessages)
  BY DEF RunThen, workerVars, TypeOK
<1>2. m \in WorkerMessages /\ m.kind = "Call"
  <2>1. Head(thens) \in Ids \X Calls
    BY <1>1, TypeOfTail
  <2> QED BY <2>1, Messages
<1>3. CASE toWorker' = toWorker
  BY <1>1, <1>3, OtherStart
<1>4. CASE initTask = "resolved" /\ worker # "dead" /\ toWorker' = Append(toWorker, m)
  <2> HIDE DEF m
  <2>1. /\ \A kind : Holds(toWorker', kind) <=> Holds(toWorker, kind) \/ m.kind = kind
        /\ \A kind : HoldsOnce(toWorker, kind) /\ (m.kind = kind => ~Holds(toWorker, kind)) => HoldsOnce(toWorker', kind)
    BY <1>1, <1>2, <1>4, AppendToChannel
  <2>2. HoldsOnce(toWorker', "Init") /\ (Holds(toWorker', "Init") => Holds(toWorker, "Init"))
    BY <1>2, <2>1 DEF StartsOnce
  <2>3. \A kind : /\ Holds(toParent, kind)' <=> Holds(toParent, kind)
                  /\ Holds(toWorker, kind)' <=> Holds(toWorker', kind)
                  /\ HoldsOnce(toParent, kind)' <=> HoldsOnce(toParent, kind)
                  /\ HoldsOnce(toWorker, kind)' <=> HoldsOnce(toWorker', kind)
    BY <1>1 DEF Holds, HoldsOnce, InChannel
  <2> QED BY <1>1, <1>4, <2>2, <2>3 DEF StartsOnce
<1> QED BY <1>1, <1>2, <1>3, <1>4, SendFacts

\* The worker takes the init message, a call, or a dispose message.
LEMMA HandleStarts ==
    ASSUME TypeOK, StartsOnce, HandleMessage
    PROVE  StartsOnce'
<1> DEFINE m == Head(toWorker)
<1>1. /\ toWorker # << >> /\ toWorker' = Tail(toWorker) /\ worker # "hung" /\ initTask' = initTask
      /\ \/ m.kind = "Init" /\ worker' = "initializing" /\ UNCHANGED <<executing, toParent>>
         \/ m.kind = "Call" /\ worker = "ready" /\ executing' = executing \cup {m} /\ UNCHANGED <<worker, toParent>>
         \/ m.kind = "Call" /\ worker # "ready"
         \/ m.kind = "Dispose" /\ UNCHANGED <<worker, executing, toParent>>
      /\ toWorker \in Seq(WorkerMessages)
  BY DEF HandleMessage, Running, parentVars, workerVars, TypeOK
<1>2. /\ \A kind : Holds(toWorker, kind) <=> Holds(toWorker', kind) \/ m.kind = kind
      /\ \A kind : HoldsOnce(toWorker, kind) =>
                      HoldsOnce(toWorker', kind) /\ (m.kind = kind => ~Holds(toWorker', kind))
  BY <1>1, TailOfChannel
<1>3. \A kind : /\ Holds(toParent, kind)' <=> Holds(toParent', kind)
                /\ Holds(toWorker, kind)' <=> Holds(toWorker', kind)
                /\ HoldsOnce(toParent, kind)' <=> HoldsOnce(toParent', kind)
                /\ HoldsOnce(toWorker, kind)' <=> HoldsOnce(toWorker', kind)
  BY DEF Holds, HoldsOnce, InChannel
<1> HIDE DEF m
<1>4. CASE m.kind = "Init" /\ worker' = "initializing" /\ UNCHANGED <<executing, toParent>>
  <2>1. Holds(toWorker, "Init") /\ ~Holds(toWorker', "Init") /\ HoldsOnce(toWorker', "Init")
        /\ (Holds(toWorker', "Call") => Holds(toWorker, "Call"))
    BY <1>2, <1>4 DEF StartsOnce
  <2>2. worker = "up" /\ ~Holds(toWorker, "Call") /\ executing = {} /\ ~Holds(toParent, "Ready")
        /\ ~Holds(toParent, "Initialized") /\ initTask # "resolved"
    BY <2>1 DEF StartsOnce
  <2> QED BY <1>1, <1>3, <1>4, <2>1, <2>2 DEF StartsOnce
<1>5. CASE m.kind = "Call" /\ worker = "ready" /\ executing' = executing \cup {m} /\ UNCHANGED <<worker, toParent>>
  <2>1. HoldsOnce(toWorker', "Init") /\ (Holds(toWorker', "Init") => Holds(toWorker, "Init"))
    BY <1>2 DEF StartsOnce
  <2> QED BY <1>1, <1>3, <1>5, <2>1 DEF StartsOnce
<1>6. CASE m.kind = "Call" /\ worker # "ready"
  <2>1. Holds(toWorker, "Call")
    BY <1>2, <1>6
  <2> QED BY <1>1, <1>6, <2>1 DEF StartsOnce
<1>7. CASE m.kind = "Dispose" /\ UNCHANGED <<worker, executing, toParent>>
  BY <1>1, <1>7, OtherStart
<1> QED BY <1>1, <1>4, <1>5, <1>6, <1>7

\* The worker tells that it listens, and later that it is ready.
LEMMA WorkerStarts ==
    ASSUME TypeOK, StartsOnce, Boot \/ InitEnds
    PROVE  StartsOnce'
<1>1. PICK kind \in {"Ready", "Initialized", "InitError"} :
         /\ toParent' = Append(toParent, [kind |-> kind]) /\ UNCHANGED <<toWorker, executing, initTask>>
         /\ \/ kind = "Ready" /\ worker = "booting" /\ worker' = "up"
            \/ kind = "Initialized" /\ worker = "initializing" /\ worker' = "ready"
            \/ kind = "InitError" /\ worker = "initializing" /\ worker' = "initFailed"
  BY DEF Boot, InitEnds, parentVars
<1> DEFINE m == [kind |-> kind]
<1>2. m \in ParentMessages /\ m.kind = kind /\ toParent \in Seq(ParentMessages) /\ toParent' = Append(toParent, m)
  BY <1>1, Messages DEF TypeOK
<1> HIDE DEF m
<1>3. /\ \A k : Holds(toParent', k) <=> Holds(toParent, k) \/ m.kind = k
      /\ \A k : HoldsOnce(toParent, k) /\ (m.kind = k => ~Holds(toParent, k)) => HoldsOnce(toParent', k)
  BY <1>2, AppendToChannel
<1>4. ~Holds(toParent, "Ready") /\ ~Holds(toWorker, "Init") /\ ~Holds(toWorker, "Call")
      /\ executing = {} /\ ~Holds(toParent, "Initialized") /\ initTask # "resolved"
  BY <1>1 DEF StartsOnce
<1>5. \A k : /\ Holds(toParent, k)' <=> Holds(toParent', k)
             /\ Holds(toWorker, k)' <=> Holds(toWorker, k)
             /\ HoldsOnce(toParent, k)' <=> HoldsOnce(toParent', k)
             /\ HoldsOnce(toWorker, k)' <=> HoldsOnce(toWorker, k)
  BY <1>1 DEF Holds, HoldsOnce, InChannel
<1>6. HoldsOnce(toParent', "Ready") /\ (Holds(toParent', "Ready") <=> kind = "Ready")
      /\ (Holds(toParent', "Initialized") <=> kind = "Initialized")
  BY <1>2, <1>3, <1>4 DEF StartsOnce
<1> QED BY <1>1, <1>4, <1>5, <1>6 DEF StartsOnce

\* A worker that has ended takes no message any more.
LEMMA EndedStarts ==
    ASSUME StartsOnce, worker' = "dead", toWorker' = << >>, executing' = {}, UNCHANGED <<toParent, initTask>>
    PROVE  StartsOnce'
<1>1. \A k : /\ Holds(toParent, k)' <=> Holds(toParent, k)
             /\ Holds(toWorker, k)' <=> Holds(toWorker', k)
             /\ HoldsOnce(toParent, k)' <=> HoldsOnce(toParent, k)
             /\ HoldsOnce(toWorker, k)' <=> HoldsOnce(toWorker', k)
  BY DEF Holds, HoldsOnce, InChannel
<1>2. \A k : ~Holds(toWorker', k) /\ HoldsOnce(toWorker', k)
  BY EmptyChannel
<1> QED BY <1>1, <1>2 DEF StartsOnce

LEMMA StartStep == TypeOK /\ StartsOnce /\ [Next]_vars => StartsOnce'
<1> SUFFICES ASSUME TypeOK, StartsOnce, [Next]_vars PROVE StartsOnce'
  OBVIOUS
<1> USE DEF parentVars, workerVars
<1>1. CASE OnReady
  BY <1>1, OnReadyStarts
<1>2. CASE RunThen
  BY <1>2, RunThenStarts
<1>3. CASE HandleMessage
  BY <1>3, HandleStarts
<1>4. CASE Boot \/ InitEnds
  BY <1>4, WorkerStarts
<1>5. CASE Kill \/ Crash \/ SpawnFails
  <2>1. worker = "booting" => executing = {}
    BY DEF StartsOnce
  <2> QED BY <1>5, <2>1, EndedStarts DEF Kill, Crash, SpawnFails
<1>6. CASE Hang
  <2>1. \A k : /\ Holds(toParent, k)' <=> Holds(toParent, k)
               /\ Holds(toWorker, k)' <=> Holds(toWorker, k)
               /\ HoldsOnce(toParent, k)' <=> HoldsOnce(toParent, k)
               /\ HoldsOnce(toWorker, k)' <=> HoldsOnce(toWorker, k)
    BY <1>6 DEF Hang, Holds, HoldsOnce, InChannel
  <2> QED BY <1>6, <2>1 DEF Hang, Running, StartsOnce
<1>7. CASE Dispose
  <2>1. toWorker' = toWorker \/ toWorker' = Append(toWorker, [kind |-> "Dispose"])
    BY <1>7, DisposeProxyFacts DEF Dispose
  <2>2. UNCHANGED <<worker, executing, initTask, toParent>>
    BY <1>7 DEF Dispose
  <2> QED BY <2>1, <2>2, Messages, OtherStart
<1>8. CASE OnInitError
  <2>1. toWorker' = toWorker \/ toWorker' = Append(toWorker, [kind |-> "Dispose"])
    BY <1>8, DisposeProxyFacts DEF OnInitError
  <2>2. /\ UNCHANGED <<worker, executing>> /\ (initTask' = "resolved" <=> initTask = "resolved")
        /\ toParent # << >> /\ toParent' = Tail(toParent)
    BY <1>8, ReportErrorFacts DEF OnInitError, Receive, Errors
  <2> QED BY <2>1, <2>2, Messages, OtherStart
<1>9. CASE OnInitialized
  <2>1. /\ UNCHANGED <<worker, executing, toWorker>> /\ toParent # << >> /\ toParent' = Tail(toParent)
        /\ Head(toParent).kind = "Initialized" /\ toParent \in Seq(ParentMessages)
    BY <1>9 DEF OnInitialized, Receive, TypeOK
  <2>2. Holds(toParent, "Initialized")
    BY <2>1 DEF Holds, InChannel, Range
  <2> QED BY <2>1, <2>2, OtherStart
<1>10. CASE OnDisposeCompleted \/ OnReply("CallResult", "result") \/ OnReply("CallRejection", "rejected")
  <2>1. /\ UNCHANGED <<worker, executing, toWorker, initTask>> /\ toParent # << >> /\ toParent' = Tail(toParent)
    BY <1>10 DEF OnDisposeCompleted, OnReply, Receive
  <2> QED BY <2>1, OtherStart
<1>11. CASE HandleUnexpectedExit \/ HandleError
  <2>1. PICK error \in Errors : ReportError(error)
    BY <1>11 DEF HandleUnexpectedExit, HandleError, TypeOK, Errors
  <2>2. initTask' = "resolved" <=> initTask = "resolved"
    BY <2>1, ReportErrorFacts
  <2>3. UNCHANGED <<worker, executing, toWorker, toParent>>
    BY <1>11 DEF HandleUnexpectedExit, HandleError
  <2> QED BY <2>2, <2>3, OtherStart
<1>12. CASE ShutdownEnds
  <2>1. toParent' = Append(toParent, [kind |-> "DisposeCompleted"]) /\ UNCHANGED <<worker, executing, toWorker, initTask>>
    BY <1>12 DEF ShutdownEnds
  <2> QED BY <2>1, Messages, OtherStart
<1>13. ASSUME NEW m \in executing, CallEnds(m) PROVE StartsOnce'
  <2>1. m \in CallMessages
    BY DEF TypeOK
  <2>2. \E r \in ParentMessages : r.kind \notin {"Ready", "Initialized"} /\ toParent' = Append(toParent, r)
    BY <1>13, <2>1, Answers DEF CallEnds
  <2>3. UNCHANGED <<worker, toWorker, initTask>> /\ executing' \subseteq executing
    BY <1>13 DEF CallEnds
  <2> QED BY <2>2, <2>3, OtherStart
<1>14. CASE (\E c \in Calls : Forward(c)) \/ DisposeExpires \/ UNCHANGED vars
  <2>1. UNCHANGED <<worker, executing, toWorker, initTask, toParent>>
    BY <1>14 DEF Forward, DisposeExpires, vars
  <2> QED BY <2>1, OtherStart
<1> QED BY <1>1, <1>2, <1>3, <1>4, <1>5, <1>6, <1>7, <1>8, <1>9, <1>10, <1>11, <1>12, <1>13, <1>14
        DEF Next, ParentStep, WorkerStep
-----------------------------------------------------------------------------
(* Theorems *)

LEMMA InitIInv == Init => IInv
<1> SUFFICES ASSUME Init PROVE IInv
  OBVIOUS
<1>1. toWorker = << >> /\ toParent = << >> /\ thens = << >> /\ workerTasks = {} /\ executing = {}
  BY DEF Init
<1>2. /\ toWorker \in Seq(WorkerMessages) /\ toParent \in Seq(ParentMessages)
      /\ thens \in Seq(Ids \X Calls)
  BY <1>1
<1>3. TypeOK
  BY <1>2 DEF Init, TypeOK
<1>4. TasksAreCalls /\ AnswersMatch /\ OneEnd /\ FatalErrors
  BY DEF Init, TasksAreCalls, AnswersMatch, OneEnd, FatalErrors, FatalSettlesAll, NoFalseAlarm, Pending
<1>5. /\ Carried(toWorker) = {} /\ CarriesOnce(toWorker) /\ Carried(toParent) = {} /\ CarriesOnce(toParent)
      /\ \A kind : /\ ~Holds(toWorker, kind) /\ HoldsOnce(toWorker, kind)
                   /\ ~Holds(toParent, kind) /\ HoldsOnce(toParent, kind)
  BY <1>1, EmptyChannel
<1>6. OnePlacePerCall
  <2>1. Range(thens) = {} /\ Executed = {} /\ DOMAIN thens = {}
    BY <1>1 DEF Range, Executed
  <2> QED BY <1>5, <2>1 DEF OnePlacePerCall
<1>7. StartsOnce
  BY <1>5 DEF Init, StartsOnce
<1> QED BY <1>3, <1>4, <1>6, <1>7 DEF IInv

\* The inductive invariant of the proxy and its worker, whichever of them stops.
THEOREM ProxyInvariant == Spec => []IInv
<1>1. IInv /\ [Next]_vars => IInv'
  BY TypeStep, TasksStep, PlacesStep, AnswersStep, StartStep, EndStep DEF IInv
<1> QED BY InitIInv, <1>1, PTL DEF Spec

\* Replies find the call they belong to and no other, in whatever order the
\* worker answers and whoever stops: the lookup in workerTasks never misses.
THEOREM ProxyRepliesMatch == Spec => []RepliesMatch
<1>1. IInv => RepliesMatch
  <2> SUFFICES ASSUME IInv PROVE RepliesAreExpected
    BY DEF IInv, RepliesMatch
  <2>1. \A m \in InChannel(toParent, {"CallResult", "CallRejection"}) : <<m.id, m.call>> \in Carried(toParent)
    BY DEF Carried, InChannel, CallKinds
  <2>2. Carried(toParent) \subseteq workerTasks /\ CarriesOnce(toParent)
    BY DEF IInv, OnePlacePerCall
  <2> QED BY <2>1, <2>2 DEF RepliesAreExpected, CarriesOnce, CallKinds
<1> QED BY ProxyInvariant, <1>1, PTL

\* The worker gets the init message when it listens and the calls when it is
\* initialised, although calls may be made right after the fork.
THEOREM ProxyWorkerIsReady == Spec => []WorkerIsReady
<1>1. IInv => WorkerIsReady
  BY DEF IInv, StartsOnce, Holds, WorkerIsReady, NoCallBeforeInit, InitAfterReady
<1> QED BY ProxyInvariant, <1>1, PTL

\* A fatal error is a real one, and no call stays open after it.
THEOREM ProxyFatalErrors == Spec => []FatalErrors
<1>1. IInv => FatalErrors
  BY DEF IInv
<1> QED BY ProxyInvariant, <1>1, PTL

\* A call settles once: a late reply, an exit or a channel error changes nothing.
THEOREM ProxySettlesOnce == Spec => SettlesOnce
<1>1. TypeOK /\ [Next]_vars =>
         [\A c \in Calls : outcome[c] \notin {"unmade", "pending"} =>
             outcome'[c] = outcome[c] /\ answer'[c] = answer[c]]_vars
  BY OutcomeStep DEF Pending
<1>2. IInv => TypeOK
  BY DEF IInv
<1> QED BY ProxyInvariant, <1>1, <1>2, PTL DEF Spec, SettlesOnce
=============================================================================
