--------------------------- MODULE RexxServerProofs ---------------------------
(***************************************************************************)
(* Safety of ResidentView --serve for any number of copies and of clients, *)
(* and for queues of any length.                                           *)
(***************************************************************************)
EXTENDS RexxServer, FiniteSetTheorems, TLAPS

Early == {"start", "open", "find", "create", "add"}
Serving == {"wait", "drain", "serve", "close"}

(* What a copy holds is told by where it is. *)
Holding(place) ==
  IF place \in {"start", "exit"} THEN {}
  ELSE IF place = "open" THEN {"memory"}
  ELSE IF place \in {"find", "create"} THEN {"memory", "library"}
  ELSE {"memory", "library", "port"}
HoldsByPlace == \A s \in Server : held[s] = Holding(pc[s])

(* A copy's port is in PortList, once, exactly while it serves. *)
PublicOnce == \A i, j \in DOMAIN ports : ports[i] = ports[j] => i = j
PublicWhileServing ==
  \A s \in Server : pc[s] \in Serving <=> \E i \in DOMAIN ports : ports[i] = s

(* Before the port is public nobody can have sent anything, and a copy     *)
(* that was told to quit never waits again.                                *)
Untouched == \A s \in Server : pc[s] \in Early => queue[s] = << >> /\ ~ quitting[s]
QuitDoesNotWait == \A s \in Server : pc[s] = "wait" => ~ quitting[s]

(* A message in a queue is there once, in nobody's hands and unanswered;   *)
(* one that is served is in one copy's hands and unanswered.               *)
Open(m) == request[m] # Idle /\ reply[m] = NoReply
QueuedOnce ==
  \A s, t \in Server : \A i \in DOMAIN queue[s], j \in DOMAIN queue[t] :
    queue[s][i] = queue[t][j] => s = t /\ i = j
QueuedOpen ==
  \A s \in Server : \A i \in DOMAIN queue[s] :
    Open(queue[s][i]) /\ \A t \in Server : msg[t] # queue[s][i]
ServedOpen ==
  \A s \in Server :
    /\ (msg[s] # None) <=> (pc[s] = "serve")
    /\ msg[s] # None => Open(msg[s]) /\ (\A t \in Server : msg[t] = msg[s] => t = s)

(* A message that was sent is somewhere, and an answer answers the request.*)
Kept(m) ==
  \/ reply[m] # NoReply
  \/ \E s \in Server : msg[s] = m
  \/ \E s \in Server : \E i \in DOMAIN queue[s] : queue[s][i] = m
SentIsKept == \A m \in Message : request[m] # Idle => Kept(m)
AnswerFits ==
  \A m \in Message : reply[m] # NoReply => request[m] # Idle /\ reply[m] \in AnswersTo(m)

Copies == HoldsByPlace /\ PublicOnce /\ PublicWhileServing /\ Untouched /\ QuitDoesNotWait
Messages == QueuedOnce /\ QueuedOpen /\ ServedOpen /\ SentIsKept /\ AnswerFits

IInv == TypeOK /\ Copies /\ Messages /\ NoLostWakeup /\ QuitDrains
-----------------------------------------------------------------------------
(* Whatever a message asks, its answer is one, and is well formed.         *)
LEMMA AnswersAreReplies ==
  ASSUME NEW m \in Message, NEW a \in AnswersTo(m)
  PROVE  a \in Replies /\ a # NoReply
<1> DEFINE Results == {"PONG", "BYE", "text", "error 1", "error 2", "error 3"}
<1>1. ASSUME NEW code \in {0, 5, 10}, NEW result \in Results,
             NEW snap \in Snapshots \union {"none"}, NEW x \in Answers(m, code, result, snap)
      PROVE  x \in Replies /\ x # NoReply
  <2>1. PICK c \in {0, 5, 10, 20}, r \in Results \union {"none"} :
          x = [rc |-> c, result |-> r, snapshot |-> snap]
    BY <1>1 DEF Answers
  <2>2. x.result # NoReply.result
    BY <2>1 DEF NoReply
  <2> QED BY <2>1, <2>2 DEF Replies
<1>2. {"whole", "truncated", "overflow", "none"} = Snapshots \union {"none"}
  BY DEF Snapshots
<1>3. CASE request[m] = "ping"
  BY <1>1, <1>2, <1>3 DEF AnswersTo
<1>4. CASE request[m] = "quit"
  BY <1>1, <1>2, <1>4 DEF AnswersTo
<1>5. CASE request[m] = "list"
  <2>1. \/ a \in Answers(m, 5, "error 2", "overflow")
        \/ a \in Answers(m, 5, "error 3", "truncated")
        \/ a \in Answers(m, 0, "text", "whole")
    BY <1>5 DEF AnswersTo, ListAnswers
  <2> QED BY <1>1, <1>2, <2>1
<1>6. CASE request[m] \notin {"ping", "quit", "list"}
  BY <1>1, <1>2, <1>6 DEF AnswersTo, UnknownAnswers
<1> QED BY <1>3, <1>4, <1>5, <1>6

(* The empty system. *)
LEMMA InitIInv == Init => IInv
<1> SUFFICES ASSUME Init PROVE IInv OBVIOUS
<1> USE NoneAssumption DEF Init
<1>1. TypeOK
  BY DEF TypeOK, Places, Commands, Replies, NoReply, Snapshots
<1>2. Copies /\ NoLostWakeup /\ QuitDrains
  BY DEF Copies, HoldsByPlace, Holding, PublicOnce, PublicWhileServing, Untouched,
         QuitDoesNotWait, Early, Serving, NoLostWakeup, QuitDrains
<1>3. Messages
  BY DEF Messages, QueuedOnce, QueuedOpen, ServedOpen, SentIsKept, AnswerFits
<1> QED BY <1>1, <1>2, <1>3 DEF IInv

(* Steps between the places where no message is in hand leave the messages *)
(* as they are.                                                            *)
LEMMA MessagesUnchanged ==
  ASSUME Messages, UNCHANGED <<queue, msg, request, reply>>,
         \A s \in Server : pc'[s] = "serve" <=> pc[s] = "serve"
  PROVE  Messages'
<1>1. \A m \in Message : AnswersTo(m)' = AnswersTo(m)
  BY DEF AnswersTo, ListAnswers, UnknownAnswers, Answers
<1> QED BY <1>1 DEF Messages, QueuedOnce, QueuedOpen, ServedOpen, SentIsKept, AnswerFits, Kept, Open

(* The steps before a port is public, and the failures among them.         *)
LEMMA OpeningStep ==
  ASSUME IInv, NEW s \in Server,
         Allocate(s) \/ OpenRexx(s) \/ FindPort(s) \/ CreateMsgPort(s)
  PROVE  IInv'
<1>1. PICK p \in Early \union {"exit"} :
        /\ pc' = [pc EXCEPT ![s] = p] /\ held' = [held EXCEPT ![s] = Holding(p)]
        /\ rc' \in [Server -> {0, 20}]
  <2>1. pc[s] \in Places /\ held[s] = Holding(pc[s])
    BY DEF IInv, TypeOK, Copies, HoldsByPlace
  <2>2. held = [held EXCEPT ![s] = held[s]] /\ rc \in [Server -> {0, 20}]
    BY DEF IInv, TypeOK
  <2>3. CASE Allocate(s)
    <3>1. held[s] = {}
      BY <2>1, <2>3 DEF Allocate, Holding
    <3> QED BY <2>2, <2>3, <3>1 DEF Allocate, Go, Hold, Return, Holding, Early
  <2>4. CASE OpenRexx(s)
    <3>1. held[s] = {"memory"}
      BY <2>1, <2>4 DEF OpenRexx, Holding
    <3> QED BY <2>2, <2>4, <3>1 DEF OpenRexx, Go, Hold, Return, Holding, Early
  <2>5. CASE FindPort(s)
    <3>1. held[s] = {"memory", "library"}
      BY <2>1, <2>5 DEF FindPort, Holding
    <3> QED BY <2>2, <2>5, <3>1 DEF FindPort, WithoutPort, Go, Hold, Return, Holding, Early
  <2>6. CASE CreateMsgPort(s)
    <3>1. held[s] = {"memory", "library"}
      BY <2>1, <2>6 DEF CreateMsgPort, Holding
    <3> QED BY <2>2, <2>6, <3>1 DEF CreateMsgPort, WithoutPort, Go, Hold, Return, Holding, Early
  <2> QED BY <2>3, <2>4, <2>5, <2>6
<1>2. /\ UNCHANGED <<ports, queue, signals, msg, quitting, request, reply, late>>
      /\ pc[s] \in Early /\ pc'[s] \in Early \union {"exit"}
      /\ \A t \in Server \ {s} : pc'[t] = pc[t]
  BY <1>1 DEF IInv, TypeOK, Allocate, OpenRexx, FindPort, CreateMsgPort, Early, clientVars
<1>3. TypeOK'
  <2>1. Holding(p) \in SUBSET {"memory", "library", "port"} /\ p \in Places
    BY DEF Holding, Early, Places
  <2> QED BY <1>1, <1>2, <2>1 DEF IInv, TypeOK
<1>4. HoldsByPlace'
  BY <1>1 DEF IInv, TypeOK, Copies, HoldsByPlace
<1>5. Copies'
  BY <1>2, <1>4 DEF IInv, Copies, PublicOnce, PublicWhileServing, Untouched, QuitDoesNotWait,
     Early, Serving
<1>6. Messages'
  BY <1>2, MessagesUnchanged DEF IInv, Early
<1>7. NoLostWakeup' /\ QuitDrains'
  BY <1>2 DEF IInv, NoLostWakeup, QuitDrains, Early, Copies, Untouched
<1> QED BY <1>3, <1>5, <1>6, <1>7 DEF IInv

(* AddPort: the new port is behind the older ones and nobody knew it yet.  *)
LEMMA AddPortStep ==
  ASSUME IInv, NEW s \in Server, AddPort(s)
  PROVE  IInv'
<1>1. TypeOK'
  BY DEF IInv, TypeOK, AddPort, Go, Places, clientVars
<1>2. /\ UNCHANGED <<held, queue, signals, msg, quitting, rc, request, reply, late>>
      /\ pc[s] = "add" /\ pc' = [pc EXCEPT ![s] = "wait"]
      /\ ports' = Append(ports, s) /\ ports \in Seq(Server) /\ pc \in [Server -> Places]
  BY DEF IInv, TypeOK, AddPort, Go, clientVars
<1>3. HoldsByPlace' /\ Untouched' /\ QuitDoesNotWait'
  BY <1>2 DEF IInv, Copies, HoldsByPlace, Holding, Untouched, QuitDoesNotWait, Early
<1>4. \A i \in DOMAIN ports : ports[i] # s
  BY <1>2 DEF IInv, Copies, PublicWhileServing, Serving
<1>5. PublicOnce'
  BY <1>2, <1>4 DEF IInv, Copies, PublicOnce
<1>6. PublicWhileServing'
  <2> SUFFICES ASSUME NEW t \in Server
               PROVE  pc'[t] \in Serving <=> \E i \in DOMAIN ports' : ports'[i] = t
    BY DEF PublicWhileServing
  <2>1. CASE t = s
    <3>1. Len(ports) + 1 \in DOMAIN ports' /\ ports'[Len(ports) + 1] = s
      BY <1>2
    <3> QED BY <2>1, <1>2, <3>1 DEF Serving
  <2>2. CASE t # s
    <3>1. (\E i \in DOMAIN ports' : ports'[i] = t) <=> \E i \in DOMAIN ports : ports[i] = t
      BY <2>2, <1>2
    <3> QED BY <2>2, <1>2, <3>1 DEF IInv, Copies, PublicWhileServing
  <2> QED BY <2>1, <2>2
<1>7. Messages'
  BY <1>2, MessagesUnchanged DEF IInv
<1>8. NoLostWakeup' /\ QuitDrains'
  BY <1>2 DEF IInv, NoLostWakeup, QuitDrains, Early, Copies, Untouched
<1> QED BY <1>1, <1>3, <1>5, <1>6, <1>7, <1>8 DEF IInv, Copies

(* Wait clears the signals of this copy only, and the queue is looked at.  *)
LEMMA WaitStep ==
  ASSUME IInv, NEW s \in Server, Wait(s)
  PROVE  IInv'
<1>1. TypeOK'
  BY DEF IInv, TypeOK, Wait, Go, Places, clientVars
<1>2. PICK p \in {"close", "drain"} :
        /\ pc[s] = "wait" /\ pc' = [pc EXCEPT ![s] = p] /\ pc \in [Server -> Places]
        /\ signals' = [signals EXCEPT ![s] = {}]
        /\ UNCHANGED <<held, ports, queue, msg, quitting, rc, request, reply, late>>
  BY DEF IInv, TypeOK, Wait, Go, clientVars
<1>3. Copies'
  BY <1>2 DEF IInv, Copies, HoldsByPlace, Holding, PublicOnce, PublicWhileServing, Untouched,
     QuitDoesNotWait, Early, Serving
<1>4. Messages'
  BY <1>2, MessagesUnchanged DEF IInv
<1>5. NoLostWakeup' /\ QuitDrains'
  BY <1>2 DEF IInv, TypeOK, NoLostWakeup, QuitDrains, Copies, QuitDoesNotWait
<1> QED BY <1>1, <1>3, <1>4, <1>5 DEF IInv

(* GetMsg: the first message goes from the queue into the copy's hands.    *)
LEMMA GetMsgStep ==
  ASSUME IInv, NEW s \in Server, GetMsg(s)
  PROVE  IInv'
<1> DEFINE m == Head(queue[s])
<1>1. /\ pc[s] = "drain" /\ pc' = [pc EXCEPT ![s] = "serve"] /\ pc \in [Server -> Places]
      /\ queue \in [Server -> Seq(Message)] /\ queue[s] # << >>
      /\ queue' = [queue EXCEPT ![s] = Tail(queue[s])]
      /\ msg' = [msg EXCEPT ![s] = m] /\ msg \in [Server -> Message \union {None}]
      /\ UNCHANGED <<held, ports, signals, quitting, rc, request, reply, late>>
  BY DEF IInv, TypeOK, GetMsg, Unread, Go, clientVars
<1>2. /\ m \in Message /\ m = queue[s][1] /\ 1 \in DOMAIN queue[s]
      /\ Tail(queue[s]) \in Seq(Message)
      /\ \A i \in DOMAIN Tail(queue[s]) : i + 1 \in DOMAIN queue[s]
                                         /\ Tail(queue[s])[i] = queue[s][i + 1]
      /\ \A i \in DOMAIN queue[s] \ {1} : i - 1 \in DOMAIN Tail(queue[s])
                                          /\ queue[s][i] = Tail(queue[s])[i - 1]
  BY <1>1
<1>3. TypeOK'
  BY <1>1, <1>2 DEF IInv, TypeOK, Places
<1>4. Copies'
  BY <1>1 DEF IInv, Copies, HoldsByPlace, Holding, PublicOnce, PublicWhileServing, Untouched,
     QuitDoesNotWait, Early, Serving
<1>5. Open(m) /\ \A t \in Server : msg[t] # m
  BY <1>2 DEF IInv, Messages, QueuedOpen
<1>6. QueuedOnce'
  <2> SUFFICES ASSUME NEW t \in Server, NEW u \in Server,
                      NEW i \in DOMAIN queue'[t], NEW j \in DOMAIN queue'[u],
                      queue'[t][i] = queue'[u][j]
               PROVE  t = u /\ i = j
    BY DEF QueuedOnce
  <2> DEFINE I == IF t = s THEN i + 1 ELSE i
             J == IF u = s THEN j + 1 ELSE j
  <2>1. I \in DOMAIN queue[t] /\ queue[t][I] = queue'[t][i]
    BY <1>1, <1>2
  <2>2. J \in DOMAIN queue[u] /\ queue[u][J] = queue'[u][j]
    BY <1>1, <1>2
  <2>3. t = u /\ I = J
    BY <2>1, <2>2 DEF IInv, Messages, QueuedOnce
  <2>4. i \in Nat /\ j \in Nat
    BY <1>1, <1>2
  <2> QED BY <2>3, <2>4
<1>7. QueuedOpen'
  <2> SUFFICES ASSUME NEW t \in Server, NEW i \in DOMAIN queue'[t]
               PROVE  /\ request'[queue'[t][i]] # Idle /\ reply'[queue'[t][i]] = NoReply
                      /\ \A u \in Server : msg'[u] # queue'[t][i]
    BY DEF QueuedOpen, Open
  <2> DEFINE I == IF t = s THEN i + 1 ELSE i
  <2>1. I \in DOMAIN queue[t] /\ queue[t][I] = queue'[t][i] /\ (t = s => I # 1)
    BY <1>1, <1>2
  <2>2. queue[t][I] # m
    BY <2>1, <1>2 DEF IInv, Messages, QueuedOnce
  <2> QED BY <1>1, <2>1, <2>2 DEF IInv, Messages, QueuedOpen, Open
<1>8. ServedOpen'
  BY <1>1, <1>2, <1>5, NoneAssumption DEF IInv, Messages, ServedOpen, Open
<1>9. SentIsKept' /\ AnswerFits'
  <2>1. ASSUME NEW n \in Message, Kept(n) PROVE Kept(n)'
    <3>1. CASE n = m
      BY <1>1, <3>1 DEF Kept
    <3>2. CASE n # m /\ reply[n] # NoReply
      BY <1>1, <3>2 DEF Kept
    <3>3. CASE \E t \in Server : msg[t] = n
      <4>1. msg[s] = None
        BY <1>1 DEF IInv, Messages, ServedOpen
      <4> QED BY <1>1, <3>3, <4>1, NoneAssumption DEF Kept
    <3>4. CASE n # m /\ \E t \in Server : \E i \in DOMAIN queue[t] : queue[t][i] = n
      <4>1. PICK t \in Server : \E i \in DOMAIN queue[t] : queue[t][i] = n
        BY <3>4
      <4>2. PICK i \in DOMAIN queue[t] : queue[t][i] = n
        BY <4>1
      <4>3. CASE t = s
        <5>1. i - 1 \in DOMAIN queue'[s] /\ queue'[s][i - 1] = n
          BY <1>1, <1>2, <3>4, <4>2, <4>3
        <5> QED BY <5>1 DEF Kept
      <4>4. CASE t # s
        BY <1>1, <4>2, <4>4 DEF Kept
      <4> QED BY <4>3, <4>4
    <3> QED BY <2>1, <3>1, <3>2, <3>3, <3>4 DEF Kept
  <2>2. \A n \in Message : AnswersTo(n)' = AnswersTo(n)
    BY <1>1 DEF AnswersTo, ListAnswers, UnknownAnswers, Answers
  <2> QED BY <1>1, <2>1, <2>2 DEF IInv, Messages, SentIsKept, AnswerFits
<1>10. NoLostWakeup' /\ QuitDrains'
  BY <1>1 DEF IInv, NoLostWakeup, QuitDrains
<1> QED BY <1>3, <1>4, <1>6, <1>7, <1>8, <1>9, <1>10 DEF IInv, Messages

(* GetMsg finds nothing: the copy waits again, or has drained its queue.   *)
LEMMA QueueEmptyStep ==
  ASSUME IInv, NEW s \in Server, QueueEmpty(s)
  PROVE  IInv'
<1>1. /\ pc[s] = "drain" /\ queue[s] = << >> /\ pc \in [Server -> Places]
      /\ pc' = [pc EXCEPT ![s] = IF quitting[s] THEN "close" ELSE "wait"]
      /\ UNCHANGED <<held, ports, queue, signals, msg, quitting, rc, request, reply, late>>
  BY DEF IInv, TypeOK, QueueEmpty, AfterQueue, Go, clientVars
<1>2. TypeOK'
  BY <1>1 DEF IInv, TypeOK, Places
<1>3. Copies'
  BY <1>1 DEF IInv, Copies, HoldsByPlace, Holding, PublicOnce, PublicWhileServing, Untouched,
     QuitDoesNotWait, Early, Serving
<1>4. Messages'
  BY <1>1, MessagesUnchanged DEF IInv
<1>5. NoLostWakeup' /\ QuitDrains'
  BY <1>1 DEF IInv, NoLostWakeup, QuitDrains, ToSet
<1> QED BY <1>2, <1>3, <1>4, <1>5 DEF IInv

(* The message in hand is answered.                                        *)
LEMMA ReplyStep ==
  ASSUME IInv, NEW s \in Server, Reply(s)
  PROVE  IInv'
<1> DEFINE m == msg[s]
<1>1. PICK a \in AnswersTo(m) :
        /\ pc[s] = "serve" /\ pc' = [pc EXCEPT ![s] = "drain"] /\ pc \in [Server -> Places]
        /\ reply' = [reply EXCEPT ![m] = a] /\ reply \in [Message -> Replies]
        /\ msg' = [msg EXCEPT ![s] = None] /\ msg \in [Server -> Message \union {None}]
        /\ quitting' = [quitting EXCEPT ![s] = @ \/ request[m] = "quit"]
        /\ UNCHANGED <<held, ports, queue, signals, rc, request, late>>
  BY DEF IInv, TypeOK, Reply, AfterReply, Go, clientVars
<1>2. m \in Message /\ Open(m) /\ (\A t \in Server : msg[t] = m => t = s)
  BY <1>1 DEF IInv, Messages, ServedOpen, TypeOK
<1>3. a \in Replies /\ a # NoReply
  BY <1>2, AnswersAreReplies
<1>4. TypeOK'
  <2>1. quitting' \in [Server -> BOOLEAN]
    BY <1>1 DEF IInv, TypeOK
  <2> QED BY <1>1, <1>2, <1>3, <2>1 DEF IInv, TypeOK, Places
<1>5. Copies'
  BY <1>1 DEF IInv, TypeOK, Copies, HoldsByPlace, Holding, PublicOnce, PublicWhileServing, Untouched,
     QuitDoesNotWait, Early, Serving
<1>6. QueuedOnce' /\ QueuedOpen'
  BY <1>1, <1>2, NoneAssumption DEF IInv, TypeOK, Messages, QueuedOnce, QueuedOpen, Open
<1>7. ServedOpen'
  BY <1>1, <1>2, NoneAssumption DEF IInv, Messages, ServedOpen, Open
<1>8. SentIsKept'
  BY <1>1, <1>2, <1>3 DEF IInv, Messages, SentIsKept, Kept
<1>9. AnswerFits'
  <2>1. \A n \in Message : AnswersTo(n)' = AnswersTo(n)
    BY <1>1 DEF AnswersTo, ListAnswers, UnknownAnswers, Answers
  <2> QED BY <1>1, <1>2, <1>3, <2>1 DEF IInv, Messages, AnswerFits, Open
<1>10. NoLostWakeup' /\ QuitDrains'
  BY <1>1 DEF IInv, TypeOK, NoLostWakeup, QuitDrains
<1> QED BY <1>4, <1>5, <1>6, <1>7, <1>8, <1>9, <1>10 DEF IInv, Messages

(* RemPort takes exactly this copy's port out of the list.                 *)
LEMMA PortsWithout ==
  ASSUME ports \in Seq(Server), PublicOnce, NEW s \in Server,
         \E i \in DOMAIN ports : ports[i] = s
  PROVE  /\ RemPort(s) \in Seq(Server)
         /\ \A t \in Server : (\E i \in DOMAIN RemPort(s) : RemPort(s)[i] = t) <=>
                              (t # s /\ \E i \in DOMAIN ports : ports[i] = t)
         /\ \A i, j \in DOMAIN RemPort(s) : RemPort(s)[i] = RemPort(s)[j] => i = j
<1> DEFINE k == CHOOSE i \in DOMAIN ports : ports[i] = s
           r == RemPort(s)
<1>1. k \in DOMAIN ports /\ ports[k] = s /\ k \in 1 .. Len(ports) /\ Len(ports) \in Nat
  OBVIOUS
<1> DEFINE front == SubSeq(ports, 1, k - 1)
           back == SubSeq(ports, k + 1, Len(ports))
<1>2. r = front \o back
  BY DEF RemPort, RemoveAt
<1>3. /\ front \in Seq(Server) /\ Len(front) = k - 1
      /\ \A i \in 1 .. k - 1 : front[i] = ports[i]
  BY <1>1
<1>4. /\ back \in Seq(Server) /\ Len(back) = Len(ports) - k
      /\ \A i \in 1 .. Len(ports) - k : back[i] = ports[k + i]
  BY <1>1
<1> HIDE DEF k, r, front, back
<1>5. /\ r \in Seq(Server) /\ DOMAIN r = 1 .. Len(ports) - 1
      /\ \A i \in 1 .. Len(ports) - 1 : r[i] = IF i < k THEN ports[i] ELSE ports[i + 1]
  <2>1. r \in Seq(Server) /\ Len(r) = Len(ports) - 1 /\ DOMAIN r = 1 .. Len(ports) - 1
    BY <1>1, <1>2, <1>3, <1>4
  <2>2. ASSUME NEW i \in 1 .. Len(ports) - 1
        PROVE  r[i] = IF i < k THEN ports[i] ELSE ports[i + 1]
    <3>1. CASE i < k
      <4>1. i \in 1 .. Len(front)
        BY <1>1, <1>3, <3>1
      <4>2. r[i] = front[i]
        BY <1>2, <1>3, <1>4, <4>1
      <4> QED BY <1>1, <1>3, <3>1, <4>2
    <3>2. CASE ~ (i < k)
      <4>1. i \in Len(front) + 1 .. Len(front) + Len(back) /\ i - Len(front) = i - k + 1
        BY <1>1, <1>3, <1>4, <3>2
      <4>2. r[i] = back[i - Len(front)]
        BY <1>2, <1>3, <1>4, <4>1
      <4>3. i - k + 1 \in 1 .. Len(ports) - k /\ k + (i - k + 1) = i + 1
        BY <1>1, <3>2
      <4> QED BY <1>4, <3>2, <4>1, <4>2, <4>3
    <3> QED BY <3>1, <3>2
  <2> QED BY <2>1, <2>2
<1>6. ASSUME NEW t \in Server
      PROVE  (\E i \in DOMAIN r : r[i] = t) <=> (t # s /\ \E i \in DOMAIN ports : ports[i] = t)
  <2>1. ASSUME NEW i \in DOMAIN r, r[i] = t
        PROVE  t # s /\ \E j \in DOMAIN ports : ports[j] = t
    <3> DEFINE j == IF i < k THEN i ELSE i + 1
    <3>1. j \in DOMAIN ports /\ ports[j] = t /\ j # k
      BY <1>1, <1>5, <2>1
    <3> QED BY <1>1, <3>1 DEF PublicOnce
  <2>2. ASSUME t # s, NEW j \in DOMAIN ports, ports[j] = t
        PROVE  \E i \in DOMAIN r : r[i] = t
    <3> DEFINE i == IF j < k THEN j ELSE j - 1
    <3>1. i \in DOMAIN r /\ r[i] = t
      BY <1>1, <1>5, <2>2
    <3> QED BY <3>1
  <2> QED BY <2>1, <2>2
<1>7. ASSUME NEW i \in DOMAIN r, NEW j \in DOMAIN r, r[i] = r[j] PROVE i = j
  <2> DEFINE I == IF i < k THEN i ELSE i + 1
             J == IF j < k THEN j ELSE j + 1
  <2>1. I \in DOMAIN ports /\ J \in DOMAIN ports /\ ports[I] = ports[J]
    BY <1>1, <1>5, <1>7
  <2>2. I = J
    BY <2>1 DEF PublicOnce
  <2> QED BY <1>1, <1>5, <2>2
<1> QED BY <1>5, <1>6, <1>7 DEF r

(* The copy takes its port off the list and gives everything back.         *)
LEMMA CloseStep ==
  ASSUME IInv, NEW s \in Server, Close(s)
  PROVE  IInv'
<1>1. /\ pc[s] = "close" /\ pc' = [pc EXCEPT ![s] = "exit"] /\ pc \in [Server -> Places]
      /\ held' = [held EXCEPT ![s] = {}] /\ held \in [Server -> SUBSET {"memory", "library", "port"}]
      /\ ports' = RemPort(s) /\ ports \in Seq(Server)
      /\ rc' = [rc EXCEPT ![s] = 0]
      /\ UNCHANGED <<queue, signals, msg, quitting, request, reply, late>>
  BY DEF IInv, TypeOK, Close, Go, Hold, Return, clientVars
<1>2. /\ ports' \in Seq(Server)
      /\ \A t \in Server : (\E i \in DOMAIN ports' : ports'[i] = t) <=>
                           (t # s /\ \E i \in DOMAIN ports : ports[i] = t)
      /\ \A i, j \in DOMAIN ports' : ports'[i] = ports'[j] => i = j
  <2>1. \E i \in DOMAIN ports : ports[i] = s
    BY <1>1 DEF IInv, Copies, PublicWhileServing, Serving
  <2> QED BY <1>1, <2>1, PortsWithout DEF IInv, Copies
<1>3. TypeOK'
  BY <1>1, <1>2 DEF IInv, TypeOK, Places
<1>4. Copies'
  <2>1. HoldsByPlace' /\ Untouched' /\ QuitDoesNotWait'
    BY <1>1 DEF IInv, Copies, HoldsByPlace, Holding, Untouched, QuitDoesNotWait, Early
  <2>2. PublicOnce'
    BY <1>2 DEF PublicOnce
  <2>3. PublicWhileServing'
    BY <1>1, <1>2 DEF IInv, Copies, PublicWhileServing, Serving
  <2> QED BY <2>1, <2>2, <2>3 DEF Copies
<1>5. Messages'
  BY <1>1, MessagesUnchanged DEF IInv
<1>6. NoLostWakeup' /\ QuitDrains'
  BY <1>1 DEF IInv, NoLostWakeup, QuitDrains
<1> QED BY <1>3, <1>4, <1>5, <1>6 DEF IInv

(* A client puts a message to a port that is public: it was nowhere else.  *)
LEMMA PutMsgStep ==
  ASSUME IInv, NEW m \in Message, PutMsg(m)
  PROVE  IInv'
<1> DEFINE s == ports[1]
<1>1. PICK c \in Commands :
        /\ request[m] = Idle \/ reply[m] # NoReply
        /\ ports # << >> /\ ports \in Seq(Server)
        /\ request' = [request EXCEPT ![m] = c] /\ request \in [Message -> Commands \union {Idle}]
        /\ reply' = [reply EXCEPT ![m] = NoReply] /\ reply \in [Message -> Replies]
        /\ queue' = [queue EXCEPT ![s] = Append(queue[s], m)] /\ queue \in [Server -> Seq(Message)]
        /\ signals' = [signals EXCEPT ![s] = signals[s] \union {"port"}]
        /\ signals \in [Server -> SUBSET {"port", "ctrl-c"}]
        /\ late' = IF pc[s] = "close" THEN late \union {m} ELSE late \ {m}
        /\ UNCHANGED <<pc, held, quitting, rc, ports, msg>>
  BY DEF IInv, TypeOK, PutMsg, serverVars
<1>2. s \in Server /\ 1 \in DOMAIN ports
  BY <1>1
<1>3. pc[s] \in Serving
  BY <1>2 DEF IInv, Copies, PublicWhileServing
<1>4. /\ \A t \in Server : msg[t] # m
      /\ \A t \in Server : \A i \in DOMAIN queue[t] : queue[t][i] # m
  <2>1. ~ Open(m) /\ m # None
    BY <1>1, NoneAssumption DEF IInv, Messages, AnswerFits, Open
  <2>2. \A t \in Server : msg[t] # m
    BY <2>1 DEF IInv, Messages, ServedOpen
  <2>3. \A t \in Server : \A i \in DOMAIN queue[t] : queue[t][i] # m
    BY <2>1 DEF IInv, Messages, QueuedOpen
  <2> QED BY <2>2, <2>3
<1>5. /\ queue'[s] = Append(queue[s], m) /\ queue[s] \in Seq(Message)
      /\ Len(queue[s]) \in Nat /\ DOMAIN queue[s] = 1 .. Len(queue[s])
      /\ DOMAIN queue'[s] = 1 .. Len(queue[s]) + 1
      /\ \A i \in DOMAIN queue[s] : queue'[s][i] = queue[s][i]
      /\ queue'[s][Len(queue[s]) + 1] = m
      /\ \A t \in Server \ {s} : queue'[t] = queue[t]
  BY <1>1, <1>2
<1>6. TypeOK'
  <2>1. NoReply \in Replies
    BY DEF NoReply, Replies, Snapshots
  <2>2. late' \subseteq Message
    BY <1>1 DEF IInv, TypeOK
  <2>3. queue' \in [Server -> Seq(Message)]
    BY <1>1, <1>2, <1>5
  <2> QED BY <1>1, <2>1, <2>2, <2>3 DEF IInv, TypeOK
<1>7. Copies'
  BY <1>1, <1>3, <1>5 DEF IInv, Copies, HoldsByPlace, PublicOnce, PublicWhileServing, Untouched,
     QuitDoesNotWait, Early, Serving
<1>8. ASSUME NEW t \in Server, NEW i \in DOMAIN queue'[t]
      PROVE  \/ i \in DOMAIN queue[t] /\ queue'[t][i] = queue[t][i] /\ queue[t][i] # m
             \/ t = s /\ i = Len(queue[s]) + 1 /\ queue'[t][i] = m
  BY <1>4, <1>5
<1>9. QueuedOnce'
  BY <1>5, <1>8 DEF IInv, Messages, QueuedOnce
<1>10. QueuedOpen'
  <2> SUFFICES ASSUME NEW t \in Server, NEW i \in DOMAIN queue'[t]
               PROVE  /\ request'[queue'[t][i]] # Idle /\ reply'[queue'[t][i]] = NoReply
                      /\ \A u \in Server : msg'[u] # queue'[t][i]
    BY DEF QueuedOpen, Open
  <2>1. CASE queue'[t][i] = m
    BY <1>1, <1>4, <2>1 DEF Commands, Idle
  <2>2. CASE queue'[t][i] # m
    BY <1>1, <1>8, <2>2 DEF IInv, Messages, QueuedOpen, Open
  <2> QED BY <2>1, <2>2
<1>11. ServedOpen'
  BY <1>1, <1>4 DEF IInv, TypeOK, Messages, ServedOpen, Open
<1>12. SentIsKept'
  <2> SUFFICES ASSUME NEW n \in Message, request'[n] # Idle PROVE Kept(n)'
    BY DEF SentIsKept
  <2>1. CASE n = m
    <3>1. Len(queue[s]) + 1 \in DOMAIN queue'[s] /\ queue'[s][Len(queue[s]) + 1] = n
      BY <1>5, <2>1
    <3> QED BY <1>2, <3>1 DEF Kept
  <2>2. CASE n # m
    <3>1. Kept(n)
      BY <1>1, <2>2 DEF IInv, Messages, SentIsKept
    <3>2. CASE reply[n] # NoReply \/ \E t \in Server : msg[t] = n
      BY <1>1, <2>2, <3>2 DEF Kept
    <3>3. CASE \E t \in Server : \E i \in DOMAIN queue[t] : queue[t][i] = n
      <4>1. PICK t \in Server : \E i \in DOMAIN queue[t] : queue[t][i] = n
        BY <3>3
      <4>2. PICK i \in DOMAIN queue[t] : queue[t][i] = n
        BY <4>1
      <4>3. i \in DOMAIN queue'[t] /\ queue'[t][i] = n
        BY <1>5, <4>2
      <4> QED BY <4>3 DEF Kept
    <3> QED BY <3>1, <3>2, <3>3 DEF Kept
  <2> QED BY <2>1, <2>2
<1>13. AnswerFits'
  <2>1. \A n \in Message \ {m} : AnswersTo(n)' = AnswersTo(n)
    BY <1>1 DEF AnswersTo, ListAnswers, UnknownAnswers, Answers
  <2> QED BY <1>1, <2>1 DEF IInv, Messages, AnswerFits
<1>14. NoLostWakeup'
  BY <1>1, <1>2, <1>5 DEF IInv, TypeOK, NoLostWakeup
<1>15. QuitDrains'
  <2> SUFFICES ASSUME NEW t \in Server, quitting[t], pc[t] \in {"close", "exit"},
                      NEW i \in DOMAIN queue'[t]
               PROVE  queue'[t][i] \in late'
    BY <1>1 DEF QuitDrains, ToSet
  <2>1. CASE queue'[t][i] = m
    <3>1. t = s
      BY <1>4, <1>5, <2>1
    <3> QED BY <1>1, <1>3, <2>1, <3>1 DEF Serving
  <2>2. CASE queue'[t][i] # m
    BY <1>1, <1>8, <2>2 DEF IInv, QuitDrains, ToSet
  <2> QED BY <2>1, <2>2
<1> QED BY <1>6, <1>7, <1>9, <1>10, <1>11, <1>12, <1>13, <1>14, <1>15 DEF IInv, Messages

(* CTRL-C only adds a signal.                                              *)
LEMMA BreakStep ==
  ASSUME IInv, NEW s \in Server, Break(s)
  PROVE  IInv'
<1>1. /\ signals' = [signals EXCEPT ![s] = signals[s] \union {"ctrl-c"}]
      /\ signals \in [Server -> SUBSET {"port", "ctrl-c"}]
      /\ UNCHANGED <<pc, held, quitting, rc, ports, queue, msg, request, reply, late>>
  BY DEF IInv, TypeOK, Break, serverVars
<1>2. TypeOK' /\ Copies'
  BY <1>1 DEF IInv, TypeOK, Copies, HoldsByPlace, PublicOnce, PublicWhileServing, Untouched,
     QuitDoesNotWait
<1>3. Messages'
  BY <1>1, MessagesUnchanged DEF IInv
<1>4. NoLostWakeup' /\ QuitDrains'
  BY <1>1 DEF IInv, NoLostWakeup, QuitDrains
<1> QED BY <1>2, <1>3, <1>4 DEF IInv

(* Nothing happens. *)
LEMMA Stutter ==
  ASSUME IInv, UNCHANGED vars
  PROVE  IInv'
<1>1. UNCHANGED <<pc, held, ports, queue, signals, msg, quitting, rc, request, reply, late>>
  BY DEF vars
<1>2. TypeOK' /\ Copies'
  BY <1>1 DEF IInv, TypeOK, Copies, HoldsByPlace, PublicOnce, PublicWhileServing, Untouched,
     QuitDoesNotWait
<1>3. Messages'
  BY <1>1, MessagesUnchanged DEF IInv
<1>4. NoLostWakeup' /\ QuitDrains'
  BY <1>1 DEF IInv, NoLostWakeup, QuitDrains
<1> QED BY <1>2, <1>3, <1>4 DEF IInv

(* The strengthened invariant holds of every run.                          *)
THEOREM Invariance == Spec => []IInv
<1>1. IInv /\ [Next]_vars => IInv'
  BY OpeningStep, AddPortStep, WaitStep, GetMsgStep, QueueEmptyStep, ReplyStep, CloseStep,
     PutMsgStep, BreakStep, Stutter DEF Next, ServerStep
<1> QED BY <1>1, InitIInv, PTL DEF Spec

(* The state of server, Exec and clients stays well typed.                 *)
THEOREM TypeCorrect == Spec => []TypeOK
<1>1. IInv => TypeOK
  BY DEF IInv
<1> QED BY <1>1, Invariance, PTL

(* A port a client can find exists and its owner still serves.             *)
THEOREM NoDeadPort == Spec => []PublicPortIsAlive
<1>1. IInv => PublicPortIsAlive
  <2> SUFFICES ASSUME IInv, NEW i \in DOMAIN ports
               PROVE  "port" \in held[ports[i]] /\ pc[ports[i]] \in Serving
    BY DEF PublicPortIsAlive, ToSet, Serving
  <2>1. ports[i] \in Server
    BY DEF IInv, TypeOK
  <2>2. pc[ports[i]] \in Serving
    BY <2>1 DEF IInv, Copies, PublicWhileServing
  <2> QED BY <2>1, <2>2 DEF IInv, Copies, HoldsByPlace, Holding, Serving
<1> QED BY <1>1, Invariance, PTL

(* No copy sleeps on a queue with a message in it.                         *)
THEOREM WakeupKept == Spec => []NoLostWakeup
<1>1. IInv => NoLostWakeup
  BY DEF IInv
<1> QED BY <1>1, Invariance, PTL

(* Every way out of serve_arexx gives back memory, library and port.       *)
THEOREM AllReleased == Spec => []NothingLeaks
<1>1. IInv => NothingLeaks
  BY DEF IInv, Copies, HoldsByPlace, Holding, NothingLeaks
<1> QED BY <1>1, Invariance, PTL

(* Result1 = 0 is never the answer to an unknown command or to a list that *)
(* is not whole.                                                           *)
THEOREM SuccessMeansWhole == Spec => []SuccessIsWhole
<1>1. IInv => SuccessIsWhole
  <2> SUFFICES ASSUME IInv, NEW m \in Message, reply[m] # NoReply, reply[m].rc = 0
               PROVE  request[m] # "other" /\ reply[m].snapshot \notin {"truncated", "overflow"}
    BY DEF SuccessIsWhole, Answered
  <2>1. reply[m] \in AnswersTo(m) /\ request[m] \in Commands \union {Idle} /\ request[m] # Idle
    BY DEF IInv, TypeOK, Messages, AnswerFits
  <2>2. ASSUME NEW code \in {5, 10}, NEW result, NEW snap
        PROVE  reply[m] \notin Answers(m, code, result, snap)
    BY DEF Answers
  <2>3. CASE request[m] = "ping" \/ request[m] = "quit"
    BY <2>1, <2>3 DEF AnswersTo, Answers
  <2>4. CASE request[m] = "list"
    <3>1. \/ reply[m] \in Answers(m, 5, "error 2", "overflow")
          \/ reply[m] \in Answers(m, 5, "error 3", "truncated")
          \/ reply[m] \in Answers(m, 0, "text", "whole")
      BY <2>1, <2>4 DEF AnswersTo, ListAnswers
    <3>2. /\ reply[m] \notin Answers(m, 5, "error 2", "overflow")
          /\ reply[m] \notin Answers(m, 5, "error 3", "truncated")
      BY <2>2
    <3>3. reply[m] \in Answers(m, 0, "text", "whole")
      BY <3>1, <3>2
    <3>4. reply[m].snapshot = "whole"
      BY <3>3 DEF Answers
    <3> QED BY <2>4, <3>4
  <2>5. CASE request[m] = "other"
    <3>1. reply[m] \in Answers(m, 10, "error 1", "none")
      BY <2>1, <2>5 DEF AnswersTo, UnknownAnswers
    <3>2. reply[m] \notin Answers(m, 10, "error 1", "none")
      BY <2>2
    <3> QED BY <3>1, <3>2
  <2> QED BY <2>1, <2>3, <2>4, <2>5 DEF Commands, Idle
<1> QED BY <1>1, Invariance, PTL

(* QUIT leaves unanswered only what came after the queue was empty.        *)
THEOREM QuitAnswersAll == Spec => []QuitDrains
<1>1. IInv => QuitDrains
  BY DEF IInv
<1> QED BY <1>1, Invariance, PTL

(* No message is lost, doubled, served by two copies or answered twice.    *)
THEOREM OneHolderEach == Spec => []OneHolder
<1>1. IInv => OneHolder
  <2> SUFFICES ASSUME IInv, NEW m \in Message
               PROVE  Cardinality(QueuedAt(m)) + Cardinality({s \in Server : msg[s] = m})
                        + (IF Answered(m) THEN 1 ELSE 0) = (IF request[m] = Idle THEN 0 ELSE 1)
    BY DEF OneHolder
  <2> DEFINE hands == {s \in Server : msg[s] = m}
  <2>1. m # None
    BY NoneAssumption
  <2>2. \A s \in Server : \A i \in DOMAIN queue[s] : queue[s][i] = m => <<s, i>> \in QueuedAt(m)
    BY DEF QueuedAt
  <2>3. ASSUME NEW q \in QueuedAt(m)
        PROVE  q[1] \in Server /\ q[2] \in DOMAIN queue[q[1]] /\ queue[q[1]][q[2]] = m /\ q = <<q[1], q[2]>>
    BY DEF QueuedAt
  <2>4. ASSUME ~ Open(m) PROVE QueuedAt(m) = {} /\ hands = {}
    <3>1. QueuedAt(m) = {}
      BY <2>3, <2>4 DEF IInv, Messages, QueuedOpen
    <3>2. hands = {}
      BY <2>1, <2>4 DEF IInv, Messages, ServedOpen
    <3> QED BY <3>1, <3>2
  <2>5. Cardinality({}) = 0
    BY FS_EmptySet
  <2>6. CASE request[m] = Idle
    <3>1. reply[m] = NoReply
      BY <2>6 DEF IInv, Messages, AnswerFits
    <3> QED BY <2>4, <2>5, <2>6, <3>1 DEF Open, Answered
  <2>7. CASE request[m] # Idle /\ reply[m] # NoReply
    BY <2>4, <2>5, <2>7 DEF Open, Answered
  <2>8. CASE request[m] # Idle /\ reply[m] = NoReply
    <3>1. CASE \E t \in Server : msg[t] = m
      <4>1. PICK t \in Server : msg[t] = m
        BY <3>1
      <4>2. hands = {t}
        BY <2>1, <4>1 DEF IInv, Messages, ServedOpen
      <4>3. QueuedAt(m) = {}
        BY <2>3, <4>1 DEF IInv, Messages, QueuedOpen
      <4>4. Cardinality({t}) = 1
        BY FS_Singleton
      <4> QED BY <2>5, <2>8, <4>2, <4>3, <4>4 DEF Answered
    <3>2. CASE \E t \in Server : \E i \in DOMAIN queue[t] : queue[t][i] = m
      <4>1. PICK t \in Server : \E i \in DOMAIN queue[t] : queue[t][i] = m
        BY <3>2
      <4>2. PICK i \in DOMAIN queue[t] : queue[t][i] = m
        BY <4>1
      <4>3. hands = {}
        BY <4>2 DEF IInv, Messages, QueuedOpen
      <4>4. ASSUME NEW q \in QueuedAt(m) PROVE q = <<t, i>>
        BY <2>3, <4>2 DEF IInv, Messages, QueuedOnce
      <4>5. QueuedAt(m) = {<<t, i>>}
        BY <2>2, <4>2, <4>4
      <4>6. Cardinality({<<t, i>>}) = 1
        BY FS_Singleton
      <4> QED BY <2>5, <2>8, <4>3, <4>5, <4>6 DEF Answered
    <3> QED BY <2>8, <3>1, <3>2 DEF IInv, Messages, SentIsKept, Kept
  <2> QED BY <2>6, <2>7, <2>8
<1> QED BY <1>1, Invariance, PTL
=============================================================================
