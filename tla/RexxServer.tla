----------------------------- MODULE RexxServer -----------------------------
(***************************************************************************)
(* ResidentView --serve (serve_arexx in src/residentview.c): a process     *)
(* that publishes an Exec message port and answers ARexx messages on it    *)
(* until a QUIT message or CTRL-C ends it.                                 *)
(*                                                                         *)
(* Several copies may be started with the same port name.  A client is an  *)
(* ARexx program: under Forbid() it finds the first public port of that    *)
(* name and puts its message there, then waits for the reply.              *)
(***************************************************************************)
EXTENDS SequencesExt

CONSTANTS
  Server,   (* the copies of the program started with one port name         *)
  Message,  (* RexxMsgs, one per client: it waits for each reply            *)
  None,     (* no message                                                   *)
  Asking    (* those whose client asks for the result text                  *)

ASSUME NoneAssumption == None \notin Message

VARIABLES
  pc,       (* where each copy is                                           *)
  held,     (* what each copy holds: memory, rexxsyslib, its port           *)
  ports,    (* SysBase->PortList, those of this name, in FindPort's order   *)
  queue,    (* mp_MsgList of each copy's port                               *)
  signals,  (* signals each copy has received and not yet waited for        *)
  msg,      (* the message each copy is working on                          *)
  quitting, (* local flag of each copy                                      *)
  rc,       (* return code of each copy                                     *)
  request,  (* what each message asks; status "idle" until it is sent       *)
  reply,    (* what ReplyMsg returned to the client                         *)
  late      (* history: messages put when the server had seen its queue     *)
            (* empty and would not look again                               *)

serverVars == <<pc, held, quitting, rc>>
clientVars == <<request, late>>
vars == <<pc, held, ports, queue, signals, msg, quitting, rc, request, reply, late>>

Places == {"start", "open", "find", "create", "add", "wait", "drain", "serve",
           "close", "exit"}
Commands == {"other", "ping", "quit", "list"}
Idle == "none"

(* Result1 and the error code or text of Result2, with what the snapshot   *)
(* behind it was like.                                                     *)
NoReply == [rc |-> 0, result |-> "unanswered", snapshot |-> "none"]
Snapshots == {"whole", "truncated", "overflow"}

Init ==
  /\ pc = [s \in Server |-> "start"]
  /\ held = [s \in Server |-> {}]
  /\ ports = << >>
  /\ queue = [s \in Server |-> << >>]
  /\ signals = [s \in Server |-> {}]
  /\ msg = [s \in Server |-> None]
  /\ quitting = [s \in Server |-> FALSE]
  /\ rc = [s \in Server |-> 0]
  /\ request = [m \in Message |-> Idle]
  /\ reply = [m \in Message |-> NoReply]
  /\ late = {}
-----------------------------------------------------------------------------
Go(s, place) == pc' = [pc EXCEPT ![s] = place]
Hold(s, what) == held' = [held EXCEPT ![s] = what]
Return(s, code) == Go(s, "exit") /\ rc' = [rc EXCEPT ![s] = code]

(* The two malloc calls: what the first made is freed if the second fails. *)
Allocate(s) ==
  /\ pc[s] = "start"
  /\ \/ Go(s, "open") /\ Hold(s, {"memory"}) /\ UNCHANGED rc
     \/ Return(s, 20) /\ UNCHANGED held
  /\ UNCHANGED <<ports, queue, signals, msg, quitting, reply, clientVars>>

OpenRexx(s) ==
  /\ pc[s] = "open"
  /\ \/ Go(s, "find") /\ Hold(s, held[s] \union {"library"}) /\ UNCHANGED rc
     \/ Return(s, 20) /\ Hold(s, held[s] \ {"memory"})
  /\ UNCHANGED <<ports, queue, signals, msg, quitting, reply, clientVars>>

(* What is left when there is no port: rexxsyslib is closed, memory freed. *)
WithoutPortLeak(s) == held[s] \ {"memory"}
WithoutPort(s) == held[s] \ {"memory", "library"}

(* Forbid, FindPort, Permit: the name must be free at this moment.         *)
FindPort(s) ==
  /\ pc[s] = "find"
  /\ IF ports # << >>
       THEN Return(s, 20) /\ Hold(s, WithoutPort(s))
       ELSE Go(s, "create") /\ UNCHANGED <<held, rc>>
  /\ UNCHANGED <<ports, queue, signals, msg, quitting, reply, clientVars>>

CreateMsgPort(s) ==
  /\ pc[s] = "create"
  /\ \/ Go(s, "add") /\ Hold(s, held[s] \union {"port"}) /\ UNCHANGED rc
     \/ Return(s, 20) /\ Hold(s, WithoutPort(s))
  /\ UNCHANGED <<ports, queue, signals, msg, quitting, reply, clientVars>>

(* AddPort makes the port public; FindPort returns the older one first.    *)
AddPort(s) ==
  /\ pc[s] = "add"
  /\ ports' = Append(ports, s)
  /\ Go(s, "wait")
  /\ UNCHANGED <<held, queue, signals, msg, quitting, rc, reply, clientVars>>

(* Wait returns with whatever has arrived and clears it; CTRL-C wins over  *)
(* the port and leaves the loop with the queue unread.                     *)
Wait(s) ==
  /\ pc[s] = "wait" /\ signals[s] # {}
  /\ Go(s, IF "ctrl-c" \in signals[s] THEN "close" ELSE "drain")
  /\ signals' = [signals EXCEPT ![s] = {}]
  /\ UNCHANGED <<held, ports, queue, msg, quitting, rc, reply, clientVars>>

UnreadPeeked(q) == q
Unread(q) == Tail(q)

GetMsg(s) ==
  /\ pc[s] = "drain" /\ queue[s] # << >>
  /\ msg' = [msg EXCEPT ![s] = Head(queue[s])]
  /\ queue' = [queue EXCEPT ![s] = Unread(@)]
  /\ Go(s, "serve")
  /\ UNCHANGED <<held, ports, signals, quitting, rc, reply, clientVars>>

AfterQueueWait(s) == "wait"
AfterQueue(s) == IF quitting[s] THEN "close" ELSE "wait"

(* GetMsg returns NULL: the end of the inner loop. *)
QueueEmpty(s) ==
  /\ pc[s] = "drain" /\ queue[s] = << >>
  /\ Go(s, AfterQueue(s))
  /\ UNCHANGED <<held, ports, queue, signals, msg, quitting, rc, reply, clientVars>>

AnswersSwapped(m, code, result, snap) ==
  {[rc |-> IF code = 0 THEN 0 ELSE 1, result |-> result, snapshot |-> snap]}

(* reply_rexx: the text goes back only with rc 0 and only if asked for;    *)
(* when CreateArgstring fails the result is 20 and no text.                *)
Answers(m, code, result, snap) ==
  IF code # 0
    THEN {[rc |-> code, result |-> result, snapshot |-> snap]}
    ELSE IF m \in Asking
      THEN {[rc |-> 0, result |-> result, snapshot |-> snap],
            [rc |-> 20, result |-> "none", snapshot |-> snap]}
      ELSE {[rc |-> 0, result |-> "none", snapshot |-> snap]}

ListAnswersUnchecked(m) ==
  UNION {Answers(m, 5, "error 2", "overflow"), Answers(m, 0, "text", "truncated"),
         Answers(m, 0, "text", "whole")}

(* A list command: overflow of the text is looked at before truncation of  *)
(* the snapshot, and either keeps the reply from being a success.          *)
ListAnswers(m) ==
  UNION {Answers(m, 5, "error 2", "overflow"), Answers(m, 5, "error 3", "truncated"),
         Answers(m, 0, "text", "whole")}

UnknownNotAnswered(m) == {NoReply}
UnknownAnswers(m) == Answers(m, 10, "error 1", "none")

AnswersTo(m) ==
  CASE request[m] = "ping" -> Answers(m, 0, "PONG", "none")
    [] request[m] = "quit" -> Answers(m, 0, "BYE", "none")
    [] request[m] = "list" -> ListAnswers(m)
    [] OTHER -> UnknownAnswers(m)

AfterReplyWait(s) == "wait"
AfterReplyAtOnce(s) == IF quitting'[s] THEN "close" ELSE "drain"
AfterReply(s) == "drain"

(* One turn of the inner loop: the message is answered, whatever it is;    *)
(* QUIT only marks the end, the rest of the queue is still served.         *)
Reply(s) ==
  /\ pc[s] = "serve"
  /\ \E a \in AnswersTo(msg[s]) : reply' = [reply EXCEPT ![msg[s]] = a]
  /\ quitting' = [quitting EXCEPT ![s] = @ \/ request[msg[s]] = "quit"]
  /\ msg' = [msg EXCEPT ![s] = None]
  /\ Go(s, AfterReply(s))
  /\ UNCHANGED <<held, ports, queue, signals, rc, clientVars>>

RemPortForgotten(s) == ports
RemPort(s) == RemoveAt(ports, CHOOSE i \in DOMAIN ports : ports[i] = s)

(* RemPort, DeleteMsgPort, CloseLibrary, free: what is queued stays there. *)
Close(s) ==
  /\ pc[s] = "close"
  /\ ports' = RemPort(s)
  /\ Hold(s, held[s] \ {"port", "library", "memory"})
  /\ Return(s, 0)
  /\ UNCHANGED <<queue, signals, msg, quitting, reply, clientVars>>

ServerStep(s) ==
  \/ Allocate(s) \/ OpenRexx(s) \/ FindPort(s) \/ CreateMsgPort(s) \/ AddPort(s)
  \/ Wait(s) \/ GetMsg(s) \/ QueueEmpty(s) \/ Reply(s) \/ Close(s)
-----------------------------------------------------------------------------
(* Exec and the client: Forbid, FindPort, PutMsg, Permit.  A client that   *)
(* has its answer may send again.                                          *)
PutMsg(m) ==
  /\ request[m] = Idle \/ reply[m] # NoReply
  /\ ports # << >>
  /\ \E c \in Commands : request' = [request EXCEPT ![m] = c]
  /\ reply' = [reply EXCEPT ![m] = NoReply]
  /\ queue' = [queue EXCEPT ![ports[1]] = Append(@, m)]
  /\ signals' = [signals EXCEPT ![ports[1]] = @ \union {"port"}]
  /\ late' = IF pc[ports[1]] = "close" THEN late \union {m} ELSE late \ {m}
  /\ UNCHANGED <<serverVars, ports, msg>>

(* The user breaks a running copy, once or more.                           *)
Break(s) ==
  /\ pc[s] # "exit" /\ "ctrl-c" \notin signals[s]
  /\ signals' = [signals EXCEPT ![s] = @ \union {"ctrl-c"}]
  /\ UNCHANGED <<serverVars, ports, queue, msg, request, reply, late>>

Next ==
  \/ \E s \in Server : ServerStep(s) \/ Break(s)
  \/ \E m \in Message : PutMsg(m)

(* A copy that can run does run; clients and the user owe nothing.         *)
Spec == Init /\ [][Next]_vars /\ \A s \in Server : WF_vars(ServerStep(s))
-----------------------------------------------------------------------------
Replies == [rc : {0, 5, 10, 20},
            result : {"unanswered", "none", "PONG", "BYE", "text", "error 1", "error 2", "error 3"},
            snapshot : Snapshots \union {"none"}]

TypeOK ==
  /\ pc \in [Server -> Places]
  /\ held \in [Server -> SUBSET {"memory", "library", "port"}]
  /\ ports \in Seq(Server)
  /\ queue \in [Server -> Seq(Message)]
  /\ signals \in [Server -> SUBSET {"port", "ctrl-c"}]
  /\ msg \in [Server -> Message \union {None}]
  /\ quitting \in [Server -> BOOLEAN]
  /\ rc \in [Server -> {0, 20}]
  /\ request \in [Message -> Commands \union {Idle}]
  /\ reply \in [Message -> Replies]
  /\ late \subseteq Message

QueuedAt(m) ==
  {q \in UNION {{s} \X DOMAIN queue[s] : s \in Server} : queue[q[1]][q[2]] = m}
Answered(m) == reply[m] # NoReply

(* A message is in one place at a time, across all copies of the server:   *)
(* unsent, in one queue once, in the hands of one copy, or answered.  None *)
(* is answered twice, served by two copies, or dropped on the way.         *)
OneHolder ==
  \A m \in Message :
    Cardinality(QueuedAt(m)) + Cardinality({s \in Server : msg[s] = m})
      + (IF Answered(m) THEN 1 ELSE 0) = (IF request[m] = Idle THEN 0 ELSE 1)

(* A copy never sleeps on a queue that is not empty: the signal of a       *)
(* message that came while the queue was drained is not lost.              *)
NoLostWakeup ==
  \A s \in Server : pc[s] = "wait" /\ queue[s] # << >> => "port" \in signals[s]

(* What a client can find is a port that exists and whose owner has not    *)
(* given it back.                                                          *)
PublicPortIsAlive ==
  \A s \in ToSet(ports) : "port" \in held[s] /\ pc[s] \in {"wait", "drain", "serve", "close"}

(* Whichever call fails, a copy that has returned holds nothing.           *)
NothingLeaks == \A s \in Server : pc[s] = "exit" => held[s] = {}

(* A client that gets Result1 = 0 asked for something the service knows,   *)
(* and if it was a list, the list is whole.                                *)
SuccessIsWhole ==
  \A m \in Message : Answered(m) /\ reply[m].rc = 0 =>
    request[m] # "other" /\ reply[m].snapshot \notin {"truncated", "overflow"}

(* QUIT does not cut off the messages queued behind it: a quitting copy    *)
(* leaves unanswered only what came after it found its queue empty.        *)
QuitDrains ==
  \A s \in Server :
    quitting[s] /\ pc[s] \in {"close", "exit"} => ToSet(queue[s]) \subseteq late

(* Every message put is answered in the end, whatever it asks, unless the  *)
(* copy it was put to comes to its end first.                              *)
AnsweredOrClosed ==
  \A s \in Server, m \in Message :
    (m \in ToSet(queue[s])) ~> (Answered(m) \/ pc[s] = "exit")

(* A copy told to stop stops, unless clients keep it busy for ever: the    *)
(* signal is not looked at while the queue is not empty.                   *)
StopsUnlessBusy ==
  \A s \in Server :
    \/ (quitting[s] \/ "ctrl-c" \in signals[s]) ~> (pc[s] = "exit")
    \/ []<>(pc[s] = "serve")

(* docs/ARCHITECTURE.md:64, "port naming should be stable and collision-   *)
(* aware": two copies never publish the same name.                         *)
NameIsUnique == Len(ports) <= 1
=============================================================================
