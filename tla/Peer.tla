-------------------------------- MODULE Peer --------------------------------
(***************************************************************************)
(* One connection of pkg/peer: the version negotiation started by          *)
(* AssociateConnection, and then the goroutines inHandler, queueHandler,   *)
(* outHandler and stallHandler, which talk over small channels, beside the *)
(* goroutines of the application that queue messages and inventory.        *)
(*                                                                         *)
(* A step is what a goroutine does between two channel operations.  The    *)
(* remote side sends anything, answers requests or not, and may fail; the  *)
(* contents of messages are reduced to their commands.                     *)
(***************************************************************************)
EXTENDS Integers, Sequences, FiniteSets, SequencesExt

CONSTANTS
  None,
  Callers,           \* goroutines that queue one message each
  Cmd,               \* Cmd[c]: the command of the message of caller c
  WithDone,          \* callers that pass a done channel of capacity one
  TxInvs,            \* transaction inventory
  BlockInvs,         \* block inventory, which is not trickled
  MaxAnnounce,       \* bound on the calls of QueueInventory
  Inbound,           \* the connection was accepted, not dialled
  MaxInvTrickleSize, \* maxInvTrickleSize
  RecvCmds,          \* commands that the remote side sends
  MaxRecv            \* bound on messages received from the remote side

ASSUME ConstantAssumption ==
  /\ Cmd \in [Callers -> {"getdata", "getheaders", "ping", "addr"}]
  /\ Callers \cap {"in", "queue", "out", "stall", "start", "neg"} = {}
  /\ WithDone \subseteq Callers
  /\ Inbound \in BOOLEAN
  /\ TxInvs \cap BlockInvs = {}
  /\ MaxInvTrickleSize \in Nat \ {0}
  /\ MaxAnnounce \in Nat
  /\ RecvCmds \subseteq {"version", "ping", "addr"} \cup {"block", "merkleblock", "tx", "notfound", "headers"}
  /\ MaxRecv \in Nat

Invs == TxInvs \cup BlockInvs
Handlers == {"in", "queue", "out", "stall"}
Senders == Callers \cup {"start"}

VARIABLES
  pc,             \* where each goroutine is
  disconnect,     \* TRUE once Disconnect was called: conn and quit are closed
  versionKnown,
  negotiated,     \* what the negotiation ended with
  negotiateErr,   \* channel of capacity one
  inMsg,          \* message inHandler works on
  outMsg,         \* message outHandler works on
  waiting,        \* queueHandler has passed a message to outHandler
  outputQueue, outputInvChan, sendQueue, sendDoneQueue, stallControl,
  pendingMsgs, invSendQueue, knownInventory,
  pendingResponses, ioStopped,
  inQuit, queueQuit, outQuit,
  unwritten,      \* messages that queueHandler took and that were not written, in order
  written,        \* senders whose message was written to the connection
  relayed,        \* how often an inventory was written to the connection
  signalled,      \* how often the done channel of a message was sent to
  answered,       \* requests whose answer stallHandler has seen
  announced,      \* number of calls of QueueInventory
  received        \* number of messages received

negVars   == <<versionKnown, negotiated, negotiateErr>>
queueVars == <<waiting, pendingMsgs, invSendQueue, knownInventory, outputInvChan>>
stallVars == <<pendingResponses, ioStopped, answered>>
historyVars == <<unwritten, written, relayed>>
quitVars  == <<inQuit, queueQuit, outQuit>>
vars == <<pc, disconnect, negVars, inMsg, outMsg, queueVars, outputQueue, sendQueue, sendDoneQueue,
          stallControl, stallVars, quitVars, historyVars, signalled, announced, received>>

-----------------------------------------------------------------------------
(* Messages.                                                               *)

MsgOf(s) == [cmd |-> IF s = "start" THEN "verack" ELSE Cmd[s], id |-> s]
Reject == [cmd |-> "reject", id |-> "in"]
Pong(n) == [cmd |-> "pong", id |-> n]
InvMsg(S) == [cmd |-> "inv", id |-> S]

(* Senders that pass a done channel: it is sent to once per message.       *)
HasDone(m) == m.cmd = "reject" \/ (m.cmd \notin {"pong", "inv"} /\ m.id \in WithDone)

Signal(ms) ==
  signalled' = [s \in WithDone \cup {"in"} |->
                  signalled[s] + Cardinality({i \in DOMAIN ms : HasDone(ms[i]) /\ ms[i].id = s})]

(* maybeAddDeadline: the responses, one of which must follow a request.    *)
Expects(cmd) ==
  CASE cmd = "getdata"    -> {"block", "merkleblock", "tx", "notfound"}
    [] cmd = "getheaders" -> {"headers"}
    [] OTHER              -> {}

(* Mutant: a response only settles its own command.                        *)
SettlesMutant(cmd) == {cmd}

(* The expected responses that a received message settles.                 *)
Settles(cmd) ==
  IF cmd \in {"block", "merkleblock", "tx", "notfound"}
    THEN {"block", "merkleblock", "tx", "notfound"}
    ELSE {cmd}

Answers == {"block", "merkleblock", "tx", "notfound", "headers"}

Goto(g, label) == pc' = [pc EXCEPT ![g] = label]

-----------------------------------------------------------------------------
(* AssociateConnection and start.                                          *)

(* The negotiation ends.  Only on an inbound connection is its error sent  *)
(* on the channel: the outbound branch tests a variable that is never set. *)
Negotiate(ok) ==
  /\ pc["neg"] = "run"
  /\ negotiated' = IF ok THEN "ok" ELSE "failed"
  /\ \E known \in BOOLEAN : (ok => known) /\ versionKnown' = known
  /\ Goto("neg", IF ~ok /\ Inbound THEN "error" ELSE "result")
  /\ UNCHANGED <<disconnect, negotiateErr, inMsg, outMsg, queueVars, outputQueue, sendQueue,
                 sendDoneQueue, stallControl, stallVars, quitVars, historyVars, signalled, announced, received>>

NegotiateSend ==
  /\ pc["neg"] \in {"error", "result"}
  /\ negotiateErr = <<>>
  /\ negotiateErr' = <<IF pc["neg"] = "error" THEN "error" ELSE "nil">>
  /\ Goto("neg", IF pc["neg"] = "error" THEN "result" ELSE "done")
  /\ UNCHANGED <<disconnect, versionKnown, negotiated, inMsg, outMsg, queueVars, outputQueue, sendQueue,
                 sendDoneQueue, stallControl, stallVars, quitVars, historyVars, signalled, announced, received>>

(* start goes on when the channel says nil: the handlers run, and verack   *)
(* is queued.  On an error or after negotiateTimeout it disconnects.       *)
StartHandlers ==
  /\ pc["start"] = "wait"
  /\ negotiateErr = <<"nil">>
  /\ negotiateErr' = <<>>
  /\ pc' = [pc EXCEPT !["start"] = "check", !["in"] = "read", !["queue"] = "select",
                      !["out"] = "select", !["stall"] = "select"]
  /\ UNCHANGED <<disconnect, versionKnown, negotiated, inMsg, outMsg, queueVars, outputQueue, sendQueue,
                 sendDoneQueue, stallControl, stallVars, quitVars, historyVars, signalled, announced, received>>

StartFails ==
  /\ pc["start"] = "wait"
  /\ \/ negotiateErr = <<"error">> /\ negotiateErr' = <<>>
     \/ UNCHANGED negotiateErr
  /\ disconnect' = TRUE
  /\ Goto("start", "failed")
  /\ UNCHANGED <<versionKnown, negotiated, inMsg, outMsg, queueVars, outputQueue, sendQueue,
                 sendDoneQueue, stallControl, stallVars, quitVars, historyVars, signalled, announced, received>>

(* Disconnect from outside: the application, or the idle timer.            *)
Disconnect ==
  /\ ~disconnect
  /\ disconnect' = TRUE
  /\ UNCHANGED <<pc, negVars, inMsg, outMsg, queueVars, outputQueue, sendQueue, sendDoneQueue,
                 stallControl, stallVars, quitVars, historyVars, signalled, announced, received>>

-----------------------------------------------------------------------------
(* QueueMessage and QueueInventory.                                        *)

(* The test of Connected, and the send to outputQueue, are two steps.      *)
QueueCheck(s) ==
  /\ pc[s] = "check"
  /\ Goto(s, IF disconnect THEN "sent" ELSE "enqueue")
  /\ IF disconnect THEN Signal(<<MsgOf(s)>>) ELSE UNCHANGED signalled
  /\ UNCHANGED <<disconnect, negVars, inMsg, outMsg, queueVars, outputQueue, sendQueue, sendDoneQueue,
                 stallControl, stallVars, quitVars, historyVars, announced, received>>

(* outputQueue has room for more messages than there are here.             *)
Enqueue(s) ==
  /\ pc[s] = "enqueue"
  /\ outputQueue' = Append(outputQueue, MsgOf(s))
  /\ Goto(s, "sent")
  /\ UNCHANGED <<disconnect, negVars, inMsg, outMsg, queueVars, sendQueue, sendDoneQueue, stallControl,
                 stallVars, quitVars, historyVars, signalled, announced, received>>

QueueInventory(iv) ==
  /\ announced < MaxAnnounce
  /\ announced' = announced + 1
  /\ outputInvChan' = IF iv \in knownInventory \/ disconnect THEN outputInvChan ELSE Append(outputInvChan, iv)
  /\ UNCHANGED <<pc, disconnect, negVars, inMsg, outMsg, waiting, pendingMsgs, invSendQueue,
                 knownInventory, outputQueue, sendQueue, sendDoneQueue, stallControl,
                 stallVars, quitVars, historyVars, signalled, received>>

-----------------------------------------------------------------------------
(* inHandler.                                                              *)

InUnchanged == UNCHANGED <<negVars, outMsg, queueVars, sendQueue, sendDoneQueue, stallVars,
                           queueQuit, outQuit, historyVars, announced>>

(* An answer is read after its request was written.                        *)
Receive(cmd) ==
  /\ pc["in"] = "read"
  /\ ~disconnect
  /\ received < MaxRecv
  /\ cmd \in Answers => \E c \in written \cap Callers : cmd \in Expects(Cmd[c])
  /\ received' = received + 1
  /\ inMsg' = cmd
  /\ Goto("in", "tell")
  /\ InUnchanged /\ UNCHANGED <<disconnect, outputQueue, stallControl, inQuit, signalled>>

(* inHandler sends to stallControl, which has room for one message, and    *)
(* goes on to one of the given places.                                     *)
InTellStall(from, kind, to) ==
  /\ pc["in"] = from
  /\ stallControl = <<>>
  /\ stallControl' = <<[kind |-> kind, cmd |-> inMsg]>>
  /\ \E label \in to : Goto("in", label)
  /\ inMsg' = IF kind = "done" THEN None ELSE inMsg
  /\ InUnchanged /\ UNCHANGED <<disconnect, outputQueue, inQuit, signalled, received>>

(* The switch over message types: a second version message is rejected, a  *)
(* ping is answered, anything else goes to a listener.  A remote side with *)
(* an old protocol gets neither a reject nor a pong.                       *)
Handle ==
  CASE inMsg = "version" -> {"check", "exit"}
    [] inMsg = "ping"    -> {"check", "handled"}
    [] OTHER             -> {"handled"}

(* The loop ends, or the read fails; a malformed message is rejected first *)
(* when the peer is not disconnecting.                                     *)
ReadFails ==
  /\ pc["in"] = "read"
  /\ \/ Goto("in", "exit") /\ UNCHANGED inMsg
     \/ ~disconnect /\ Goto("in", "check") /\ inMsg' = "malformed"
  /\ InUnchanged /\ UNCHANGED <<disconnect, outputQueue, stallControl, inQuit, signalled, received>>

Reply == IF inMsg = "ping" THEN Pong(received) ELSE Reject

(* QueueMessage from inHandler; after a reject it waits for the signal.    *)
InQueueCheck ==
  /\ pc["in"] = "check"
  /\ IF disconnect
       THEN /\ Goto("in", IF inMsg = "ping" THEN "handled" ELSE "waitdone")
            /\ Signal(<<Reply>>)
       ELSE Goto("in", "enqueue") /\ UNCHANGED signalled
  /\ InUnchanged /\ UNCHANGED <<disconnect, inMsg, outputQueue, stallControl, inQuit, received>>

InEnqueue ==
  /\ pc["in"] = "enqueue"
  /\ outputQueue' = Append(outputQueue, Reply)
  /\ Goto("in", IF inMsg = "ping" THEN "handled" ELSE "waitdone")
  /\ InUnchanged /\ UNCHANGED <<disconnect, inMsg, stallControl, inQuit, signalled, received>>

RejectSent ==
  /\ pc["in"] = "waitdone"
  /\ signalled["in"] > 0
  /\ Goto("in", "exit")
  /\ InUnchanged /\ UNCHANGED <<disconnect, inMsg, outputQueue, stallControl, inQuit, signalled, received>>

InExit ==
  /\ pc["in"] = "exit"
  /\ disconnect' = TRUE
  /\ inQuit' = TRUE
  /\ inMsg' = None
  /\ Goto("in", "done")
  /\ InUnchanged /\ UNCHANGED <<outputQueue, stallControl, signalled, received>>

InStep ==
  \/ InTellStall("tell", "receive", {"start"})
  \/ InTellStall("start", "start", Handle)
  \/ InTellStall("handled", "done", {"read"})
  \/ InQueueCheck
  \/ InEnqueue
  \/ RejectSent
  \/ InExit

-----------------------------------------------------------------------------
(* queueHandler.                                                           *)

QueueUnchanged == UNCHANGED <<disconnect, negVars, inMsg, outMsg, stallControl, stallVars, inQuit, outQuit,
                              written, relayed, announced, received>>

(* queuePacket for one message after the other: the first goes to          *)
(* outHandler when it is idle, the others wait.                            *)
QueuePackets(ms, pending) ==
  LET direct == ~waiting /\ ms # <<>> IN
  /\ unwritten' = unwritten \o ms
  /\ waiting' = (waiting \/ ms # <<>>)
  /\ sendQueue' = IF direct THEN Append(sendQueue, Head(ms)) ELSE sendQueue
  /\ pendingMsgs' = pending \o (IF direct THEN Tail(ms) ELSE ms)

QueueTake ==
  /\ pc["queue"] = "select"
  /\ outputQueue # <<>>
  /\ outputQueue' = Tail(outputQueue)
  /\ QueuePackets(<<Head(outputQueue)>>, pendingMsgs)
  /\ QueueUnchanged
  /\ UNCHANGED <<pc, outputInvChan, invSendQueue, knownInventory, sendDoneQueue, queueQuit, signalled>>

(* Mutant: the next pending message is not passed on.                      *)
QueueSendDoneMutant ==
  /\ pc["queue"] = "select"
  /\ sendDoneQueue > 0
  /\ sendDoneQueue' = sendDoneQueue - 1
  /\ waiting' = FALSE
  /\ QueueUnchanged
  /\ UNCHANGED <<pc, outputQueue, outputInvChan, invSendQueue, knownInventory, unwritten, queueQuit, signalled,
                 sendQueue, pendingMsgs>>

(* outHandler is done with a message: pass it the next one, if any.        *)
QueueSendDone ==
  /\ pc["queue"] = "select"
  /\ sendDoneQueue > 0
  /\ sendDoneQueue' = sendDoneQueue - 1
  /\ waiting' = (pendingMsgs # <<>>)
  /\ IF pendingMsgs = <<>>
       THEN UNCHANGED <<sendQueue, pendingMsgs>>
       ELSE sendQueue' = Append(sendQueue, Head(pendingMsgs)) /\ pendingMsgs' = Tail(pendingMsgs)
  /\ QueueUnchanged
  /\ UNCHANGED <<pc, outputQueue, outputInvChan, invSendQueue, knownInventory, unwritten, queueQuit, signalled>>

(* A block is announced at once, a transaction waits for the trickle;      *)
(* without a handshake both are dropped.                                   *)
QueueInv ==
  LET iv == Head(outputInvChan) IN
  /\ pc["queue"] = "select"
  /\ outputInvChan # <<>>
  /\ outputInvChan' = Tail(outputInvChan)
  /\ invSendQueue' = IF versionKnown /\ iv \in TxInvs THEN Append(invSendQueue, iv) ELSE invSendQueue
  /\ QueuePackets(IF versionKnown /\ iv \in BlockInvs THEN <<InvMsg({iv})>> ELSE <<>>, pendingMsgs)
  /\ QueueUnchanged
  /\ UNCHANGED <<pc, outputQueue, knownInventory, sendDoneQueue, queueQuit, signalled>>

(* Mutant: what became known after it was queued is sent again.            *)
FreshMutant == invSendQueue

(* The queued inventory that is not known, each item once, in order.       *)
Fresh ==
  LET first(i) == \A j \in 1..(i - 1) : invSendQueue[j] # invSendQueue[i]
      keep == {i \in DOMAIN invSendQueue : first(i) /\ invSendQueue[i] \notin knownInventory}
  IN  [n \in 1..Cardinality(keep) |->
         invSendQueue[CHOOSE i \in keep : Cardinality({j \in keep : j <= i}) = n]]

(* The inv messages of one tick: full ones, and one with what is left.     *)
Batches(s) ==
  [n \in 1..((Len(s) + MaxInvTrickleSize - 1) \div MaxInvTrickleSize) |->
     InvMsg({s[i] : i \in {j \in DOMAIN s : (j - 1) \div MaxInvTrickleSize = n - 1}})]

Trickle ==
  /\ pc["queue"] = "select"
  /\ ~disconnect
  /\ invSendQueue # <<>>
  /\ invSendQueue' = <<>>
  /\ knownInventory' = knownInventory \cup ToSet(Fresh)
  /\ QueuePackets(Batches(Fresh), pendingMsgs)
  /\ QueueUnchanged
  /\ UNCHANGED <<pc, outputQueue, outputInvChan, sendDoneQueue, queueQuit, signalled>>

(* quit is closed: signal what is pending, then drain the channels until   *)
(* they are empty.                                                         *)
QueueSeesQuit ==
  /\ pc["queue"] = "select"
  /\ disconnect
  /\ Goto("queue", "drain")
  /\ Signal(pendingMsgs)
  /\ pendingMsgs' = <<>>
  /\ QueueUnchanged
  /\ UNCHANGED <<outputQueue, outputInvChan, waiting, invSendQueue, knownInventory, unwritten,
                 sendQueue, sendDoneQueue, queueQuit>>

QueueDrain ==
  /\ pc["queue"] = "drain"
  /\ outputQueue # <<>> \/ outputInvChan # <<>>
  /\ IF outputQueue # <<>> THEN Signal(<<Head(outputQueue)>>) ELSE UNCHANGED signalled
  /\ outputQueue' = IF outputQueue # <<>> THEN Tail(outputQueue) ELSE outputQueue
  /\ outputInvChan' = IF outputQueue # <<>> THEN outputInvChan ELSE Tail(outputInvChan)
  /\ QueueUnchanged
  /\ UNCHANGED <<pc, waiting, pendingMsgs, invSendQueue, knownInventory, unwritten, sendQueue,
                 sendDoneQueue, queueQuit>>

(* Mutant: queueHandler waits for outHandler.                              *)
QueueExitMutant ==
  /\ pc["queue"] = "drain"
  /\ outputQueue = <<>> /\ outputInvChan = <<>>
  /\ outQuit
  /\ queueQuit' = TRUE
  /\ Goto("queue", "done")
  /\ QueueUnchanged
  /\ UNCHANGED <<queueVars, unwritten, outputQueue, sendQueue, sendDoneQueue, signalled>>

QueueExit ==
  /\ pc["queue"] = "drain"
  /\ outputQueue = <<>> /\ outputInvChan = <<>>
  /\ queueQuit' = TRUE
  /\ Goto("queue", "done")
  /\ QueueUnchanged
  /\ UNCHANGED <<queueVars, unwritten, outputQueue, sendQueue, sendDoneQueue, signalled>>

QueueStep == QueueTake \/ QueueSendDone \/ QueueInv \/ Trickle \/ QueueSeesQuit \/ QueueDrain \/ QueueExit

-----------------------------------------------------------------------------
(* outHandler.                                                             *)

OutUnchanged == UNCHANGED <<negVars, inMsg, queueVars, outputQueue, stallVars, inQuit, queueQuit,
                            announced, received>>

OutTake ==
  /\ pc["out"] = "select"
  /\ sendQueue # <<>>
  /\ outMsg' = Head(sendQueue)
  /\ sendQueue' = Tail(sendQueue)
  /\ Goto("out", "tell")
  /\ OutUnchanged /\ UNCHANGED <<disconnect, sendDoneQueue, stallControl, outQuit, historyVars, signalled>>

OutTellStall ==
  /\ pc["out"] = "tell"
  /\ stallControl = <<>>
  /\ stallControl' = <<[kind |-> "send", cmd |-> outMsg.cmd]>>
  /\ Goto("out", "writecheck")
  /\ OutUnchanged /\ UNCHANGED <<disconnect, outMsg, sendQueue, sendDoneQueue, outQuit, historyVars, signalled>>

(* writeMessage succeeds without writing when the peer is disconnecting;   *)
(* a disconnect after that test makes the write fail.                      *)
WriteCheck ==
  /\ pc["out"] = "writecheck"
  /\ Goto("out", IF disconnect THEN "written" ELSE "write")
  /\ OutUnchanged
  /\ UNCHANGED <<disconnect, outMsg, sendQueue, sendDoneQueue, stallControl, outQuit, historyVars, signalled>>

Write ==
  /\ pc["out"] = "write"
  /\ ~disconnect
  /\ unwritten' = Tail(unwritten)
  /\ written' = IF outMsg.cmd \in {"inv", "pong"} THEN written ELSE written \cup {outMsg.id}
  /\ relayed' = [iv \in Invs |-> IF outMsg.cmd = "inv" /\ iv \in outMsg.id THEN relayed[iv] + 1 ELSE relayed[iv]]
  /\ Goto("out", "written")
  /\ OutUnchanged /\ UNCHANGED <<disconnect, outMsg, sendQueue, sendDoneQueue, stallControl, outQuit, signalled>>

WriteFails ==
  /\ pc["out"] = "write"
  /\ disconnect' = TRUE
  /\ Signal(<<outMsg>>)
  /\ outMsg' = None
  /\ Goto("out", "select")
  /\ OutUnchanged /\ UNCHANGED <<sendQueue, sendDoneQueue, stallControl, outQuit, historyVars>>

(* The done channel, then sendDoneQueue, which has room for one signal.    *)
OutDone ==
  /\ pc["out"] = "written"
  /\ sendDoneQueue = 0
  /\ sendDoneQueue' = 1
  /\ Signal(<<outMsg>>)
  /\ outMsg' = None
  /\ Goto("out", "select")
  /\ OutUnchanged /\ UNCHANGED <<disconnect, sendQueue, stallControl, outQuit, historyVars>>

OutSeesQuit ==
  /\ pc["out"] = "select"
  /\ disconnect
  /\ Goto("out", "waitqueue")
  /\ OutUnchanged
  /\ UNCHANGED <<disconnect, outMsg, sendQueue, sendDoneQueue, stallControl, outQuit, historyVars, signalled>>

OutExit ==
  /\ pc["out"] = "waitqueue"
  /\ queueQuit
  /\ Signal(sendQueue)
  /\ sendQueue' = <<>>
  /\ outQuit' = TRUE
  /\ Goto("out", "done")
  /\ OutUnchanged /\ UNCHANGED <<disconnect, outMsg, sendDoneQueue, stallControl, historyVars>>

OutStep == OutTake \/ OutTellStall \/ WriteCheck \/ Write \/ OutDone \/ OutSeesQuit \/ OutExit

-----------------------------------------------------------------------------
(* stallHandler.                                                           *)

StallUnchanged == UNCHANGED <<negVars, inMsg, outMsg, queueVars, outputQueue, sendQueue, sendDoneQueue,
                              quitVars, historyVars, signalled, announced, received>>

StallControl ==
  LET item == Head(stallControl) IN
  /\ pc["stall"] = "select"
  /\ stallControl # <<>>
  /\ stallControl' = <<>>
  /\ pendingResponses' =
       CASE item.kind = "send"    -> pendingResponses \cup Expects(item.cmd)
         [] item.kind = "receive" -> pendingResponses \ Settles(item.cmd)
         [] OTHER                 -> pendingResponses
  /\ answered' = IF item.kind = "receive" /\ item.cmd \in Answers
                   THEN answered \cup {c \in written \cap Callers : item.cmd \in Expects(Cmd[c])}
                   ELSE answered
  /\ StallUnchanged /\ UNCHANGED <<pc, disconnect, ioStopped>>

(* A tick finds an expected response past its deadline.                    *)
StallTick ==
  /\ pc["stall"] = "select"
  /\ pendingResponses # {}
  /\ ~disconnect
  /\ disconnect' = TRUE
  /\ StallUnchanged /\ UNCHANGED <<pc, stallControl, stallVars>>

(* A closed quit channel stays readable, so one of them is enough to get   *)
(* through this branch twice.                                              *)
StallSeesQuit ==
  /\ pc["stall"] = "select"
  /\ inQuit \/ outQuit
  /\ ioStopped' = TRUE
  /\ Goto("stall", IF ioStopped THEN "drain" ELSE "select")
  /\ StallUnchanged /\ UNCHANGED <<disconnect, stallControl, pendingResponses, answered>>

StallExit ==
  /\ pc["stall"] = "drain"
  /\ stallControl' = <<>>
  /\ Goto("stall", "done")
  /\ StallUnchanged /\ UNCHANGED <<disconnect, stallVars>>

StallStep == StallControl \/ StallSeesQuit \/ StallExit

-----------------------------------------------------------------------------
(* A connection that was just associated; negotiation runs.                *)
Init ==
  /\ pc = [g \in Handlers \cup Senders \cup {"neg"} |->
             IF g = "neg" THEN "run" ELSE IF g = "start" THEN "wait"
             ELSE IF g \in Callers THEN "check" ELSE "off"]
  /\ disconnect = FALSE
  /\ versionKnown = FALSE
  /\ negotiated = "no"
  /\ negotiateErr = <<>>
  /\ inMsg = None
  /\ outMsg = None
  /\ waiting = FALSE
  /\ outputQueue = <<>> /\ outputInvChan = <<>> /\ sendQueue = <<>>
  /\ sendDoneQueue = 0
  /\ stallControl = <<>>
  /\ pendingMsgs = <<>> /\ invSendQueue = <<>>
  /\ knownInventory = {}
  /\ pendingResponses = {}
  /\ ioStopped = FALSE
  /\ inQuit = FALSE /\ queueQuit = FALSE /\ outQuit = FALSE
  /\ unwritten = <<>> /\ written = {}
  /\ relayed = [iv \in Invs |-> 0]
  /\ signalled = [s \in WithDone \cup {"in"} |-> 0]
  /\ answered = {}
  /\ announced = 0
  /\ received = 0

Next ==
  \/ \E ok \in BOOLEAN : Negotiate(ok)
  \/ NegotiateSend
  \/ StartHandlers
  \/ StartFails
  \/ Disconnect
  \/ \E s \in Senders : QueueCheck(s) \/ Enqueue(s)
  \/ \E iv \in Invs : QueueInventory(iv)
  \/ \E cmd \in RecvCmds : Receive(cmd)
  \/ ReadFails
  \/ InStep
  \/ QueueStep
  \/ OutStep
  \/ WriteFails
  \/ StallStep
  \/ StallTick

Spec == Init /\ [][Next]_vars

(* Every goroutine that can run does, and trickle ticks come.  A write     *)
(* ends, with success or with an error, and the pending read fails when    *)
(* conn is closed; nothing else is assumed of the remote side.             *)
Fairness ==
  /\ WF_vars(\E ok \in BOOLEAN : Negotiate(ok)) /\ WF_vars(NegotiateSend)
  /\ WF_vars(StartHandlers \/ StartFails)
  /\ \A s \in Senders : WF_vars(QueueCheck(s) \/ Enqueue(s))
  /\ WF_vars(disconnect /\ ReadFails)
  /\ WF_vars(InStep) /\ WF_vars(QueueStep) /\ WF_vars(OutStep \/ WriteFails) /\ WF_vars(StallStep)

FairSpec == Spec /\ Fairness
-----------------------------------------------------------------------------
(* Properties.                                                             *)

Messages ==
  [cmd : {"getdata", "getheaders", "ping", "addr", "verack"}, id : Senders]
    \cup {Reject} \cup {Pong(n) : n \in 0..MaxRecv} \cup {InvMsg(S) : S \in SUBSET Invs}

(* Types of the variables, with the capacities of the channels.            *)
TypeOK ==
  /\ DOMAIN pc = Handlers \cup Senders \cup {"neg"}
  /\ {disconnect, versionKnown, waiting, ioStopped, inQuit, queueQuit, outQuit} \subseteq BOOLEAN
  /\ negotiated \in {"no", "ok", "failed"}
  /\ signalled \in [WithDone \cup {"in"} -> Nat] /\ sendDoneQueue \in 0..1
  /\ Len(sendQueue) <= 1
  /\ Len(negotiateErr) <= 1 /\ Len(stallControl) <= 1
  /\ outMsg \in Messages \cup {None}
  /\ ToSet(outputQueue) \cup ToSet(pendingMsgs) \cup ToSet(unwritten) \subseteq Messages
  /\ ToSet(outputInvChan) \cup ToSet(invSendQueue) \cup knownInventory \subseteq Invs
  /\ pendingResponses \subseteq Answers
  /\ received \in 0..MaxRecv

(* At most one message is on its way between queueHandler and outHandler,  *)
(* counting the signal that comes back, so that neither ever blocks on the *)
(* one-place channels sendQueue and sendDoneQueue.                         *)
OneInFlight ==
  LET busy == IF pc["out"] \in {"tell", "writecheck", "write", "written"} THEN 1 ELSE 0 IN
  /\ Len(sendQueue) + busy + sendDoneQueue <= 1
  /\ ~waiting => Len(sendQueue) + busy + sendDoneQueue = 0

(* Messages leave in the order in which queueHandler took them, none is    *)
(* skipped and none is sent twice, wherever they wait: the next message to *)
(* be written is the oldest that was not.                                  *)
WrittenInOrder ==
  pc["out"] = "write" /\ ~disconnect => unwritten # <<>> /\ outMsg = Head(unwritten)

(* A done channel is signalled at most once, and only for a message that   *)
(* was written or while the peer disconnects.                              *)
DoneOnce ==
  \A s \in WithDone \cup {"in"} :
    /\ signalled[s] <= 1
    /\ signalled[s] = 1 => disconnect \/ s \in written

(* A transaction is announced to the remote side at most once, even when   *)
(* it is queued twice before the next trickle.                             *)
InventoryOnce == \A iv \in TxInvs : relayed[iv] <= 1

(* Between queueHandler and outHandler one message at a time is on its     *)
(* way and messages are written in the order in which they were taken.     *)
HandoffInOrder == TypeOK /\ OneInFlight /\ WrittenInOrder

(* No done channel is signalled twice or too early, and no transaction is  *)
(* announced twice.                                                        *)
OnlyOnce == DoneOnce /\ InventoryOnce

(* Once every written request of a kind has been answered, no response of  *)
(* that kind is expected any more: outHandler announces a request to       *)
(* stallHandler before it writes it, and one answer settles the group.     *)
AnsweredIsNotPending ==
  \A c \in Callers :
    c \in answered /\ (\A d \in Callers : Cmd[d] = Cmd[c] => d = c) => Expects(Cmd[c]) \cap pendingResponses = {}

(* A message that was queued is written, unless the peer disconnects.      *)
QueuedIsWritten ==
  \A c \in Callers : pc[c] = "sent" ~> disconnect \/ c \in written

(* After a disconnect queueHandler ends.                                   *)
QueueHandlerEnds == disconnect /\ pc["queue"] # "off" ~> pc["queue"] = "done"

(* peer.go:1901: the handlers run once the protocol has been negotiated    *)
(* successfully.                                                           *)
HandlersNeedNegotiation == (\E h \in Handlers : pc[h] # "off") => negotiated = "ok"

(* peer.go:1158: when stallHandler goes away nothing is left waiting on    *)
(* it: after a disconnect outHandler ends.                                 *)
OutHandlerEnds == disconnect /\ pc["out"] # "off" ~> pc["out"] = "done"
=============================================================================
