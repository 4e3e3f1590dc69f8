------------------------------ MODULE PostOffice ------------------------------
(***************************************************************************)
(* Machines that exchange mail: the network device (machine/network.cc),   *)
(* the post office (network/post.cc) and MailTest (network/nettest.cc).    *)
(*                                                                         *)
(* Each machine has a postal worker and main, which runs MailTest; on some *)
(* another thread sends a letter to mailbox 2 of its own machine.  A       *)
(* mailbox is a queue; that SynchList makes it one is shown in module      *)
(* SynchList.  A machine's socket holds the packets on their way to it;    *)
(* the network keeps their order and may lose them.                        *)
(***************************************************************************)
EXTENDS Client

CONSTANTS Machine,
          Busy        \* the machines on which a second thread sends

Main(m) == <<m, "main">>
Worker(m) == <<m, "worker">>
Other(m) == <<m, "other">>
messageAvailable(m) == <<m, "messageAvailable">>
messageSent(m) == <<m, "messageSent">>
sendLock(m) == m
Senders(m) == {Main(m)} \cup IF m \in Busy THEN {Other(m)} ELSE {}
Box == 0 .. 2

ASSUME PostOfficeAssumption ==
  /\ Cardinality(Machine) = 2
  /\ Thread = (Machine \X {"main", "worker"}) \cup (Busy \X {"other"})
  /\ Busy \subseteq Machine
  /\ Semaphore = Machine \X {"messageAvailable", "messageSent"}
  /\ InitValue = [s \in Semaphore |-> 0]
  /\ Lock = Machine

VARIABLES
  lossy,       \* is the chance that a packet gets through less than 1?
  socket,      \* the packets that wait at each machine's UNIX socket
  inbox,       \* Network::inHdr and inbox: <<>> or one packet
  sendInt,     \* NetworkSendInt interrupts that are pending
  mail,        \* the mailboxes of each machine
  letter,      \* what each thread sends, or has in its hands
  halted,
  sent, put    \* history: packets handed to each socket; letters delivered

netVars == <<lossy, socket, inbox, sendInt, mail, letter, halted, sent, put>>
poVars == <<monitorVars, pc, netVars>>

far(m) == CHOOSE n \in Machine : n # m

\* The first letter of MailTest, to be answered to mailbox 1, and the other
\* thread's letter.
Hello(m) == [from |-> m, to |-> far(m), box |-> 0, reply |-> 1, what |-> "hello"]
Note(m)  == [from |-> m, to |-> m, box |-> 2, reply |-> 2, what |-> "note"]
\* Mutant: the answer goes to the mailbox the letter came in.
Ack_SameBox(m, l) == [from |-> m, to |-> l.from, box |-> l.box, reply |-> 1, what |-> "ack"]

\* The acknowledgement goes where the letter asks for.
Ack(m, l) == [from |-> m, to |-> l.from, box |-> l.reply, reply |-> 1, what |-> "ack"]
NoLetter == [what |-> "none"]

Init ==
  /\ MonitorInit
  /\ pc = [t \in Thread |-> IF t[2] = "worker" THEN "available" ELSE "Send"]
  /\ lossy \in BOOLEAN
  /\ socket = [m \in Machine |-> <<>>] /\ sent = [m \in Machine |-> <<>>]
  /\ inbox = [m \in Machine |-> <<>>]
  /\ sendInt = [m \in Machine |-> 0]
  /\ mail = [m \in Machine |-> [b \in Box |-> <<>>]] /\ put = [m \in Machine |-> <<>>]
  /\ letter = [t \in Thread |-> CASE t[2] = "main"   -> Hello(t[1])
                                  [] t[2] = "other"  -> Note(t[1])
                                  [] t[2] = "worker" -> NoLetter]
  /\ halted = [m \in Machine |-> FALSE]
-----------------------------------------------------------------------------
(* PostOffice::Send and Network::Send                                       *)

\* Mutant: two threads may be in Network::Send at once.
AcquireSend_Skipped(t) ==
  Step(t, "Send", "network") /\ UNCHANGED <<monitorVars, netVars>>

AcquireSend(t) ==
  Step(t, "Send", "network") /\ Acquire(t, sendLock(t[1])) /\ UNCHANGED netVars

\* Network::Send schedules the interrupt whether or not the packet is lost.
\* sendBusy is never set, so its assertion always holds.
NetworkSend(t, lost) ==
  LET to == letter[t].to IN
  /\ Step(t, "network", "sent")
  /\ lost => lossy
  /\ sendInt' = [sendInt EXCEPT ![t[1]] = @ + 1]
  /\ IF lost THEN UNCHANGED <<socket, sent>>
     ELSE /\ socket' = [socket EXCEPT ![to] = Append(@, letter[t])]
          /\ sent' = [sent EXCEPT ![to] = Append(@, letter[t])]
  /\ UNCHANGED <<monitorVars, lossy, inbox, mail, letter, halted, put>>

WaitSent(t) ==
  Step(t, "sent", "Release") /\ P(t, messageSent(t[1])) /\ UNCHANGED netVars

\* MailTest goes on to Receive(0) after the hello, Receive(1) after the ack.
AfterSend(t) ==
  CASE t[2] = "other" -> "idle"
    [] letter[t].what = "hello" -> "Receive0"
    [] OTHER -> "Receive1"

ReleaseSend(t) ==
  Step(t, "Release", AfterSend(t)) /\ Release(t, sendLock(t[1])) /\ UNCHANGED netVars

(* PostOffice::Receive, in MailTest                                         *)

Take(t, box) ==
  LET m == t[1] IN
  /\ mail[m][box] # <<>>
  /\ mail' = [mail EXCEPT ![m][box] = Tail(@)]
  /\ UNCHANGED <<monitorVars, lossy, socket, inbox, sendInt, sent, put>>

ReceiveHello(t) ==
  /\ Step(t, "Receive0", "Send") /\ Take(t, 0)
  /\ letter' = [letter EXCEPT ![t] = Ack(t[1], Head(mail[t[1]][0]))]
  /\ UNCHANGED halted

\* MailTest ends with Halt.
ReceiveAck(t) ==
  /\ Step(t, "Receive1", "idle") /\ Take(t, 1)
  /\ halted' = [halted EXCEPT ![t[1]] = TRUE]
  /\ UNCHANGED letter

(* The interrupt handlers                                                   *)

\* SendDone, PacketSent
SendDone(m) ==
  /\ sendInt[m] > 0
  /\ sendInt' = [sendInt EXCEPT ![m] = @ - 1]
  /\ V(messageSent(m))
  /\ UNCHANGED <<pc, lossy, socket, inbox, mail, letter, halted, sent, put>>

\* Mutant: a packet is read although one is buffered.
CanPoll_Always(m) == socket[m] # <<>>

CanPoll(m) == inbox[m] = <<>> /\ socket[m] # <<>>

\* CheckPktAvail, IncomingPacket
CheckPktAvail(m) ==
  /\ CanPoll(m)
  /\ inbox' = [inbox EXCEPT ![m] = <<Head(socket[m])>>]
  /\ socket' = [socket EXCEPT ![m] = Tail(@)]
  /\ V(messageAvailable(m))
  /\ UNCHANGED <<pc, lossy, sendInt, mail, letter, halted, sent, put>>

(* PostOffice::PostalDelivery                                               *)

WaitAvailable(w) ==
  Step(w, "available", "receive") /\ P(w, messageAvailable(w[1])) /\ UNCHANGED netVars

\* Network::Receive; without a packet the header is empty.
NetworkReceive(w) ==
  /\ Step(w, "receive", "put")
  /\ letter' = [letter EXCEPT ![w] = IF inbox[w[1]] = <<>> THEN NoLetter
                                     ELSE Head(inbox[w[1]])]
  /\ inbox' = [inbox EXCEPT ![w[1]] = <<>>]
  /\ UNCHANGED <<monitorVars, lossy, socket, sendInt, mail, halted, sent, put>>

PutMail(w) ==
  LET m == w[1]  l == letter[w] IN
  /\ Step(w, "put", "available")
  /\ mail' = [mail EXCEPT ![m][l.box] = Append(@, l)]
  /\ put' = [put EXCEPT ![m] = Append(@, l)]
  /\ letter' = [letter EXCEPT ![w] = NoLetter]
  /\ UNCHANGED <<monitorVars, lossy, socket, inbox, sendInt, halted, sent>>

Sending(t) ==
  \/ AcquireSend(t) \/ \E lost \in BOOLEAN : NetworkSend(t, lost)
  \/ WaitSent(t) \/ ReleaseSend(t)

MailTest(t) == Sending(t) \/ ReceiveHello(t) \/ ReceiveAck(t)

PostalDelivery(w) == WaitAvailable(w) \/ NetworkReceive(w) \/ PutMail(w)

Running(m) ==
  \/ MailTest(Main(m)) \/ (m \in Busy /\ Sending(Other(m)))
  \/ SendDone(m) \/ CheckPktAvail(m) \/ PostalDelivery(Worker(m))

Next == \E m \in Machine : ~halted[m] /\ Running(m)

\* A thread that can run does (each takes sendLock at most twice, so that a
\* waiting one gets it), a pending interrupt comes, the network is polled.
Fairness ==
  \A m \in Machine :
    /\ WF_poVars(~halted[m] /\ MailTest(Main(m)))
    /\ m \in Busy => WF_poVars(~halted[m] /\ Sending(Other(m)))
    /\ WF_poVars(~halted[m] /\ SendDone(m))
    /\ WF_poVars(~halted[m] /\ CheckPktAvail(m))
    /\ WF_poVars(~halted[m] /\ PostalDelivery(Worker(m)))

Spec == Init /\ [][Next]_poVars /\ Fairness
-----------------------------------------------------------------------------
(* Properties.                                                             *)

At(m, label) == {t \in Thread : t[1] = m /\ pc[t] = label}

\* One completed or pending send interrupt for each thread in Send that has
\* not taken it, and never more than one: the guard that sendBusy was meant to
\* be is not needed, sendLock keeps the device to one packet.  The worker calls
\* Network::Receive once for each packet in the inbox: it is never handed an
\* empty header, and no packet is overwritten before it is taken.
SignalsExact ==
  \A m \in Machine :
    /\ sendInt[m] + value[messageSent(m)] = Cardinality(At(m, "sent"))
    /\ Cardinality(At(m, "sent")) <= 1
    /\ Len(inbox[m]) = value[messageAvailable(m)] + Cardinality(At(m, "receive"))

\* "In order but unreliably": every packet that was not lost in Network::Send
\* is delivered once, and in the order of the sends; what is under way is in
\* the worker's hands, the inbox and the socket.  Nobody sends to a machine
\* that has halted, whose socket is gone: MailTest halts only when the other
\* side has nothing more to send.
InOrderDelivery ==
  /\ \A m \in Machine :
       sent[m] = put[m] \o (IF pc[Worker(m)] = "put" THEN <<letter[Worker(m)]>> ELSE <<>>)
                 \o inbox[m] \o socket[m]
  /\ \A t \in Thread : pc[t] = "network" /\ ~halted[t[1]] => ~halted[letter[t].to]

\* Without loss both machines finish MailTest.  (A lost letter is not sent
\* again: MailTest then waits for ever.)
MailTestEnds == ~lossy ~> \A m \in Machine : halted[m]
==============================================================================
