------------------------------- MODULE Messages -------------------------------
(***************************************************************************)
(* Thread::SendMsg and Thread::GetMsg (threads/thread.cc): one table of    *)
(* messages for all threads.  Neither makes a call in which the thread     *)
(* could lose the CPU, so each is one step.  Messages are numbered in the  *)
(* order they are sent.                                                    *)
(***************************************************************************)
EXTENDS Client

CONSTANTS
  Slot,          \* 0 .. 19, the entries of the table
  MaxMsgs        \* bound: messages ever sent

ASSUME MessagesAssumption == Slot \subseteq Nat /\ MaxMsgs \in Nat

VARIABLES
  msg,           \* the valid entries: slot -> [des, n, gets]
  sent, got      \* history: how many messages were sent; the ones received

messageVars == <<msg, sent, got>>

MessagesInit == msg = [i \in {} |-> 0] /\ sent = 0 /\ got = <<>>

FirstIn(slots) == CHOOSE i \in slots : \A j \in slots : i <= j

\* SendMsg fails when the table is full; gets says how many messages had been
\* received before.
SendMsg(t, des) ==
  LET free == Slot \ DOMAIN msg IN
  /\ pc[t] = "idle" /\ free # {} /\ sent < MaxMsgs
  /\ sent' = sent + 1
  /\ msg' = [i \in DOMAIN msg \cup {FirstIn(free)} |->
               IF i \in DOMAIN msg THEN msg[i]
               ELSE [des |-> des, n |-> sent', gets |-> Len(got)]]
  /\ UNCHANGED <<monitorVars, pc, got>>

\* Mutant: the entry stays valid.
Invalidate_Not(i) == msg

Invalidate(i) == Restrict(msg, DOMAIN msg \ {i})

\* GetMsg returns FALSE when there is no message for the caller.
GetMsg(t) ==
  LET mine == {i \in DOMAIN msg : msg[i].des = t} IN
  /\ pc[t] = "idle" /\ mine # {}
  /\ got' = Append(got, msg[FirstIn(mine)].n)
  /\ msg' = Invalidate(FirstIn(mine))
  /\ UNCHANGED <<monitorVars, pc, sent>>

MessagesNext ==
  \E t \in Thread : GetMsg(t) \/ \E des \in Thread : SendMsg(t, des)

\* The table by itself; module Clients runs it beside other services.
MessagesSpec ==
  /\ MonitorInit /\ MessagesInit /\ pc = [t \in Thread |-> "idle"]
  /\ [][MessagesNext]_<<monitorVars, pc, messageVars>>
-----------------------------------------------------------------------------
(* Properties.                                                             *)

\* SendMsg and GetMsg neither lose a message nor deliver one twice: each one
\* sent was received once or is in one slot.  A message overtakes another only
\* through a slot that a GetMsg freed in between: GetMsg returns the lowest
\* slot, not the oldest message.
MessagesExact ==
  LET there == {msg[i].n : i \in DOMAIN msg} IN
  /\ Cardinality(there) = Cardinality(DOMAIN msg)
  /\ Cardinality(Range(got)) = Len(got)
  /\ there \cup Range(got) = 1 .. sent /\ there \cap Range(got) = {}
  /\ \A i, j \in DOMAIN msg : i < j /\ msg[i].n > msg[j].n => msg[i].gets > msg[j].gets
==============================================================================
