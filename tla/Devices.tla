------------------------------- MODULE Devices -------------------------------
(***************************************************************************)
(* The simulated hardware: the clock and the list of pending interrupts    *)
(* (machine/interrupt.cc, the sorted list of threads/list.cc), the timer   *)
(* (machine/timer.cc), the disk with its track buffer (machine/disk.cc)    *)
(* and the console (machine/console.cc).                                   *)
(*                                                                         *)
(* Two threads use them: ConsoleTest (userprog/progtest.cc) and a thread   *)
(* that reads and writes the disk, one request at a time, as module        *)
(* SynchDisk shows.  Every step of a thread turns interrupts on at its     *)
(* end, which is one system tick.  Interrupts are handled one by one,      *)
(* before any thread runs again.                                           *)
(***************************************************************************)
EXTENDS Integers, Sequences, SequencesExt

CONSTANTS SystemTick, TimerTicks, ConsoleTime, RotationTime, SeekTime,
          SectorsPerTrack, NumSectors,
          Typed,       \* the characters a user types, the last of which is "q"
          MaxTicks     \* the bound on the clock

ASSUME DevicesAssumption ==
  /\ {SystemTick, TimerTicks, ConsoleTime, RotationTime, SeekTime, SectorsPerTrack,
      NumSectors, MaxTicks} \subseteq Nat \ {0}
  /\ Typed \in Seq({"a", "b", "q"})

EOF == "EOF"
Sector == 0 .. NumSectors - 1

VARIABLES
  totalTicks,  \* Statistics::totalTicks
  pending,     \* Interrupt::pending: records of a type and a time
  cpu,         \* "run"; "due": OneTick looks for interrupts; "idle": so does Idle
  disk,        \* [active, lastSector, bufferInit]
  arrived,     \* history: when the head came to its track
  user,        \* the thread that uses the disk
  incoming,    \* Console::incoming
  readAvail, writeDone,  \* the values of ConsoleTest's semaphores
  test,        \* where ConsoleTest is, and its variable ch
  keyboard,    \* the characters not yet read from the input file
  echoed       \* the characters written, without EOF

clockVars == <<totalTicks, pending, cpu>>
consoleVars == <<incoming, readAvail, writeDone, test, keyboard, echoed>>
diskVars == <<disk, arrived, user>>
vars == <<clockVars, diskVars, consoleVars>>

At(type, when) == [type |-> type, when |-> when]

-----------------------------------------------------------------------------
(* Interrupts.                                                              *)

\* Mutant: an interrupt goes before those of the same time and one tick later.
SortedInsert_Late(q, x) ==
  InsertAt(q, 1 + Len(SelectSeq(q, LAMBDA y : y.when < x.when - 1)), x)

\* List::SortedInsert: behind the elements with the same key.
SortedInsert(q, x) ==
  InsertAt(q, 1 + Len(SelectSeq(q, LAMBDA y : y.when <= x.when)), x)

Schedule(q, type, fromNow) == SortedInsert(q, At(type, totalTicks + fromNow))

Init ==
  /\ totalTicks = 0 /\ cpu = "run"
  /\ \E timer, console \in BOOLEAN :
       /\ LET q == IF timer THEN <<At("TimerInt", TimerTicks)>> ELSE <<>> IN
          pending = IF console THEN SortedInsert(q, At("ConsoleReadInt", ConsoleTime)) ELSE q
       /\ test = [at |-> IF console THEN "readAvail" ELSE "ended", ch |-> EOF]
  /\ disk = [active |-> FALSE, lastSector |-> 0, bufferInit |-> 0]
  /\ arrived = 0
  /\ user = "ready"
  /\ incoming = EOF /\ readAvail = 0 /\ writeDone = 0
  /\ keyboard = Typed /\ echoed = <<>>

\* OneTick at the end of a step that leaves the list q.
OneTick(q) ==
  /\ totalTicks + SystemTick <= MaxTicks
  /\ totalTicks' = totalTicks + SystemTick
  /\ cpu' = "due"
  /\ pending' = q

Blocked ==
  /\ user # "ready"
  /\ \/ test.at = "ended"
     \/ test.at = "readAvail" /\ readAvail = 0
     \/ test.at = "writeDone" /\ writeDone = 0

\* The handlers, run when interrupt x is off the list.
TimerExpired(x) ==
  /\ x.type = "TimerInt"
  /\ pending' = Schedule(Tail(pending), x.type, TimerTicks)
  /\ UNCHANGED <<diskVars, consoleVars>>

HandleInterrupt(x) ==
  /\ x.type = "DiskInt"
  /\ disk' = [disk EXCEPT !.active = FALSE]
  /\ user' = "ready"
  /\ pending' = Tail(pending)
  /\ UNCHANGED <<arrived, consoleVars>>

\* Mutant: a character is read although one is buffered.
Polled_Overwrites(c) == c

\* CheckCharAvail does nothing if a character is buffered or none is there.
Polled(c) == c /\ incoming = EOF

ReadChar ==
  /\ incoming' = Head(keyboard) /\ keyboard' = Tail(keyboard)
  /\ readAvail' = readAvail + 1
  /\ UNCHANGED <<writeDone, test, echoed>>

\* The user may also not have typed the next character yet.
CheckCharAvail(x) ==
  /\ x.type = "ConsoleReadInt"
  /\ pending' = Schedule(Tail(pending), x.type, ConsoleTime)
  /\ \/ Polled(keyboard # <<>>) /\ ReadChar
     \/ UNCHANGED consoleVars
  /\ UNCHANGED diskVars

WriteDone(x) ==
  /\ x.type = "ConsoleWriteInt"
  /\ writeDone' = writeDone + 1
  /\ pending' = Tail(pending)
  /\ UNCHANGED <<diskVars, incoming, readAvail, test, keyboard, echoed>>

Handler(x) == TimerExpired(x) \/ HandleInterrupt(x) \/ CheckCharAvail(x) \/ WriteDone(x)

\* The machine does not idle for the timer alone.
OnlyTimer == Len(pending) = 1 /\ Head(pending).type = "TimerInt"

\* CheckIfDue(FALSE) handles the first interrupt.
Due ==
  /\ pending # <<>> /\ Head(pending).when <= totalTicks
  /\ cpu = "idle" => ~OnlyTimer

\* OneTick and Idle call CheckIfDue(FALSE) until it returns FALSE.
CheckIfDue ==
  /\ cpu \in {"due", "idle"} /\ Due
  /\ Handler(Head(pending))
  /\ UNCHANGED <<totalTicks, cpu>>

\* It takes an interrupt that is not due off the list and puts it back.
NoneDue ==
  /\ cpu \in {"due", "idle"} /\ ~Due
  /\ pending' = IF pending = <<>> THEN <<>> ELSE SortedInsert(Tail(pending), Head(pending))
  /\ cpu' = "run"
  /\ UNCHANGED <<totalTicks, diskVars, consoleVars>>

\* Idle, when no thread is ready: CheckIfDue(TRUE) advances the clock to the
\* first interrupt and handles it, and the others due at that time follow.
Idle ==
  /\ cpu = "run" /\ Blocked
  /\ pending # <<>> /\ ~OnlyTimer /\ Head(pending).when <= MaxTicks
  /\ totalTicks' = Max({totalTicks, Head(pending).when})
  /\ cpu' = "idle"
  /\ UNCHANGED <<pending, diskVars, consoleVars>>

\* Idle halts the machine when nothing is pending but the timer.
Halt ==
  /\ cpu = "run" /\ Blocked
  /\ pending = <<>> \/ OnlyTimer
  /\ totalTicks' = IF OnlyTimer THEN Max({totalTicks, Head(pending).when}) ELSE totalTicks
  /\ cpu' = "halted"
  /\ UNCHANGED <<pending, diskVars, consoleVars>>

-----------------------------------------------------------------------------
(* The disk.  The head moves to the track of a sector, waits for the start *)
(* of the next sector to come by, and keeps reading the track into the      *)
(* track buffer from then on.                                               *)

Track(sector) == sector \div SectorsPerTrack
Distance(a, b) == IF a < b THEN b - a ELSE a - b

Seek(sector) == Distance(Track(sector), Track(disk.lastSector)) * SeekTime

\* TimeToSeek's result and its *rotation.
Rotation(sector) ==
  LET over == (totalTicks + Seek(sector)) % RotationTime IN
  IF over > 0 THEN RotationTime - over ELSE 0

ModuloDiff(to, from) ==
  (((to % SectorsPerTrack) - (from % SectorsPerTrack)) + SectorsPerTrack) % SectorsPerTrack

timeAfter(sector) == totalTicks + Seek(sector) + Rotation(sector)

\* Mutant: a sector that is passing by counts as read.
Buffered_TooSoon(sector) ==
  /\ Seek(sector) = 0
  /\ (timeAfter(sector) - disk.bufferInit) \div RotationTime
       >= ModuloDiff(sector, disk.bufferInit \div RotationTime)

\* The track buffer has the sector.
Buffered(sector) ==
  /\ Seek(sector) = 0
  /\ (timeAfter(sector) - disk.bufferInit) \div RotationTime
       > ModuloDiff(sector, disk.bufferInit \div RotationTime)

ComputeLatency(sector, writing) ==
  IF ~writing /\ Buffered(sector) THEN RotationTime
  ELSE Seek(sector) + Rotation(sector) + RotationTime
         + ModuloDiff(sector, timeAfter(sector) \div RotationTime) * RotationTime

UpdateLast(sector) ==
  [disk EXCEPT !.active = TRUE, !.lastSector = sector,
               !.bufferInit = IF Seek(sector) # 0 THEN timeAfter(sector) ELSE @]

\* The next time at which a sector begins.
RoundUp(t) == ((t + RotationTime - 1) \div RotationTime) * RotationTime

Request(sector, writing) ==
  /\ cpu = "run" /\ user = "ready" /\ ~disk.active
  /\ disk' = UpdateLast(sector)
  /\ arrived' = IF Seek(sector) = 0 THEN arrived ELSE RoundUp(totalTicks + Seek(sector))
  /\ user' = "waiting"
  /\ OneTick(Schedule(pending, "DiskInt", ComputeLatency(sector, writing)))
  /\ UNCHANGED consoleVars

\* The thread that uses the disk may also finish, or compute.
Finish ==
  /\ cpu = "run" /\ user = "ready"
  /\ user' = "finished"
  /\ OneTick(pending)
  /\ UNCHANGED <<disk, arrived, consoleVars>>

Compute ==
  /\ cpu = "run" /\ user = "ready"
  /\ OneTick(pending)
  /\ UNCHANGED <<diskVars, consoleVars>>

-----------------------------------------------------------------------------
(* The console and ConsoleTest, which echoes what is typed until a "q".     *)

TestAt(here) == cpu = "run" /\ test.at = here

\* readAvail->P()
WaitRead ==
  /\ TestAt("readAvail") /\ readAvail > 0
  /\ readAvail' = readAvail - 1
  /\ test' = [test EXCEPT !.at = "GetChar"]
  /\ OneTick(pending)
  /\ UNCHANGED <<diskVars, incoming, writeDone, keyboard, echoed>>

\* GetChar calls the handler for input, too.
GetChar ==
  /\ TestAt("GetChar")
  /\ test' = [at |-> "PutChar", ch |-> incoming]
  /\ incoming' = EOF
  /\ readAvail' = readAvail + 1
  /\ OneTick(pending)
  /\ UNCHANGED <<diskVars, writeDone, keyboard, echoed>>

\* PutChar calls WriteDone itself, besides scheduling the interrupt that will.
PutChar ==
  /\ TestAt("PutChar")
  /\ echoed' = IF test.ch = EOF THEN echoed ELSE Append(echoed, test.ch)
  /\ writeDone' = writeDone + 1
  /\ test' = [test EXCEPT !.at = "writeDone"]
  /\ OneTick(Schedule(pending, "ConsoleWriteInt", ConsoleTime))
  /\ UNCHANGED <<diskVars, incoming, readAvail, keyboard>>

\* writeDone->P(), and the test for "q".
WaitWrite ==
  /\ TestAt("writeDone") /\ writeDone > 0
  /\ writeDone' = writeDone - 1
  /\ test' = [test EXCEPT !.at = IF test.ch = "q" THEN "ended" ELSE "readAvail"]
  /\ OneTick(pending)
  /\ UNCHANGED <<diskVars, incoming, readAvail, keyboard, echoed>>

Next ==
  \/ CheckIfDue \/ NoneDue \/ Idle \/ Halt
  \/ \E sector \in Sector, writing \in BOOLEAN : Request(sector, writing)
  \/ Finish \/ Compute
  \/ WaitRead \/ GetChar \/ PutChar \/ WaitWrite

Spec == Init /\ [][Next]_vars
-----------------------------------------------------------------------------
(* Properties.                                                             *)

Pending(type) == SelectSeq(pending, LAMBDA x : x.type = type)

\* No interrupt is overdue when a thread runs: OneTick and Idle handle all that
\* are due, in the order of their times, although handlers schedule new ones.
\* The one exception is the timer, which Idle leaves when it is alone.
NothingOverdue ==
  cpu = "run" =>
    \A i \in DOMAIN pending :
      pending[i].when > totalTicks \/ OnlyTimer

\* A device's interrupt is outstanding exactly while the device is busy: the
\* disk's during a request, the console's poll always, the timer's always; so
\* no completion is lost, and no thread is woken twice for one request.  None
\* is overdue.  The machine halts by itself only when no disk request is
\* outstanding and the console is not in use, as the comment in
\* Interrupt::Idle has it.
InterruptsExact ==
  /\ NothingOverdue
  /\ Len(Pending("DiskInt")) = IF disk.active THEN 1 ELSE 0
  /\ disk.active = (user = "waiting")
  /\ Len(Pending("TimerInt")) <= 1 /\ Len(Pending("ConsoleReadInt")) <= 1
  /\ test.at # "ended" => Len(Pending("ConsoleReadInt")) = 1
  /\ cpu = "halted" => ~disk.active /\ Pending("ConsoleReadInt") = <<>>

\* Every character typed is echoed once and in order, whatever the EOFs that
\* GetChar's extra call of the read handler makes ConsoleTest echo besides; and
\* ConsoleTest does not sleep while a character is buffered for it.
EchoExact ==
  LET buffered == SelectSeq(<<IF test.at = "PutChar" THEN test.ch ELSE EOF, incoming>>,
                            LAMBDA c : c # EOF)
  IN  /\ echoed \o buffered \o keyboard = Typed
      /\ incoming # EOF /\ test.at = "readAvail" => readAvail > 0

\* The times at which sector passes under the head, from time t on.
Passes(sector, t) ==
  {d \in t .. t + RotationTime * (SectorsPerTrack + 1) :
     d % RotationTime = 0 /\ (d \div RotationTime) % SectorsPerTrack = sector % SectorsPerTrack}

\* A request ends when its sector has passed under the head for the first time
\* after the seek; a read ends early only if the sector has passed under the
\* head since it came to the track, and so is in the track buffer.
LatencyExact ==
  [][\A sector \in Sector, writing \in BOOLEAN :
       Request(sector, writing) =>
         LET done == totalTicks + ComputeLatency(sector, writing) IN
         \/ done = Min(Passes(sector, totalTicks + Seek(sector))) + RotationTime
         \/ /\ ~writing /\ Seek(sector) = 0 /\ done = totalTicks + RotationTime
            /\ Min(Passes(sector, arrived)) + RotationTime <= RoundUp(totalTicks)]_vars
==============================================================================
