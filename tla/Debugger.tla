------------------------------ MODULE Debugger ------------------------------
(* The debugging server: GdbServer's sessions, the commands of GdbCommands *)
(* that touch the machine, the breakpoints GdbData remembers, and the loop *)
(* of Emulator::Process that "c" starts. The guest is reduced to its code: *)
(* memory is a row of half-words, an instruction starts at each of Starts  *)
(* and the guest jumps between them. The client is one gdb after another:  *)
(* it inserts breakpoints on instructions, removes those it has inserted,  *)
(* and may hang up at any moment. The guest runs at physical addresses,    *)
(* its vectors have direct mode, it has no ebreak of its own and does not  *)
(* overwrite an instruction that carries a breakpoint.                     *)
EXTENDS Integers

CONSTANTS
    HalfCount,      \* half-words of memory
    Starts,         \* where instructions start
    Length,         \* half-words of the instruction at each start
    Vector,         \* the trap handler
    OwnHalves       \* half-words of the guest's own code

Addresses == 0 .. HalfCount - 1
Covered(a, n) == a .. a + n - 1

(* Half-words by meaning: 0, the two of BreakInsn, and ShortBreakInsn.     *)
Zero == 0
BreakLow == 1
BreakHigh == 2
ShortBreak == 3
Halves == {Zero, BreakLow, BreakHigh, ShortBreak} \cup OwnHalves

ASSUME CodeAssumption ==
    /\ HalfCount \in Nat
    /\ OwnHalves # {}
    /\ OwnHalves \subseteq Nat \ {BreakLow, BreakHigh, ShortBreak}
ASSUME LayoutAssumption ==
    /\ Starts \subseteq Addresses
    /\ Length \in [Starts -> {1, 2}]
    /\ Vector \in Starts
    /\ \A s \in Starts : Covered(s, Length[s]) \subseteq Addresses
    /\ \A s, t \in Starts : s # t =>
           Covered(s, Length[s]) \cap Covered(t, Length[t]) = {}

VARIABLES
    memory,
    saved,          \* GdbData::m_MemoryValues: low and high half, or NoValue
    pc,
    event,          \* the trap event of the last cycle
    mode,           \* what the server does
    client,         \* the peer of the session
    reply,          \* the response under way
    own,            \* history: memory as the guest and the loader left it
    inserted        \* breakpoints this client has inserted

vars == <<memory, saved, pc, event, mode, client, reply, own, inserted>>
machine == <<memory, pc, event, own>>

NoValue == <<>>
NoEvent == [type |-> "None", cause |-> 0]
IllegalInstruction == 2
Breakpoint == 3
MSI == 3                        \* interrupts have codes of their own
MTI == 7
Events == {NoEvent} \cup [type : {"Exception", "Interrupt"}, cause : {2, 3, 7}]

Modes == {"listen", "receive", "run", "send", "exited"}

-----------------------------------------------------------------------------
(* One cycle of the machine (System::ProcessCycle), as the server sees it. *)
At(a) == IF a \in Addresses THEN memory[a] ELSE Zero

IsBreakAt(a) == memory[a] = BreakLow /\ At(a + 1) = BreakHigh

TakeTrap(type, cause) ==
    /\ pc' = Vector
    /\ event' = [type |-> type, cause |-> cause]
    /\ UNCHANGED <<memory, own>>

(* An interrupt comes before the instruction.                              *)
Interrupt == \E cause \in {MSI, MTI} : TakeTrap("Interrupt", cause)

Ebreak == IsBreakAt(pc) /\ TakeTrap("Exception", Breakpoint)

(* Any other instruction may raise an exception, and 0 always does; one    *)
(* cause stands for all that are not breakpoints.                          *)
Illegal ==
    /\ ~IsBreakAt(pc)
    /\ memory[pc] # ShortBreak
    /\ TakeTrap("Exception", IllegalInstruction)

Guarded == UNION {Covered(s, Length[s]) :
                      s \in {t \in Starts : saved[t] # NoValue}}

Executes ==
    /\ ~IsBreakAt(pc)
    /\ memory[pc] \notin {Zero, ShortBreak}
    /\ pc' \in Starts
    /\ event' = NoEvent
    /\ \/ UNCHANGED <<memory, own>>
       \/ \E a \in Addresses \ Guarded, h \in OwnHalves :
              /\ memory' = [memory EXCEPT ![a] = h]
              /\ own' = [own EXCEPT ![a] = h]

(* The executor has no case for c.ebreak: Executor::Error ends the program.*)
ExecutorError ==
    /\ memory[pc] = ShortBreak
    /\ mode' = "exited"
    /\ UNCHANGED <<machine, reply>>

ProcessCycle == Interrupt \/ Ebreak \/ Illegal \/ Executes

StopsAnyCause(e) == e.cause = Breakpoint    \* defect: no test of the type

(* Emulator::IsStopConditionFilledPost under EmulationStop_Breakpoint.     *)
IsStopConditionFilledPost(e) ==
    e.type = "Exception" /\ e.cause = Breakpoint

-----------------------------------------------------------------------------
(* GdbData keeps 64-bit numbers: a short value is extended with zeroes, a  *)
(* value that is not there reads as zero.                                  *)
PushOverwrites(a, value) ==         \* defect: the last value wins
    saved' = [saved EXCEPT ![a] = value]

PushMemoryValue(a, value) ==
    saved' = IF saved[a] = NoValue THEN [saved EXCEPT ![a] = value] ELSE saved

PopMemoryValue(a) == IF saved[a] = NoValue THEN <<Zero, Zero>> ELSE saved[a]

ReadMemory(a, n) == <<memory[a], IF n = 2 THEN memory[a + 1] ELSE Zero>>

WriteMemory(a, n, value) ==
    memory' = [x \in Addresses |-> CASE x = a               -> value[1]
                                     [] n = 2 /\ x = a + 1 -> value[2]
                                     [] OTHER               -> memory[x]]

BreakSwapped(n) ==                  \* defect: the halves in wrong order
    IF n = 2 THEN <<BreakHigh, BreakLow>> ELSE <<ShortBreak, Zero>>

BreakValue(n) ==
    IF n = 2 THEN <<BreakLow, BreakHigh>> ELSE <<ShortBreak, Zero>>

IsMemoryAddress(a) == a \in Addresses
IsIoAddress(a) == a \notin Addresses        \* the client asks for either

(* Bus::IsValidAddress wants memory and a device at one address.           *)
IsValidAddress(a) == IsMemoryAddress(a) /\ IsIoAddress(a)

-----------------------------------------------------------------------------
(* A command: received whole and acknowledged, processed, answered.        *)
Receives == mode = "receive" /\ client = "connected"
Answers(r) == mode' = "send" /\ reply' = r
NoReply == "none"
Filler == "filler"              \* "cd" for every byte

InsertBreakPoint(a) ==
    /\ Receives
    /\ PushMemoryValue(a, ReadMemory(a, Length[a]))
    /\ WriteMemory(a, Length[a], BreakValue(Length[a]))
    /\ inserted' = inserted \cup {a}
    /\ Answers("OK")
    /\ UNCHANGED <<pc, event, client, own>>

RemoveBreakPoint(a) ==
    /\ Receives
    /\ a \in inserted
    /\ WriteMemory(a, Length[a], PopMemoryValue(a))
    /\ saved' = [saved EXCEPT ![a] = NoValue]
    /\ inserted' = inserted \ {a}
    /\ Answers("OK")
    /\ UNCHANGED <<pc, event, client, own>>

(* "m": the bytes, filler, or E08 if the read fails.                       *)
ReadCommand(a) ==
    /\ Receives
    /\ Answers(IF IsValidAddress(a) THEN "bytes" ELSE Filler)
    /\ UNCHANGED <<machine, saved, client, inserted>>

(* "g", "?", "H", "q" and "v": answered without a change.                  *)
Query ==
    /\ Receives
    /\ Answers("info")
    /\ UNCHANGED <<machine, saved, client, inserted>>

(* "s": one cycle, then the answer.                                        *)
Step ==
    /\ Receives
    /\ ExecutorError \/ (ProcessCycle /\ Answers("T05"))
    /\ UNCHANGED <<saved, client, inserted>>

Continue ==
    /\ Receives
    /\ mode' = "run"
    /\ UNCHANGED <<machine, saved, client, reply, inserted>>

(* One turn of the loop in Emulator::Process.                              *)
RunCycle ==
    /\ mode = "run"
    /\ \/ /\ ProcessCycle
          /\ IF IsStopConditionFilledPost(event')
             THEN Answers("S05")
             ELSE UNCHANGED <<mode, reply>>
       \/ ExecutorError
    /\ UNCHANGED <<saved, client, inserted>>

(* GdbCommandFactory::Parse and the sizes of breakpoints: anything else    *)
(* ends the program.                                                       *)
Unsupported ==
    /\ Receives
    /\ mode' = "exited"
    /\ UNCHANGED <<machine, saved, client, reply, inserted>>

(* Sending to a peer that has left raises a signal, or is not noticed.     *)
SendResponse ==
    /\ mode = "send"
    /\ \/ mode' = "receive"
       \/ client = "gone" /\ mode' = "exited"
    /\ reply' = NoReply
    /\ UNCHANGED <<machine, saved, client, inserted>>

(* ReceiveCommand fails: the peer has left, or it sent what is not a       *)
(* packet (the interrupt character, a wrong checksum). The socket is not   *)
(* closed; a peer that is still there is no longer served.                 *)
EndSession ==
    /\ mode = "receive"
    /\ mode' = "listen"
    /\ client' = "none"
    /\ UNCHANGED <<machine, saved, reply, inserted>>

-----------------------------------------------------------------------------
(* A new gdb connects; it knows of no breakpoints.                         *)
Accept ==
    /\ mode = "listen"
    /\ mode' = "receive"
    /\ client' = "connected"
    /\ inserted' = {}
    /\ UNCHANGED <<machine, saved, reply>>

HangUp ==
    /\ client = "connected"
    /\ client' = "gone"
    /\ UNCHANGED <<machine, saved, mode, reply, inserted>>

Init ==
    /\ own \in [Addresses -> OwnHalves]
    /\ memory = own
    /\ saved = [a \in Starts |-> NoValue]
    /\ pc \in Starts
    /\ event = NoEvent
    /\ mode = "listen"
    /\ client = "none"
    /\ reply = NoReply
    /\ inserted = {}

Next ==
    \/ \E a \in Starts : InsertBreakPoint(a)
    \/ \E a \in Starts : RemoveBreakPoint(a)
    \/ \E a \in 0 .. HalfCount : ReadCommand(a)
    \/ Query
    \/ Step
    \/ Continue
    \/ RunCycle
    \/ Unsupported
    \/ SendResponse
    \/ EndSession
    \/ Accept
    \/ HangUp

Spec == Init /\ [][Next]_vars
-----------------------------------------------------------------------------
(* Every variable stays in its range.                                      *)
TypeOK ==
    /\ memory \in [Addresses -> Halves]
    /\ saved \in [Starts -> (Halves \X Halves) \cup {NoValue}]
    /\ pc \in Starts
    /\ event \in Events
    /\ mode \in Modes
    /\ client \in {"none", "connected", "gone"}
    /\ reply \in {NoReply, "OK", "bytes", Filler, "info", "T05", "S05"}
    /\ own \in [Addresses -> OwnHalves]
    /\ inserted \subseteq Starts

(* GdbCommandInsertBreakPoint, GdbCommandRemoveBreakPoint and GdbData:     *)
(* through inserting twice, removing, sessions that break off and clients  *)
(* that start afresh, an instruction is either the guest's own or a        *)
(* breakpoint whose saved value is the guest's own, and whatever a client  *)
(* has inserted it can remove.                                             *)
OwnValue(a) == <<own[a], IF Length[a] = 2 THEN own[a + 1] ELSE Zero>>

Patched(a) == saved[a] # NoValue

CodeRecoverable ==
    /\ \A a \in Starts :
           IF Patched(a)
           THEN /\ saved[a] = OwnValue(a)
                /\ ReadMemory(a, Length[a]) = BreakValue(Length[a])
           ELSE \A x \in Covered(a, Length[a]) : memory[x] = own[x]
    /\ \A a \in inserted : Patched(a)

(* Emulator::Process: "c" is answered only when the guest has run into a   *)
(* breakpoint, never for another trap, not even the software interrupt     *)
(* that has the same code.                                                 *)
StopIsBreakpoint == [][mode = "run" /\ mode' = "send" => Patched(pc)]_vars

(* Emulator::Process: a guest that reaches a breakpoint stops there, unless*)
(* an interrupt is taken first.                                            *)
BreakpointStops ==
    [][mode = "run" /\ Patched(pc) /\ <<pc, mode>>' # <<pc, mode>> =>
           mode' = "send" \/ event'.type = "Interrupt"]_vars

(* The same of the breakpoints of four bytes.                              *)
LongBreakpointStops ==
    [][mode = "run" /\ Patched(pc) /\ Length[pc] = 2
       /\ <<pc, mode>>' # <<pc, mode>> =>
           mode' = "send" \/ event'.type = "Interrupt"]_vars
=============================================================================
