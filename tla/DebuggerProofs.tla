--------------------------- MODULE DebuggerProofs ---------------------------
(* Breakpoints keep the guest's code recoverable for every layout of the   *)
(* code, and "c" stops at breakpoints and nowhere else.                    *)
EXTENDS Debugger, TLAPS

(* The numbers that stand for the patched half-words are distinct from the *)
(* guest's own.                                                            *)
LEMMA OwnIsNotBreak ==
    /\ OwnHalves \subseteq Halves
    /\ BreakLow \notin OwnHalves
    /\ ShortBreak \notin OwnHalves
    /\ BreakLow # Zero /\ BreakLow # ShortBreak /\ ShortBreak # Zero
  BY CodeAssumption DEF Halves, BreakLow, BreakHigh, ShortBreak, Zero

(* An instruction covers its start and, if it is long, the half behind it. *)
LEMMA CoveredParts ==
    ASSUME NEW a \in Starts
    PROVE  /\ a \in Covered(a, Length[a])
           /\ Covered(a, Length[a]) \subseteq Addresses
           /\ Length[a] = 2 => a + 1 \in Covered(a, Length[a])
           /\ \A x \in Covered(a, Length[a]) :
                  x = a \/ (Length[a] = 2 /\ x = a + 1)
  <1>1. a \in Int /\ Length[a] \in {1, 2}
    BY LayoutAssumption, CodeAssumption DEF Addresses
  <1>2. QED
    BY <1>1, LayoutAssumption DEF Covered

(* What a read delivers.                                                   *)
LEMMA ReadTyped ==
    ASSUME memory \in [Addresses -> Halves], NEW a \in Starts
    PROVE  ReadMemory(a, Length[a]) \in Halves \X Halves
  <1>1. a \in Addresses /\ (Length[a] = 2 => a + 1 \in Addresses)
    BY CoveredParts
  <1>2. Zero \in Halves
    BY DEF Halves
  <1>3. QED
    BY <1>1, <1>2 DEF ReadMemory

(* What a write changes.                                                   *)
LEMMA WriteEffect ==
    ASSUME memory \in [Addresses -> Halves], NEW a \in Starts,
           NEW value \in Halves \X Halves, WriteMemory(a, Length[a], value)
    PROVE  /\ memory' \in [Addresses -> Halves]
           /\ memory'[a] = value[1]
           /\ Length[a] = 2 => memory'[a + 1] = value[2]
           /\ \A x \in Addresses \ Covered(a, Length[a]) :
                  memory'[x] = memory[x]
  <1>1. a \in Int /\ Length[a] \in {1, 2} /\ a \in Addresses
    BY LayoutAssumption, CodeAssumption DEF Addresses
  <1>2. Length[a] = 2 => a + 1 \in Addresses
    BY CoveredParts
  <1>3. value[1] \in Halves /\ value[2] \in Halves
    OBVIOUS
  <1>4. a + 1 # a
    BY <1>1
  <1>5. \A x \in Addresses \ Covered(a, Length[a]) :
            x # a /\ ~(Length[a] = 2 /\ x = a + 1)
    BY CoveredParts
  <1>6. QED
    BY <1>1, <1>2, <1>3, <1>4, <1>5 DEF WriteMemory

(* A breakpoint is a pair of half-words.                                   *)
LEMMA BreakTyped ==
    ASSUME NEW n PROVE BreakValue(n) \in Halves \X Halves
  BY DEF BreakValue, Halves

-----------------------------------------------------------------------------
(* A trap leaves the code alone and goes to the vector.                    *)
LEMMA TrapTyped ==
    ASSUME TypeOK, NEW type \in {"Exception", "Interrupt"},
           NEW cause \in {2, 3, 7}, TakeTrap(type, cause)
    PROVE  /\ memory' \in [Addresses -> Halves] /\ pc' \in Starts
           /\ event' \in Events /\ own' \in [Addresses -> OwnHalves]
           /\ UNCHANGED <<memory, own>>
  BY LayoutAssumption DEF TypeOK, TakeTrap, Events

(* A cycle changes the code only where the guest stores its own halves,    *)
(* and never under a breakpoint.                                           *)
LEMMA CycleEffect ==
    ASSUME TypeOK, ProcessCycle
    PROVE  /\ memory' \in [Addresses -> Halves] /\ pc' \in Starts
           /\ event' \in Events /\ own' \in [Addresses -> OwnHalves]
           /\ \/ UNCHANGED <<memory, own>>
              \/ \E a \in Addresses \ Guarded, h \in OwnHalves :
                     /\ memory' = [memory EXCEPT ![a] = h]
                     /\ own' = [own EXCEPT ![a] = h]
  <1>1. CASE Interrupt
    <2>1. PICK cause \in {MSI, MTI} : TakeTrap("Interrupt", cause)
      BY <1>1 DEF Interrupt
    <2>2. QED
      BY <2>1, TrapTyped DEF MSI, MTI
  <1>2. CASE Ebreak
    BY <1>2, TrapTyped DEF Ebreak, Breakpoint
  <1>3. CASE Illegal
    BY <1>3, TrapTyped DEF Illegal, IllegalInstruction
  <1>4. CASE Executes
    BY <1>4, OwnIsNotBreak DEF Executes, TypeOK, Events
  <1>5. QED
    BY <1>1, <1>2, <1>3, <1>4 DEF ProcessCycle

(* Type correctness is inductive.                                          *)
LEMMA StepTyped == TypeOK /\ [Next]_vars => TypeOK'
  <1> SUFFICES ASSUME TypeOK, [Next]_vars PROVE TypeOK'
    OBVIOUS
  <1> DEFINE Replies == {NoReply, "OK", "bytes", Filler, "info", "T05", "S05"}
  <1>1. ASSUME NEW a \in Starts, InsertBreakPoint(a) PROVE TypeOK'
    <2>1. memory' \in [Addresses -> Halves]
      BY <1>1, WriteEffect, BreakTyped DEF InsertBreakPoint, TypeOK
    <2>2. saved' \in [Starts -> (Halves \X Halves) \cup {NoValue}]
      BY <1>1, ReadTyped DEF InsertBreakPoint, PushMemoryValue, TypeOK
    <2>3. QED
      BY <1>1, <2>1, <2>2 DEF InsertBreakPoint, Answers, TypeOK, Modes
  <1>2. ASSUME NEW a \in Starts, RemoveBreakPoint(a) PROVE TypeOK'
    <2>1. PopMemoryValue(a) \in Halves \X Halves
      BY DEF PopMemoryValue, TypeOK, Halves
    <2>2. memory' \in [Addresses -> Halves]
      BY <1>2, <2>1, WriteEffect DEF RemoveBreakPoint, TypeOK
    <2>3. saved' \in [Starts -> (Halves \X Halves) \cup {NoValue}]
      BY <1>2 DEF RemoveBreakPoint, TypeOK
    <2>4. QED
      BY <1>2, <2>2, <2>3 DEF RemoveBreakPoint, Answers, TypeOK, Modes
  <1>3. ASSUME NEW a \in 0 .. HalfCount, ReadCommand(a) PROVE TypeOK'
    BY <1>3 DEF ReadCommand, Answers, TypeOK, Modes, machine
  <1>4. ASSUME ProcessCycle, Answers("T05") \/ Answers("S05")
                             \/ UNCHANGED <<mode, reply>>,
               UNCHANGED <<saved, client, inserted>>
        PROVE  TypeOK'
    <2>1. mode' \in Modes /\ reply' \in Replies
      BY <1>4 DEF Answers, TypeOK, Modes
    <2>2. QED
      BY <1>4, <2>1, CycleEffect DEF TypeOK
  <1>5. ASSUME ExecutorError, UNCHANGED <<saved, client, inserted>>
        PROVE  TypeOK'
    BY <1>5 DEF ExecutorError, TypeOK, Modes, machine
  <1>6. ASSUME Query \/ Continue \/ Unsupported PROVE TypeOK'
    BY <1>6 DEF Query, Continue, Unsupported, Answers, TypeOK, Modes, machine
  <1>7. ASSUME SendResponse \/ EndSession \/ Accept \/ HangUp PROVE TypeOK'
    BY <1>7 DEF SendResponse, EndSession, Accept, HangUp, TypeOK, Modes, machine
  <1>8. ASSUME UNCHANGED vars PROVE TypeOK'
    BY <1>8 DEF vars, TypeOK
  <1>9. QED
    BY <1>1, <1>2, <1>3, <1>4, <1>5, <1>6, <1>7, <1>8
       DEF Next, Step, RunCycle

-----------------------------------------------------------------------------
IInv == TypeOK /\ CodeRecoverable

(* Nothing is patched at the start.                                        *)
LEMMA InitRecoverable == Init => IInv
  <1> SUFFICES ASSUME Init PROVE IInv
    OBVIOUS
  <1>1. TypeOK
    BY OwnIsNotBreak DEF Init, TypeOK, Events, Modes
  <1>2. CodeRecoverable
    BY DEF Init, CodeRecoverable, Patched
  <1>3. QED
    BY <1>1, <1>2 DEF IInv

(* Inserting patches one instruction and saves the guest's own value, or   *)
(* keeps the one saved before.                                             *)
LEMMA InsertRecoverable ==
    ASSUME IInv, NEW a \in Starts, InsertBreakPoint(a)
    PROVE  CodeRecoverable'
  <1> USE DEF IInv
  <1>1. /\ memory'[a] = BreakValue(Length[a])[1]
        /\ Length[a] = 2 => memory'[a + 1] = BreakValue(Length[a])[2]
        /\ \A x \in Addresses \ Covered(a, Length[a]) : memory'[x] = memory[x]
    BY WriteEffect, BreakTyped DEF InsertBreakPoint, TypeOK
  <1>2. saved'[a] = OwnValue(a)
    <2>1. CASE Patched(a)
      BY <2>1 DEF InsertBreakPoint, PushMemoryValue, Patched, CodeRecoverable
    <2>2. CASE ~Patched(a)
      <3>1. ReadMemory(a, Length[a]) = OwnValue(a)
        BY <2>2, CoveredParts DEF CodeRecoverable, ReadMemory, OwnValue
      <3>2. QED
        BY <2>2, <3>1 DEF InsertBreakPoint, PushMemoryValue, Patched, TypeOK
    <2>3. QED
      BY <2>1, <2>2
  <1>3. ReadMemory(a, Length[a])' = BreakValue(Length[a])
    BY <1>1, LayoutAssumption DEF ReadMemory, BreakValue
  <1>4. OwnValue(a) # NoValue
    BY DEF OwnValue, NoValue
  <1>5. \A t \in Starts : t # a => saved'[t] = saved[t]
    BY DEF InsertBreakPoint, PushMemoryValue, TypeOK
  <1>6. \A t \in Starts : t # a =>
            \A x \in Covered(t, Length[t]) : memory'[x] = memory[x]
    BY <1>1, LayoutAssumption
  <1>7. \A t \in Starts : t # a =>
            ReadMemory(t, Length[t])' = ReadMemory(t, Length[t])
    BY <1>6, CoveredParts DEF ReadMemory
  <1>8. own' = own /\ inserted' = inserted \cup {a}
    BY DEF InsertBreakPoint
  <1>9. \A t \in Starts : OwnValue(t)' = OwnValue(t)
    BY <1>8 DEF OwnValue
  <1>10. QED
    BY <1>2, <1>3, <1>4, <1>5, <1>6, <1>7, <1>8, <1>9
       DEF CodeRecoverable, Patched, TypeOK

(* Removing puts the guest's own value back.                               *)
LEMMA RemoveRecoverable ==
    ASSUME IInv, NEW a \in Starts, RemoveBreakPoint(a)
    PROVE  CodeRecoverable'
  <1> USE DEF IInv
  <1>1. Patched(a) /\ PopMemoryValue(a) = OwnValue(a)
    BY DEF RemoveBreakPoint, CodeRecoverable, Patched, PopMemoryValue
  <1>2. PopMemoryValue(a) \in Halves \X Halves
    BY <1>1 DEF PopMemoryValue, Patched, TypeOK
  <1>3. /\ memory'[a] = own[a]
        /\ Length[a] = 2 => memory'[a + 1] = own[a + 1]
        /\ \A x \in Addresses \ Covered(a, Length[a]) : memory'[x] = memory[x]
    BY <1>1, <1>2, WriteEffect DEF RemoveBreakPoint, TypeOK, OwnValue
  <1>4. \A x \in Covered(a, Length[a]) : memory'[x] = own[x]
    BY <1>3, CoveredParts
  <1>5. saved'[a] = NoValue /\ \A t \in Starts : t # a => saved'[t] = saved[t]
    BY DEF RemoveBreakPoint, TypeOK
  <1>6. \A t \in Starts : t # a =>
            \A x \in Covered(t, Length[t]) : memory'[x] = memory[x]
    BY <1>3, LayoutAssumption
  <1>7. \A t \in Starts : t # a =>
            ReadMemory(t, Length[t])' = ReadMemory(t, Length[t])
    BY <1>6, CoveredParts DEF ReadMemory
  <1>8. own' = own /\ inserted' = inserted \ {a}
    BY DEF RemoveBreakPoint
  <1>9. \A t \in Starts : OwnValue(t)' = OwnValue(t)
    BY <1>8 DEF OwnValue
  <1>10. QED
    BY <1>4, <1>5, <1>6, <1>7, <1>8, <1>9
       DEF CodeRecoverable, Patched, TypeOK

(* A cycle of the guest leaves every patched instruction alone and changes *)
(* the others together with the guest's own image.                         *)
LEMMA CycleRecoverable ==
    ASSUME IInv, ProcessCycle, UNCHANGED <<saved, client, inserted>>
    PROVE  CodeRecoverable'
  <1> USE DEF IInv
  <1>1. CASE UNCHANGED <<memory, own>>
    BY <1>1 DEF CodeRecoverable, Patched, OwnValue, ReadMemory
  <1>2. ASSUME NEW b \in Addresses \ Guarded, NEW h \in OwnHalves,
               memory' = [memory EXCEPT ![b] = h], own' = [own EXCEPT ![b] = h]
        PROVE  CodeRecoverable'
    <2>1. \A t \in Starts : Patched(t) => b \notin Covered(t, Length[t])
      BY DEF Guarded, Patched
    <2>2. \A x \in Addresses : memory[x] = own[x] => memory'[x] = own'[x]
      BY <1>2 DEF TypeOK
    <2>3. \A x \in Addresses : x # b => memory'[x] = memory[x] /\ own'[x] = own[x]
      BY <1>2 DEF TypeOK
    <2>4. ASSUME NEW t \in Starts, Patched(t)
          PROVE  /\ OwnValue(t)' = OwnValue(t)
                 /\ ReadMemory(t, Length[t])' = ReadMemory(t, Length[t])
      BY <2>1, <2>3, <2>4, CoveredParts DEF OwnValue, ReadMemory
    <2>5. ASSUME NEW t \in Starts, ~Patched(t)
          PROVE  \A x \in Covered(t, Length[t]) : memory'[x] = own'[x]
      BY <2>2, <2>5, CoveredParts DEF CodeRecoverable
    <2>6. QED
      BY <2>4, <2>5 DEF CodeRecoverable, Patched
  <1>3. QED
    BY <1>1, <1>2, CycleEffect

(* Every step preserves the invariant.                                     *)
LEMMA StepRecoverable == IInv /\ [Next]_vars => IInv'
  <1> SUFFICES ASSUME IInv, [Next]_vars PROVE IInv'
    OBVIOUS
  <1>1. TypeOK'
    BY StepTyped DEF IInv
  <1>2. ASSUME UNCHANGED <<memory, own, saved>>,
               inserted' \in {inserted, {}}
        PROVE  CodeRecoverable'
    BY <1>2 DEF IInv, CodeRecoverable, Patched, OwnValue, ReadMemory
  <1>3. CASE \E a \in Starts : InsertBreakPoint(a) \/ RemoveBreakPoint(a)
    BY <1>3, InsertRecoverable, RemoveRecoverable, <1>1 DEF IInv
  <1>4. CASE Step \/ RunCycle
    <2>1. CASE ProcessCycle
      BY <1>1, <1>4, <2>1, CycleRecoverable DEF Step, RunCycle, IInv
    <2>2. CASE ExecutorError
      BY <1>1, <1>2, <1>4, <2>2
         DEF ExecutorError, machine, Step, RunCycle, IInv
    <2>3. QED
      BY <1>4, <2>1, <2>2 DEF Step, RunCycle
  <1>5. CASE \/ \E a \in 0 .. HalfCount : ReadCommand(a)
             \/ Query \/ Continue \/ Unsupported
    BY <1>1, <1>2, <1>5
       DEF ReadCommand, Query, Continue, Unsupported, machine, IInv
  <1>6. CASE SendResponse \/ EndSession \/ Accept \/ HangUp
    BY <1>1, <1>2, <1>6
       DEF SendResponse, EndSession, Accept, HangUp, machine, IInv
  <1>7. CASE UNCHANGED vars
    BY <1>1, <1>2, <1>7 DEF vars, IInv
  <1>8. QED
    BY <1>3, <1>4, <1>5, <1>6, <1>7 DEF Next

(* The guest's code can be recovered in every reachable state.             *)
THEOREM CodeAlwaysRecoverable == Spec => []CodeRecoverable
  <1>1. IInv => CodeRecoverable
    BY DEF IInv
  <1>2. QED
    BY <1>1, InitRecoverable, StepRecoverable, PTL DEF Spec

-----------------------------------------------------------------------------
(* Only RunCycle leaves the loop.                                          *)
LEMMA OnlyRunCycle ==
    ASSUME Next, mode = "run", mode' # "run"
    PROVE  RunCycle
  BY DEF Next, InsertBreakPoint, RemoveBreakPoint, ReadCommand, Query, Step,
         Continue, Unsupported, Receives, SendResponse, EndSession, Accept,
         HangUp

(* "c" is answered only at a breakpoint the debugger has set.              *)
THEOREM StopsAreBreakpoints == Spec => StopIsBreakpoint
  <1>1. ASSUME IInv, [Next]_vars
        PROVE  [mode = "run" /\ mode' = "send" => Patched(pc)]_vars
    <2> SUFFICES ASSUME Next, mode = "run", mode' = "send" PROVE Patched(pc)
      BY <1>1
    <2>1. RunCycle
      BY OnlyRunCycle
    <2>2. ProcessCycle /\ IsStopConditionFilledPost(event')
      BY <2>1 DEF RunCycle, ExecutorError
    <2>3. event'.type = "Exception" /\ event'.cause = 3
      BY <2>2 DEF IsStopConditionFilledPost, Breakpoint
    <2>4. IsBreakAt(pc)
      BY <2>2, <2>3
         DEF ProcessCycle, Interrupt, Ebreak, Illegal, Executes, TakeTrap,
             NoEvent, IllegalInstruction
    <2>5. ASSUME ~Patched(pc) PROVE FALSE
      <3>1. pc \in Starts /\ memory[pc] = own[pc] /\ own[pc] \in OwnHalves
        BY <1>1, <2>5, CoveredParts DEF IInv, CodeRecoverable, TypeOK
      <3>2. QED
        BY <2>4, <3>1, OwnIsNotBreak DEF IsBreakAt
    <2>6. QED
      BY <2>5
  <1>2. QED
    BY <1>1, InitRecoverable, StepRecoverable, PTL DEF Spec, StopIsBreakpoint

(* A guest that runs into a breakpoint of four bytes stops there, unless   *)
(* an interrupt is taken first.                                            *)
THEOREM LongBreakpointsStop == Spec => LongBreakpointStops
  <1>1. ASSUME IInv, [Next]_vars
        PROVE  [mode = "run" /\ Patched(pc) /\ Length[pc] = 2
                /\ <<pc, mode>>' # <<pc, mode>> =>
                    mode' = "send" \/ event'.type = "Interrupt"]_vars
    <2> SUFFICES ASSUME Next, mode = "run", Patched(pc), Length[pc] = 2,
                        <<pc, mode>>' # <<pc, mode>>
                 PROVE  mode' = "send" \/ event'.type = "Interrupt"
      BY <1>1
    <2>1. RunCycle
      BY DEF Next, InsertBreakPoint, RemoveBreakPoint, ReadCommand, Query,
             Step, Continue, Unsupported, Receives, SendResponse, EndSession,
             Accept, HangUp, machine
    <2>2. pc \in Starts /\ ReadMemory(pc, 2) = <<BreakLow, BreakHigh>>
      BY <1>1 DEF IInv, CodeRecoverable, TypeOK, BreakValue
    <2>3. memory[pc] = BreakLow /\ memory[pc + 1] = BreakHigh
      BY <2>2 DEF ReadMemory
    <2>4. IsBreakAt(pc)
      BY <2>2, <2>3, CoveredParts DEF IsBreakAt, At
    <2>5. Interrupt \/ Ebreak
      BY <2>1, <2>3, <2>4, OwnIsNotBreak
         DEF RunCycle, ExecutorError, ProcessCycle, Illegal, Executes
    <2>6. CASE Interrupt
      BY <2>6 DEF Interrupt, TakeTrap
    <2>7. CASE Ebreak
      <3>1. IsStopConditionFilledPost(event')
        BY <2>7 DEF Ebreak, TakeTrap, IsStopConditionFilledPost
      <3>2. QED
        BY <2>1, <2>3, <3>1, OwnIsNotBreak DEF RunCycle, ExecutorError, Answers
    <2>8. QED
      BY <2>5, <2>6, <2>7
  <1>2. QED
    BY <1>1, InitRecoverable, StepRecoverable, PTL DEF Spec, LongBreakpointStops
=============================================================================
