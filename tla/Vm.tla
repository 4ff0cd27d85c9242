----------------------------------- MODULE Vm ---------------------------------
(***************************************************************************)
(* Task 037: the stack machine.  A program is a sequence of words, as the  *)
(* assembler leaves it; a step is one instruction.  RET restores the stack *)
(* pointer and not the base pointer.  PRINT's output is left out.          *)
(***************************************************************************)
EXTENDS Integers, Sequences, SequencesExt

CONSTANTS Codes,     \* the programs: sequences of integers
          StackSize,
          MaxFrames, MaxValue \* bounds: nested calls; values are kept in -MaxValue .. MaxValue

VARIABLES code, stack, sp, bp, ip, globals,
          frames,   \* call_stack: [to, bp, sp, args], and the stack below sp then (history)
          status,   \* "running", "halted" or "error"
          reached   \* history: some instruction reached below the running function's frame

vars == <<code, stack, sp, bp, ip, globals, frames, status, reached>>

Slots == 0 .. StackSize - 1
Init == /\ code \in Codes /\ stack = [i \in Slots |-> 0] /\ sp = 0 /\ bp = 0 /\ ip = 0
        /\ globals = [a \in {} |-> 0] /\ frames = <<>> /\ status = "running" /\ reached = FALSE

PUSH == 0
POP == 1
NEG == 7
NOT == 16
LOAD == 17
STORE == 18
GLOAD == 19
GSTORE == 20
CALL == 21
RET == 22
JMP == 23
JZ == 24
JNZ == 25
DUP == 26
SWAP == 27
PRINT == 28
HALT == 29
NOP == 30
ALLOC == 31
Binary == 2 .. 15 \ {NEG}

\* A negative index of a Python list counts from the end.
Wrap(i, size) == IF i < 0 THEN i + size ELSE i
Word(i) == code[Wrap(i, Len(code)) + 1]
Operand(k) == Word(ip + k)
Words(op) == CASE op = CALL -> 3
               [] op \in {PUSH, LOAD, STORE, GLOAD, GSTORE, JMP, JZ, JNZ, ALLOC} -> 2
               [] OTHER -> 1
Truth(b) == IF b THEN 1 ELSE 0

\* ADD, SUB, MUL, DIV and MOD, which round down, the comparisons, AND and OR.
Calculate(op, a, b) ==
    CASE op = 2 -> a + b  [] op = 3 -> a - b  [] op = 4 -> a * b
      [] op \in {5, 6} -> LET q == IF b > 0 THEN a \div b ELSE (-a) \div (-b)
                          IN  IF op = 5 THEN q ELSE a - b * q
      [] op = 8 -> Truth(a = b)   [] op = 9 -> Truth(a # b)
      [] op = 10 -> Truth(a < b)  [] op = 11 -> Truth(a > b)
      [] op = 12 -> Truth(a <= b) [] op = 13 -> Truth(a >= b)
      [] op = 14 -> Truth(a # 0 /\ b # 0)
      [] op = 15 -> Truth(a # 0 \/ b # 0)

Top(k) == stack[sp - 1 - k]
Slot(i) == Wrap(i, StackSize)
Global(a) == IF a \in DOMAIN globals THEN globals[a] ELSE 0
\* Where the values of the running function begin.
Floor == IF frames = <<>> THEN 0 ELSE Last(frames).sp
Bounded(v) == v \in -MaxValue .. MaxValue

\* A VMError ends the run (what the instruction had popped by then is left).
Error == status' = "error" /\ UNCHANGED <<code, stack, sp, bp, ip, globals, frames, reached>>

\* An instruction that pops `pops` values and pushes `values`, then goes to `to`.
\* With a stack pointer that a call made negative, it pushes at the far end of the list.
Effect(pops, values, to) ==
    LET base == sp - pops
        Pushed(i) == base <= i /\ i < base + Len(values) IN
    IF (pops > 0 /\ base < 0) \/ base + Len(values) > StackSize \/ (values # <<>> /\ base < -StackSize)
    THEN Error
    ELSE /\ \A i \in 1 .. Len(values) : Bounded(values[i])
         /\ sp' = base + Len(values) /\ ip' = to /\ reached' = (reached \/ base < Floor)
         /\ stack' = [k \in Slots |-> IF Pushed(k) THEN values[k - base + 1]
                                     ELSE IF Pushed(k - StackSize) THEN values[k - StackSize - base + 1]
                                     ELSE stack[k]]
         /\ UNCHANGED <<code, bp, globals, frames, status>>

Simple(op, next) ==
    \/ op = NOP /\ Effect(0, <<>>, next)
    \/ op = PUSH /\ Effect(0, <<Operand(1)>>, next)
    \/ op \in {POP, PRINT} /\ Effect(1, <<>>, next)
    \/ op = DUP /\ (IF sp < 1 THEN Error ELSE Effect(0, <<Top(0)>>, next))
    \/ op = SWAP /\ (IF sp < 2 THEN Error ELSE Effect(2, <<Top(0), Top(1)>>, next))
    \/ op = NEG /\ (IF sp < 1 THEN Error ELSE Effect(1, <<-Top(0)>>, next))
    \/ op = NOT /\ (IF sp < 1 THEN Error ELSE Effect(1, <<Truth(Top(0) = 0)>>, next))
    \/ op \in Binary /\ (IF sp < 2 \/ (op \in {5, 6} /\ Top(0) = 0) THEN Error ELSE Effect(2, <<Calculate(op, Top(1), Top(0))>>, next))
    \/ op = ALLOC /\ Effect(0, [i \in 1 .. Operand(1) |-> 0], next)
    \/ op = JMP /\ Effect(0, <<>>, Operand(1))
    \/ op \in {JZ, JNZ} /\ (IF sp < 1 THEN Error
                            ELSE Effect(1, <<>>, IF (Top(0) = 0) = (op = JZ) THEN Operand(1) ELSE next))

\* Mutant: locals are counted from the bottom of the stack.
LocalAbsolute == Operand(1)
Local == bp + Operand(1)
Memory(op, next) ==
    \/ op = LOAD /\ (IF Local \notin Slots THEN Error ELSE Effect(0, <<stack[Local]>>, next))
    \/ /\ op = STORE
       /\ IF sp < 1 \/ Local \notin Slots THEN Error
          ELSE /\ stack' = [stack EXCEPT ![Local] = Top(0)] /\ sp' = sp - 1 /\ ip' = next
               /\ reached' = (reached \/ sp - 1 < Floor \/ Operand(1) < 0)
               /\ UNCHANGED <<code, bp, globals, frames, status>>
    \/ op = GLOAD /\ Effect(0, <<Global(Operand(1))>>, next)
    \/ /\ op = GSTORE
       /\ IF sp < 1 THEN Error
          ELSE /\ globals' = [a \in DOMAIN globals \union {Operand(1)} |->
                                IF a = Operand(1) THEN Top(0) ELSE globals[a]]
               /\ sp' = sp - 1 /\ ip' = next
               /\ reached' = (reached \/ sp - 1 < Floor) /\ UNCHANGED <<code, stack, bp, frames, status>>

\* _execute_call: no test that the arguments are there, or of their number.
Call(next) ==
    LET base == sp - Operand(2) IN
    /\ Len(frames) < MaxFrames
    /\ frames' = Append(frames, [to |-> next, bp |-> bp, sp |-> base, args |-> Operand(2),
                                 below |-> [i \in {k \in Slots : k < base} |-> stack[i]]])
    /\ bp' = base /\ ip' = Operand(1) /\ reached' = (reached \/ base < Floor \/ base > sp)
    /\ UNCHANGED <<code, stack, sp, globals, status>>

\* _execute_ret: the frame's saved_bp is not used.
Return ==
    LET f == Last(frames) IN
    IF frames = <<>> \/ sp < 1 \/ f.sp >= StackSize \/ f.sp < -StackSize THEN Error
    ELSE /\ sp' = f.sp + 1 /\ ip' = f.to /\ frames' = Front(frames)
         /\ stack' = [stack EXCEPT ![Slot(f.sp)] = Top(0)]
         /\ UNCHANGED <<code, bp, globals, status, reached>>

Halt == status' = "halted" /\ UNCHANGED <<code, stack, sp, bp, ip, globals, frames, reached>>

\* The instruction at ip; operands beyond the end of the program raise.
Execute(op) ==
    IF op = HALT THEN Halt
    ELSE IF op \notin 0 .. 31 \/ ip + Words(op) > Len(code) THEN Error
    ELSE LET next == ip + Words(op) IN
         \/ Simple(op, next) \/ Memory(op, next)
         \/ op = CALL /\ Call(next)
         \/ op = RET /\ Return

\* step: the end of the program stops it like HALT.
Step ==
    /\ status = "running"
    /\ \/ ip >= Len(code) /\ Halt
       \/ ip < -Len(code) /\ Error
       \/ -Len(code) <= ip /\ ip < Len(code) /\ Execute(Word(ip))

Next == Step

(***************************************************************************)
(* Properties                                                              *)
(***************************************************************************)

\* While no function takes what is not its own, the stack of every caller is as it
\* was at its call, over nested calls, jumps and returns, although RET leaves the
\* base pointer where the callee had it: locals are then misplaced, in the caller's
\* own frame and above.
CallersKeepTheirStack == ~reached =>
    /\ Floor <= bp /\ bp <= StackSize /\ Floor <= sp /\ sp <= StackSize
    /\ \A i \in 1 .. Len(frames) : /\ i > 1 => frames[i - 1].sp <= frames[i].sp
                                   /\ \A k \in 0 .. frames[i].sp - 1 : stack[k] = frames[i].below[k]
===============================================================================
