----------------------------- MODULE EngineProofs -----------------------------
(***************************************************************************)
(* Proofs about the tasks of Engines, for any programs, sizes, graphs,     *)
(* plugins and hash functions.                                             *)
(***************************************************************************)
EXTENDS Engines, NumberProofs, FiniteSetTheorems, SequenceTheorems, TLAPS

-----------------------------------------------------------------------------
(* The stack machine *)

Stacks == UNION {[{k \in Machine!Slots : k < b} -> Int] : b \in Int}
FrameRecords == [to : Int, bp : Int, sp : Int, args : Int, below : Stacks]

MachineTypes == /\ code \in Seq(Int) /\ stack \in [Machine!Slots -> Int]
                /\ sp \in Int /\ sp <= StackSize /\ bp \in Int /\ ip \in Int
                /\ frames \in Seq(FrameRecords) /\ reached \in BOOLEAN

\* While nothing was reached that is not its own, the stack of the running function
\* begins above those of its callers, whose values are where they were.
CallersBelow == ~reached =>
    /\ Machine!Floor <= bp /\ bp <= StackSize /\ Machine!Floor <= sp
    /\ \A i \in 1 .. Len(frames) :
         /\ 0 <= frames[i].sp /\ frames[i].sp <= Machine!Floor
         /\ \A j \in i .. Len(frames) : frames[i].sp <= frames[j].sp
         /\ \A k \in 0 .. frames[i].sp - 1 : stack[k] = frames[i].below[k]

MachineInv == MachineTypes /\ CallersBelow

LEMMA FloorIsNumber ==
  ASSUME MachineInv
  PROVE  /\ Machine!Floor \in Int
         /\ frames # <<>> => Machine!Last(frames) \in FrameRecords /\ Machine!Floor = frames[Len(frames)].sp
         /\ ~reached => Machine!Floor >= 0
<1> USE DEF MachineInv, MachineTypes
<1>1. CASE frames = <<>>
  BY <1>1 DEF Machine!Floor
<1>2. CASE frames # <<>>
  <2>1. Len(frames) \in 1 .. Len(frames)
    BY <1>2, EmptySeq, LenProperties
  <2>2. frames[Len(frames)] \in FrameRecords
    BY <2>1, ElementOfSeq
  <2>3. Machine!Last(frames) = frames[Len(frames)]
    BY DEF Machine!Last
  <2>4. Machine!Floor = frames[Len(frames)].sp
    BY <1>2, <2>3 DEF Machine!Floor
  <2>5. Machine!Floor \in Int
    BY <2>2, <2>4 DEF FrameRecords
  <2>6. ~reached => Machine!Floor >= 0
    BY <2>1, <2>4 DEF CallersBelow
  <2>7. QED
    BY <2>2, <2>3, <2>4, <2>5, <2>6
<1>3. QED
  BY <1>1, <1>2

LEMMA OperandIsInt ==
  ASSUME MachineInv, -Len(code) <= ip, NEW k \in Nat, ip + k < Len(code)
  PROVE  Machine!Operand(k) \in Int
<1>1. code \in Seq(Int) /\ ip \in Int
  BY DEF MachineInv, MachineTypes
<1>2. Len(code) \in Nat
  BY <1>1, LenProperties
<1>3. Machine!Wrap(ip + k, Len(code)) + 1 \in 1 .. Len(code)
  BY <1>1, <1>2 DEF Machine!Wrap
<1>4. code[Machine!Wrap(ip + k, Len(code)) + 1] \in Int
  BY <1>1, <1>3, ElementOfSeq
<1>5. QED
  BY <1>4 DEF Machine!Operand, Machine!Word

LEMMA EffectKeeps ==
  ASSUME MachineInv, NEW pops \in Nat, NEW values, Len(values) \in Nat, NEW to \in Int,
         Machine!Effect(pops, values, to)
  PROVE  MachineInv'
<1>1. CASE Machine!Error
  <2>1. Machine!Floor' = Machine!Floor
    BY <1>1 DEF Machine!Error, Machine!Floor
  <2>2. QED
    BY <1>1, <2>1 DEF Machine!Error, MachineInv, MachineTypes, CallersBelow
<1>2. CASE ~Machine!Error
  <2> DEFINE base == sp - pops
             Pushed(i) == base <= i /\ i < base + Len(values)
  <2>1. /\ base + Len(values) <= StackSize
        /\ \A i \in 1 .. Len(values) : values[i] \in -MaxValue .. MaxValue
        /\ sp' = base + Len(values) /\ ip' = to /\ reached' = (reached \/ base < Machine!Floor)
        /\ stack' = [k \in Machine!Slots |-> IF Pushed(k) THEN values[k - base + 1]
                                  ELSE IF Pushed(k - StackSize) THEN values[k - StackSize - base + 1]
                                  ELSE stack[k]]
        /\ UNCHANGED <<code, bp, globals, frames, status>>
    BY <1>2, EnginesAssumption DEF Machine!Effect, Machine!Bounded, MachineInv, MachineTypes
  <2>2. base \in Int /\ StackSize \in Nat /\ MaxValue \in Nat
    BY EnginesAssumption DEF MachineInv, MachineTypes
  <2>3. stack \in [Machine!Slots -> Int] /\ \A k \in Machine!Slots : k \in Int /\ 0 <= k /\ k < StackSize
    BY <2>2 DEF MachineInv, MachineTypes, Machine!Slots
  <2> HIDE DEF base
  <2>4. ASSUME NEW k \in Machine!Slots
        PROVE  (IF Pushed(k) THEN values[k - base + 1]
                ELSE IF Pushed(k - StackSize) THEN values[k - StackSize - base + 1]
                ELSE stack[k]) \in Int
    <3>1. CASE Pushed(k)
      <4>1. k - base + 1 \in 1 .. Len(values)
        BY <3>1, <2>2, <2>3
      <4>2. values[k - base + 1] \in -MaxValue .. MaxValue
        BY <4>1, <2>1
      <4>3. QED
        BY <4>2, <3>1, <2>2
    <3>2. CASE ~Pushed(k) /\ Pushed(k - StackSize)
      <4>1. k - StackSize - base + 1 \in 1 .. Len(values)
        BY <3>2, <2>2, <2>3
      <4>2. values[k - StackSize - base + 1] \in -MaxValue .. MaxValue
        BY <4>1, <2>1
      <4>3. QED
        BY <4>2, <3>2, <2>2
    <3>3. CASE ~Pushed(k) /\ ~Pushed(k - StackSize)
      BY <3>3, <2>3
    <3>4. QED
      BY <3>1, <3>2, <3>3
  <2>5. stack' \in [Machine!Slots -> Int]
    BY <2>1, <2>4
  <2>6. MachineTypes'
    BY <2>1, <2>2, <2>5 DEF MachineInv, MachineTypes, Machine!Slots
  <2>7. Machine!Floor' = Machine!Floor
    BY <2>1 DEF Machine!Floor
  <2>8. ASSUME ~reached' PROVE CallersBelow'
    <3>1. ~reached /\ ~(base < Machine!Floor)
      BY <2>1, <2>8
    <3>2. 0 <= Machine!Floor /\ Machine!Floor <= base /\ Machine!Floor \in Int
      BY <3>1, <2>2, FloorIsNumber
    <3>3. /\ Machine!Floor <= bp /\ bp <= StackSize
          /\ \A i \in 1 .. Len(frames) :
               /\ 0 <= frames[i].sp /\ frames[i].sp <= Machine!Floor
               /\ \A j \in i .. Len(frames) : frames[i].sp <= frames[j].sp
               /\ \A k \in 0 .. frames[i].sp - 1 : stack[k] = frames[i].below[k]
      BY <3>1 DEF MachineInv, CallersBelow
    <3>4. Machine!Floor <= sp'
      BY <2>1, <2>2, <3>2
    <3>5. \A k \in Int : 0 <= k /\ k < Machine!Floor /\ k < StackSize => stack'[k] = stack[k]
      <4>1. SUFFICES ASSUME NEW k \in Int, 0 <= k, k < Machine!Floor, k < StackSize PROVE stack'[k] = stack[k]
        OBVIOUS
      <4>2. k \in Machine!Slots
        BY <4>1, <2>2 DEF Machine!Slots
      <4>3. ~Pushed(k) /\ ~Pushed(k - StackSize)
        BY <4>1, <3>2, <2>2
      <4>4. QED
        BY <4>2, <4>3, <2>1
    <3>6. Machine!Floor <= StackSize
      BY <3>3, <3>2, <2>2 DEF MachineInv, MachineTypes
    <3>7. ASSUME NEW i \in 1 .. Len(frames), NEW k \in 0 .. frames[i].sp - 1
          PROVE  stack'[k] = frames[i].below[k]
      <4>1. frames[i] \in FrameRecords
        BY ElementOfSeq DEF MachineInv, MachineTypes
      <4>2. frames[i].sp \in Int
        BY <4>1 DEF FrameRecords
      <4>3. k \in Int /\ 0 <= k /\ k < Machine!Floor /\ k < StackSize
        BY <4>2, <3>2, <3>3, <3>6, <2>2
      <4>4. QED
        BY <4>3, <3>3, <3>5
    <3>8. frames' = frames /\ bp' = bp /\ StackSize' = StackSize
      BY <2>1
    <3>9. QED
      BY <2>7, <3>3, <3>4, <3>7, <3>8 DEF CallersBelow
  <2>9. QED
    BY <2>6, <2>8 DEF MachineInv, CallersBelow
<1>3. QED
  BY <1>1, <1>2

LEMMA HaltKeeps ==
  ASSUME MachineInv, Machine!Halt \/ Machine!Error
  PROVE  MachineInv'
<1>1. Machine!Floor' = Machine!Floor
  BY DEF Machine!Halt, Machine!Error, Machine!Floor
<1>2. QED
  BY <1>1 DEF Machine!Halt, Machine!Error, MachineInv, MachineTypes, CallersBelow

\* An operation that errs or has an effect.
LEMMA GuardedKeeps ==
  ASSUME MachineInv, NEW bad \in BOOLEAN, NEW pops \in Nat, NEW values, Len(values) \in Nat, NEW to \in Int,
         IF bad THEN Machine!Error ELSE Machine!Effect(pops, values, to)
  PROVE  MachineInv'
BY EffectKeeps, HaltKeeps

LEMMA SimpleKeeps ==
  ASSUME MachineInv, -Len(code) <= ip, NEW op \in 0 .. 31, ip + Machine!Words(op) <= Len(code),
         Machine!Simple(op, ip + Machine!Words(op))
  PROVE  MachineInv'
<1> DEFINE next == ip + Machine!Words(op)
<1>1. ip \in Int /\ Len(code) \in Nat
  BY LenProperties DEF MachineInv, MachineTypes
<1>2. Machine!Words(op) \in 1 .. 3
  BY DEF Machine!Words
<1>3. next \in Int
  BY <1>1, <1>2
<1>4. Machine!Words(op) >= 2 => Machine!Operand(1) \in Int
  BY <1>1, <1>2, OperandIsInt
<1>5. \A x, y : Len(<<>>) \in Nat /\ Len(<<x>>) \in Nat /\ Len(<<x, y>>) \in Nat
  OBVIOUS
<1> HIDE DEF next
<1>6. CASE op = Machine!NOP /\ Machine!Effect(0, <<>>, next)
  BY <1>3, <1>5, <1>6, EffectKeeps
<1>7. CASE op = Machine!PUSH /\ Machine!Effect(0, <<Machine!Operand(1)>>, next)
  BY <1>3, <1>5, <1>7, EffectKeeps
<1>8. CASE op \in {Machine!POP, Machine!PRINT} /\ Machine!Effect(1, <<>>, next)
  BY <1>3, <1>5, <1>8, EffectKeeps
<1>9. CASE op = Machine!DUP /\ (IF sp < 1 THEN Machine!Error ELSE Machine!Effect(0, <<Machine!Top(0)>>, next))
  BY <1>3, <1>5, <1>9, GuardedKeeps
<1>10. CASE op = Machine!SWAP /\ (IF sp < 2 THEN Machine!Error ELSE Machine!Effect(2, <<Machine!Top(0), Machine!Top(1)>>, next))
  BY <1>3, <1>5, <1>10, GuardedKeeps
<1>11. CASE op = Machine!NEG /\ (IF sp < 1 THEN Machine!Error ELSE Machine!Effect(1, <<-Machine!Top(0)>>, next))
  BY <1>3, <1>5, <1>11, GuardedKeeps
<1>12. CASE op = Machine!NOT /\ (IF sp < 1 THEN Machine!Error
                                ELSE Machine!Effect(1, <<Machine!Truth(Machine!Top(0) = 0)>>, next))
  BY <1>3, <1>5, <1>12, GuardedKeeps
<1>13. CASE op \in Machine!Binary /\ (IF sp < 2 \/ (op \in {5, 6} /\ Machine!Top(0) = 0) THEN Machine!Error
             ELSE Machine!Effect(2, <<Machine!Calculate(op, Machine!Top(1), Machine!Top(0))>>, next))
  BY <1>3, <1>5, <1>13, GuardedKeeps
<1>14. CASE op = Machine!ALLOC /\ Machine!Effect(0, [i \in 1 .. Machine!Operand(1) |-> 0], next)
  <2>1. Machine!Operand(1) \in Int
    BY <1>14, <1>4 DEF Machine!Words, Machine!ALLOC, Machine!CALL, Machine!PUSH, Machine!LOAD, Machine!STORE,
                     Machine!GLOAD, Machine!GSTORE, Machine!JMP, Machine!JZ, Machine!JNZ
  <2>2. Len([i \in 1 .. Machine!Operand(1) |-> 0]) \in Nat
    <3>1. CASE Machine!Operand(1) \in Nat
      BY <3>1
    <3>2. CASE Machine!Operand(1) \notin Nat
      <4>1. 1 .. Machine!Operand(1) = 1 .. 0
        BY <2>1, <3>2
      <4>2. Len([i \in 1 .. 0 |-> 0]) \in Nat
        OBVIOUS
      <4>3. QED
        BY <4>1, <4>2
    <3>3. QED
      BY <3>1, <3>2
  <2>3. QED
    BY <1>3, <1>14, <2>2, EffectKeeps
<1>15. CASE op = Machine!JMP /\ Machine!Effect(0, <<>>, Machine!Operand(1))
  <2>1. Machine!Operand(1) \in Int
    BY <1>15, <1>4 DEF Machine!Words, Machine!ALLOC, Machine!CALL, Machine!PUSH, Machine!LOAD, Machine!STORE,
                     Machine!GLOAD, Machine!GSTORE, Machine!JMP, Machine!JZ, Machine!JNZ
  <2>2. QED
    BY <2>1, <1>5, <1>15, EffectKeeps
<1>16. CASE op \in {Machine!JZ, Machine!JNZ} /\ (IF sp < 1 THEN Machine!Error
             ELSE Machine!Effect(1, <<>>, IF (Machine!Top(0) = 0) = (op = Machine!JZ) THEN Machine!Operand(1) ELSE next))
  <2>1. Machine!Operand(1) \in Int
    BY <1>16, <1>4 DEF Machine!Words, Machine!ALLOC, Machine!CALL, Machine!PUSH, Machine!LOAD, Machine!STORE,
                     Machine!GLOAD, Machine!GSTORE, Machine!JMP, Machine!JZ, Machine!JNZ
  <2>2. (IF (Machine!Top(0) = 0) = (op = Machine!JZ) THEN Machine!Operand(1) ELSE next) \in Int
    BY <2>1, <1>3
  <2>3. QED
    BY <2>2, <1>5, <1>16, GuardedKeeps
<1>17. Machine!Simple(op, next)
  BY DEF next
<1>18. QED
  BY <1>6, <1>7, <1>8, <1>9, <1>10, <1>11, <1>12, <1>13, <1>14, <1>15, <1>16, <1>17 DEF Machine!Simple

\* A step that writes one slot of the running function, or none, and pops one value.
LEMMA MemoryKeeps ==
  ASSUME MachineInv, -Len(code) <= ip, NEW op \in 0 .. 31, ip + Machine!Words(op) <= Len(code),
         Machine!Memory(op, ip + Machine!Words(op))
  PROVE  MachineInv'
<1> DEFINE next == ip + Machine!Words(op)
<1>1. ip \in Int /\ Len(code) \in Nat
  BY LenProperties DEF MachineInv, MachineTypes
<1>2. Machine!Words(op) \in 1 .. 3
  BY DEF Machine!Words
<1>3. next \in Int
  BY <1>1, <1>2
<1>4. Machine!Words(op) >= 2 => Machine!Operand(1) \in Int
  BY <1>1, <1>2, OperandIsInt
<1>5. \A x : Len(<<x>>) \in Nat
  OBVIOUS
<1> HIDE DEF next
<1>6. CASE op = Machine!LOAD /\ (IF Machine!Local \notin Machine!Slots THEN Machine!Error
                                ELSE Machine!Effect(0, <<stack[Machine!Local]>>, next))
  BY <1>3, <1>5, <1>6, GuardedKeeps
<1>7. CASE op = Machine!GLOAD /\ Machine!Effect(0, <<Machine!Global(Machine!Operand(1))>>, next)
  BY <1>3, <1>5, <1>7, EffectKeeps
<1>8. ASSUME op = Machine!STORE, sp >= 1, Machine!Local \in Machine!Slots,
             stack' = [stack EXCEPT ![Machine!Local] = Machine!Top(0)], sp' = sp - 1, ip' = next,
             reached' = (reached \/ sp - 1 < Machine!Floor \/ Machine!Operand(1) < 0),
             UNCHANGED <<code, bp, globals, frames, status>>
      PROVE  MachineInv'
  <2>1. Machine!Operand(1) \in Int
    BY <1>8, <1>4 DEF Machine!Words, Machine!STORE, Machine!CALL, Machine!PUSH, Machine!LOAD, Machine!ALLOC,
                     Machine!GLOAD, Machine!GSTORE, Machine!JMP, Machine!JZ, Machine!JNZ
  <2>2. MachineTypes /\ StackSize \in Nat
    BY EnginesAssumption DEF MachineInv
  <2>3. sp - 1 \in Machine!Slots
    BY <1>8, <2>2 DEF Machine!Slots, MachineTypes
  <2>4. Machine!Top(0) = stack[sp - 1]
    BY <2>2 DEF Machine!Top, MachineTypes
  <2>5. Machine!Top(0) \in Int
    BY <2>2, <2>3, <2>4 DEF MachineTypes
  <2>6. stack' \in [Machine!Slots -> Int]
    BY <1>8, <2>2, <2>5 DEF MachineTypes
  <2>7. Machine!Floor' = Machine!Floor /\ Machine!Floor \in Int
    BY <1>8, FloorIsNumber DEF Machine!Floor
  <2>8. MachineTypes'
    BY <1>8, <1>3, <2>2, <2>6, <2>7 DEF MachineTypes, Machine!Slots
  <2>9. ASSUME ~reached' PROVE CallersBelow'
    <3> ~reached /\ ~(sp - 1 < Machine!Floor) /\ ~(Machine!Operand(1) < 0)
      BY <1>8, <2>9
    <3>1. ~reached /\ sp - 1 >= Machine!Floor /\ Machine!Operand(1) >= 0
      BY <2>1, <2>2, <2>7 DEF MachineTypes
    <3>2. /\ Machine!Floor <= bp /\ bp <= StackSize
          /\ \A i \in 1 .. Len(frames) :
               /\ 0 <= frames[i].sp /\ frames[i].sp <= Machine!Floor
               /\ \A j \in i .. Len(frames) : frames[i].sp <= frames[j].sp
               /\ \A k \in 0 .. frames[i].sp - 1 : stack[k] = frames[i].below[k]
      BY <3>1 DEF MachineInv, CallersBelow
    <3>3. Machine!Local >= Machine!Floor
      BY <3>1, <3>2, <2>1, <2>2, <2>7 DEF Machine!Local, MachineTypes
    <3>4. Machine!Local \in Int
      BY <2>1, <2>2 DEF Machine!Local, MachineTypes
    <3>5. ASSUME NEW i \in 1 .. Len(frames), NEW k \in 0 .. frames[i].sp - 1
          PROVE  stack'[k] = frames[i].below[k]
      <4>1. frames[i] \in FrameRecords
        BY <2>2, ElementOfSeq DEF MachineTypes
      <4>2. frames[i].sp \in Int
        BY <4>1 DEF FrameRecords
      <4>3. k \in Int /\ k < Machine!Local
        BY <4>2, <3>2, <3>3, <3>4, <2>7
      <4>4. stack'[k] = stack[k]
        BY <4>3, <1>8, <2>2, <3>4 DEF MachineTypes
      <4>5. QED
        BY <4>4, <3>2
    <3>6. frames' = frames /\ bp' = bp /\ StackSize' = StackSize /\ sp' = sp - 1
      BY <1>8
    <3>7. QED
      BY <2>7, <3>1, <3>2, <3>5, <3>6 DEF CallersBelow
  <2>10. QED
    BY <2>8, <2>9 DEF MachineInv, CallersBelow
<1>9. ASSUME op = Machine!GSTORE, sp >= 1, sp' = sp - 1, ip' = next,
             reached' = (reached \/ sp - 1 < Machine!Floor),
             UNCHANGED <<code, stack, bp, frames, status>>
      PROVE  MachineInv'
  <2>1. Machine!Floor' = Machine!Floor /\ Machine!Floor \in Int
    BY <1>9, FloorIsNumber DEF Machine!Floor
  <2>2. MachineTypes /\ StackSize \in Nat
    BY EnginesAssumption DEF MachineInv
  <2>3. MachineTypes'
    BY <1>9, <1>3, <2>1, <2>2 DEF MachineTypes, Machine!Slots
  <2>4. ASSUME ~reached' PROVE CallersBelow'
    <3>1. ~reached /\ ~(sp - 1 < Machine!Floor)
      BY <1>9, <2>4
    <3>2. Machine!Floor <= sp'
      BY <1>9, <2>1, <2>2, <3>1 DEF MachineTypes
    <3>3. frames' = frames /\ bp' = bp /\ stack' = stack /\ StackSize' = StackSize
      BY <1>9
    <3>4. QED
      BY <2>1, <3>1, <3>2, <3>3 DEF MachineInv, CallersBelow
  <2>5. QED
    BY <2>3, <2>4 DEF MachineInv, CallersBelow
<1>10. Machine!Memory(op, next) /\ sp \in Int
  BY DEF next, MachineInv, MachineTypes
<1>11. CASE /\ op = Machine!STORE
            /\ IF sp < 1 \/ Machine!Local \notin Machine!Slots THEN Machine!Error
               ELSE /\ stack' = [stack EXCEPT ![Machine!Local] = Machine!Top(0)] /\ sp' = sp - 1 /\ ip' = next
                    /\ reached' = (reached \/ sp - 1 < Machine!Floor \/ Machine!Operand(1) < 0)
                    /\ UNCHANGED <<code, bp, globals, frames, status>>
  <2>1. CASE Machine!Error
    BY <2>1, HaltKeeps
  <2>2. CASE ~Machine!Error
    BY <2>2, <1>11, <1>8, <1>10
  <2>3. QED
    BY <2>1, <2>2
<1>12. CASE /\ op = Machine!GSTORE
            /\ IF sp < 1 THEN Machine!Error
               ELSE /\ globals' = [a \in DOMAIN globals \union {Machine!Operand(1)} |->
                                IF a = Machine!Operand(1) THEN Machine!Top(0) ELSE globals[a]]
                    /\ sp' = sp - 1 /\ ip' = next
                    /\ reached' = (reached \/ sp - 1 < Machine!Floor) /\ UNCHANGED <<code, stack, bp, frames, status>>
  <2>1. CASE Machine!Error
    BY <2>1, HaltKeeps
  <2>2. CASE ~Machine!Error
    BY <2>2, <1>12, <1>9, <1>10
  <2>3. QED
    BY <2>1, <2>2
<1>13. QED
  BY <1>6, <1>7, <1>10, <1>11, <1>12 DEF Machine!Memory

LEMMA CallKeeps ==
  ASSUME MachineInv, -Len(code) <= ip, ip + 3 <= Len(code), Machine!Call(ip + 3)
  PROVE  MachineInv'
<1> DEFINE base == sp - Machine!Operand(2)
           below == [i \in {k \in Machine!Slots : k < base} |-> stack[i]]
           frame == [to |-> ip + 3, bp |-> bp, sp |-> base, args |-> Machine!Operand(2), below |-> below]
<1>1. MachineTypes /\ StackSize \in Nat /\ Len(code) \in Nat /\ Len(frames) \in Nat
  BY EnginesAssumption, LenProperties DEF MachineInv, MachineTypes
<1>2. Machine!Operand(1) \in Int /\ Machine!Operand(2) \in Int
  BY <1>1, OperandIsInt DEF MachineTypes
<1>3. /\ frames' = Append(frames, frame) /\ bp' = base /\ ip' = Machine!Operand(1)
      /\ reached' = (reached \/ base < Machine!Floor \/ base > sp)
      /\ UNCHANGED <<code, stack, sp, globals, status>>
  BY DEF Machine!Call
<1>4. base \in Int /\ \A k \in Machine!Slots : k \in Int /\ 0 <= k /\ k < StackSize
  BY <1>1, <1>2 DEF MachineTypes, Machine!Slots
<1> HIDE DEF base
<1>5. below \in [{k \in Machine!Slots : k < base} -> Int] /\ \A k \in Machine!Slots : k < base => below[k] = stack[k]
  BY <1>1 DEF MachineTypes
<1>6. {k \in Machine!Slots : k < base} \in {{k \in Machine!Slots : k < b} : b \in Int}
  BY <1>4
<1>7. below \in Stacks
  BY <1>4, <1>5 DEF Stacks
<1> HIDE DEF below
<1>8. frame \in FrameRecords /\ frame.sp = base /\ frame.below = below
  BY <1>1, <1>2, <1>4, <1>7 DEF FrameRecords, MachineTypes
<1> HIDE DEF frame
<1>9. /\ frames' \in Seq(FrameRecords) /\ Len(frames') = Len(frames) + 1
      /\ \A i \in 1 .. Len(frames) : frames'[i] = frames[i]
      /\ frames'[Len(frames) + 1] = frame
  BY <1>1, <1>3, <1>8, AppendProperties DEF MachineTypes
<1>10. Machine!Floor' = base
  <2>1. frames' # <<>>
    BY <1>9, <1>1, EmptySeq
  <2>2. QED
    BY <1>8, <1>9, <2>1 DEF Machine!Floor, Machine!Last
<1>11. MachineTypes'
  BY <1>1, <1>2, <1>3, <1>4, <1>9 DEF MachineTypes, Machine!Slots
<1>12. ASSUME ~reached' PROVE CallersBelow'
  <2> ~reached /\ ~(base < Machine!Floor) /\ ~(base > sp)
    BY <1>3, <1>12
  <2>1. Machine!Floor \in Int /\ 0 <= Machine!Floor /\ Machine!Floor <= base /\ base <= sp /\ base <= StackSize
    BY <1>1, <1>4, FloorIsNumber DEF MachineTypes
  <2>2. /\ Machine!Floor <= bp /\ bp <= StackSize
        /\ \A i \in 1 .. Len(frames) :
             /\ 0 <= frames[i].sp /\ frames[i].sp <= Machine!Floor
             /\ \A j \in i .. Len(frames) : frames[i].sp <= frames[j].sp
             /\ \A k \in 0 .. frames[i].sp - 1 : stack[k] = frames[i].below[k]
    BY DEF MachineInv, CallersBelow
  <2>3. \A i \in 1 .. Len(frames) : frames[i].sp \in Int
    <3>1. SUFFICES ASSUME NEW i \in 1 .. Len(frames) PROVE frames[i].sp \in Int
      OBVIOUS
    <3>2. frames[i] \in FrameRecords
      BY <1>1, ElementOfSeq DEF MachineTypes
    <3>3. QED
      BY <3>2 DEF FrameRecords
  <2>4. ASSUME NEW i \in 1 .. Len(frames')
        PROVE  /\ 0 <= frames'[i].sp /\ frames'[i].sp <= base
               /\ \A j \in i .. Len(frames') : frames'[i].sp <= frames'[j].sp
               /\ \A k \in 0 .. frames'[i].sp - 1 : stack'[k] = frames'[i].below[k]
    <3>1. CASE i = Len(frames) + 1
      <4>1. frames'[i].sp = base /\ frames'[i].below = below
        BY <3>1, <1>8, <1>9
      <4>2. \A k \in 0 .. base - 1 : k \in Machine!Slots /\ k < base
        BY <1>1, <1>4, <2>1 DEF Machine!Slots
      <4>3. \A k \in 0 .. base - 1 : stack[k] = below[k]
        BY <4>2, <1>5
      <4>4. \A j \in i .. Len(frames') : j = i
        BY <3>1, <1>1, <1>9
      <4>5. QED
        BY <4>1, <4>3, <4>4, <1>3, <1>4, <2>1
    <3>2. CASE i \in 1 .. Len(frames)
      <4>1. frames'[i] = frames[i] /\ frames[i].sp \in Int
        BY <3>2, <1>9, <2>3
      <4>2. \A j \in i .. Len(frames') : frames[i].sp <= frames'[j].sp
        <5>1. SUFFICES ASSUME NEW j \in i .. Len(frames') PROVE frames[i].sp <= frames'[j].sp
          OBVIOUS
        <5>2. CASE j = Len(frames) + 1
          BY <5>2, <1>8, <1>9, <2>1, <2>2, <3>2, <4>1, <1>4
        <5>3. CASE j \in i .. Len(frames)
          BY <5>3, <3>2, <1>1, <1>9, <2>2
        <5>4. QED
          BY <5>1, <5>2, <5>3, <1>9, <1>1
      <4>3. QED
        BY <4>1, <4>2, <3>2, <1>3, <1>4, <2>1, <2>2
    <3>3. QED
      BY <3>1, <3>2, <1>1, <1>9
  <2>5. StackSize' = StackSize /\ bp' = base /\ sp' = sp
    BY <1>3
  <2>6. QED
    BY <1>10, <1>4, <2>1, <2>4, <2>5 DEF CallersBelow
<1>13. QED
  BY <1>11, <1>12 DEF MachineInv, CallersBelow

LEMMA ReturnKeeps ==
  ASSUME MachineInv, Machine!Return
  PROVE  MachineInv'
<1> DEFINE f == Machine!Last(frames)
<1>1. CASE Machine!Error
  BY <1>1, HaltKeeps
<1>2. ASSUME frames # <<>>, sp >= 1, f.sp < StackSize, f.sp >= -StackSize,
             sp' = f.sp + 1, ip' = f.to, frames' = Machine!Front(frames),
             stack' = [stack EXCEPT ![Machine!Slot(f.sp)] = Machine!Top(0)],
             UNCHANGED <<code, bp, globals, status, reached>>
      PROVE  MachineInv'
  <2> DEFINE n == Len(frames)
  <2>1. MachineTypes /\ StackSize \in Nat /\ n \in Nat /\ n >= 1
    BY <1>2, EnginesAssumption, LenProperties, EmptySeq DEF MachineInv, MachineTypes
  <2>2. f \in FrameRecords /\ Machine!Floor = f.sp /\ f = frames[n]
    BY <1>2, FloorIsNumber DEF Machine!Last
  <2>3. f.sp \in Int /\ f.to \in Int
    BY <2>2 DEF FrameRecords
  <2> HIDE DEF f
  <2>4. /\ frames' \in Seq(FrameRecords) /\ Len(frames') = n - 1
        /\ \A i \in 1 .. n - 1 : frames'[i] = frames[i]
    <3>1. \A i \in 1 .. n - 1 : frames[i] \in FrameRecords
      BY <2>1, ElementOfSeq DEF MachineTypes
    <3>2. frames' = SubSeq(frames, 1, n - 1) /\ n - 1 \in Nat
      BY <1>2, <2>1 DEF Machine!Front
    <3> HIDE DEF n
    <3>3. SubSeq(frames, 1, n - 1) \in Seq(FrameRecords) /\ Len(SubSeq(frames, 1, n - 1)) = n - 1
      BY <3>1, <3>2, SubSeqProperties
    <3>4. \A i \in 1 .. n - 1 : SubSeq(frames, 1, n - 1)[i] = frames[i]
      BY <3>1, <3>2, SubSeqProperties
    <3>5. QED
      BY <3>2, <3>3, <3>4
  <2>5. Machine!Top(0) \in Int
    <3>1. sp - 1 \in Machine!Slots /\ Machine!Top(0) = stack[sp - 1]
      BY <1>2, <2>1 DEF Machine!Slots, Machine!Top, MachineTypes
    <3>2. QED
      BY <3>1, <2>1 DEF MachineTypes
  <2>6. stack' \in [Machine!Slots -> Int]
    BY <1>2, <2>1, <2>5 DEF MachineTypes
  <2>7. MachineTypes'
    <3>1. sp' \in Int /\ sp' <= StackSize /\ ip' \in Int
      BY <1>2, <2>1, <2>3
    <3>2. code' = code /\ bp' = bp /\ reached' = reached /\ StackSize' = StackSize
      BY <1>2
    <3>3. QED
      BY ONLY <3>1, <3>2, <2>1, <2>4, <2>6 DEF MachineTypes, Machine!Slots, FrameRecords, Stacks
  <2>8. ASSUME ~reached' PROVE CallersBelow'
    <3>1. ~reached
      BY <2>8, <1>2
    <3>2. /\ f.sp <= bp /\ bp <= StackSize /\ f.sp <= sp
          /\ \A i \in 1 .. n :
               /\ 0 <= frames[i].sp /\ frames[i].sp <= f.sp
               /\ \A j \in i .. n : frames[i].sp <= frames[j].sp
               /\ \A k \in 0 .. frames[i].sp - 1 : stack[k] = frames[i].below[k]
      BY <3>1, <2>2 DEF MachineInv, CallersBelow
    <3>3. 0 <= f.sp
      BY <3>2, <2>1, <2>2
    <3>4. Machine!Slot(f.sp) = f.sp
      BY <3>3, <2>3, <2>1 DEF Machine!Slot, Machine!Wrap
    <3>5. \A k \in Int : 0 <= k /\ k < f.sp => stack'[k] = stack[k]
      BY <3>4, <1>2, <2>1, <2>3 DEF MachineTypes, Machine!Slots
    <3>6. \A i \in 1 .. n : frames[i].sp \in Int
      <4>1. SUFFICES ASSUME NEW i \in 1 .. n PROVE frames[i].sp \in Int
        OBVIOUS
      <4>2. frames[i] \in FrameRecords
        BY <2>1, ElementOfSeq DEF MachineTypes
      <4>3. QED
        BY <4>2 DEF FrameRecords
    <3>7. /\ Machine!Floor' \in Int /\ Machine!Floor' <= f.sp
          /\ \A i \in 1 .. n - 1 : frames[i].sp <= Machine!Floor'
      <4>1. CASE n = 1
        <5>1. frames' = <<>>
          BY <4>1, <2>4, EmptySeq
        <5>2. Machine!Floor' = 0
          BY <5>1 DEF Machine!Floor
        <5>3. 1 .. n - 1 = {}
          BY <4>1
        <5>4. \A i \in 1 .. n - 1 : frames[i].sp <= Machine!Floor'
          BY <5>3
        <5>5. 0 \in Int /\ Machine!Floor' <= f.sp
          BY <5>2, <3>3
        <5>6. QED
          BY <5>2, <5>4, <5>5
      <4>2. CASE n # 1
        <5>1. frames' # <<>> /\ n - 1 \in 1 .. n - 1
          BY <4>2, <2>1, <2>4, EmptySeq
        <5>2. Machine!Floor' = frames[n - 1].sp
          BY <5>1, <2>4 DEF Machine!Floor, Machine!Last
        <5> HIDE DEF n
        <5>3. n - 1 \in 1 .. n /\ \A i \in 1 .. n - 1 : i \in 1 .. n /\ n - 1 \in i .. n
          BY <2>1, <4>2
        <5>4. frames[n - 1].sp \in Int /\ frames[n - 1].sp <= f.sp
          BY <5>3, <3>2, <3>6
        <5>5. \A i \in 1 .. n - 1 : frames[i].sp <= frames[n - 1].sp
          BY <5>3, <3>2
        <5>6. QED
          BY <5>2, <5>4, <5>5
      <4>3. QED
        BY ONLY <4>1, <4>2
    <3>8. ASSUME NEW i \in 1 .. Len(frames')
          PROVE  /\ 0 <= frames'[i].sp /\ frames'[i].sp <= Machine!Floor'
                 /\ \A j \in i .. Len(frames') : frames'[i].sp <= frames'[j].sp
                 /\ \A k \in 0 .. frames'[i].sp - 1 : stack'[k] = frames'[i].below[k]
      <4>1. i \in 1 .. n - 1 /\ i \in 1 .. n /\ frames'[i] = frames[i]
        BY <2>1, <2>4
      <4>2. \A j \in i .. n - 1 : j \in i .. n /\ frames'[j] = frames[j]
        BY <2>1, <2>4, <4>1
      <4>3. \A k \in 0 .. frames[i].sp - 1 : k \in Int /\ 0 <= k /\ k < f.sp
        BY <3>2, <3>6, <4>1, <2>3
      <4>4. QED
        BY <4>1, <4>2, <4>3, <2>4, <3>2, <3>5, <3>7
    <3>9. StackSize' = StackSize /\ bp' = bp /\ sp' = f.sp + 1
      BY <1>2
    <3>10. bp \in Int
      BY <2>1 DEF MachineTypes
    <3>11. QED
      BY <3>2, <3>7, <3>8, <3>9, <3>10, <2>3 DEF CallersBelow
  <2>9. QED
    BY <2>7, <2>8 DEF MachineInv, CallersBelow
<1>3. QED
  <2>1. sp \in Int /\ (frames # <<>> => f.sp \in Int) /\ StackSize \in Nat
    BY EnginesAssumption, FloorIsNumber DEF MachineInv, MachineTypes, FrameRecords
  <2>2. CASE frames = <<>> \/ sp < 1 \/ f.sp >= StackSize \/ f.sp < -StackSize
    BY <2>2, <1>1 DEF Machine!Return
  <2>3. CASE ~(frames = <<>> \/ sp < 1 \/ f.sp >= StackSize \/ f.sp < -StackSize)
    BY <2>1, <2>3, <1>2 DEF Machine!Return
  <2>4. QED
    BY <2>2, <2>3

LEMMA MachineKeeps ==
  ASSUME MachineInv, Machine!Next
  PROVE  MachineInv'
<1>1. ip \in Int /\ Len(code) \in Nat
  BY LenProperties DEF MachineInv, MachineTypes
<1>2. CASE Machine!Halt \/ Machine!Error
  BY <1>2, HaltKeeps
<1>3. ASSUME -Len(code) <= ip, NEW op, Machine!Execute(op) PROVE MachineInv'
  <2>1. CASE op = Machine!HALT \/ op \notin 0 .. 31 \/ ip + Machine!Words(op) > Len(code)
    BY <2>1, <1>3, HaltKeeps DEF Machine!Execute
  <2>2. CASE op # Machine!HALT /\ op \in 0 .. 31 /\ ~(ip + Machine!Words(op) > Len(code))
    <3>1. Machine!Words(op) \in 1 .. 3
      BY DEF Machine!Words
    <3>2. ip + Machine!Words(op) <= Len(code)
      BY <2>2, <3>1, <1>1
    <3>3. CASE Machine!Simple(op, ip + Machine!Words(op))
      BY <3>2, <3>3, <2>2, <1>3, SimpleKeeps
    <3>4. CASE Machine!Memory(op, ip + Machine!Words(op))
      BY <3>2, <3>4, <2>2, <1>3, MemoryKeeps
    <3>5. CASE op = Machine!CALL /\ Machine!Call(ip + Machine!Words(op))
      <4>1. Machine!Words(op) = 3
        BY <3>5 DEF Machine!Words, Machine!STORE, Machine!CALL, Machine!PUSH, Machine!LOAD, Machine!ALLOC,
                    Machine!GLOAD, Machine!GSTORE, Machine!JMP, Machine!JZ, Machine!JNZ
      <4>2. QED
        BY <3>2, <3>5, <4>1, <1>3, CallKeeps
    <3>6. CASE op = Machine!RET /\ Machine!Return
      BY <3>6, ReturnKeeps
    <3>7. QED
      BY <2>2, <3>3, <3>4, <3>5, <3>6, <1>3 DEF Machine!Execute
  <2>3. QED
    BY <2>1, <2>2
<1>4. QED
  BY <1>1, <1>2, <1>3 DEF Machine!Next, Machine!Step

LEMMA MachineShows ==
  ASSUME MachineInv
  PROVE  Machine!CallersKeepTheirStack
<1>1. SUFFICES ASSUME ~reached
               PROVE  /\ Machine!Floor <= bp /\ bp <= StackSize /\ Machine!Floor <= sp /\ sp <= StackSize
                      /\ \A i \in 1 .. Len(frames) :
                           /\ i > 1 => frames[i - 1].sp <= frames[i].sp
                           /\ \A k \in 0 .. frames[i].sp - 1 : stack[k] = frames[i].below[k]
  BY DEF Machine!CallersKeepTheirStack
<1>2. Len(frames) \in Nat /\ sp <= StackSize
  BY LenProperties DEF MachineInv, MachineTypes
<1>3. \A i \in 1 .. Len(frames) : i > 1 => i - 1 \in 1 .. Len(frames) /\ i \in i - 1 .. Len(frames)
  BY <1>2
<1>4. QED
  BY <1>1, <1>2, <1>3 DEF MachineInv, CallersBelow

\* No call, nested call, jump or return of any program disturbs the stack of a
\* caller, as long as no function takes what is not its own, although RET leaves the
\* base pointer of the callee (CALL, RET, LOAD and STORE).
THEOREM CallersStayWhole == Spec => []CallersKeepTheirStack
<1> DEFINE Inv == which = "machine" => MachineInv
<1>1. Init => Inv
  <2>1. SUFFICES ASSUME Init, which = "machine" PROVE MachineInv
    OBVIOUS
  <2>2. Machine!Init
    BY <2>1 DEF Init
  <2>3. MachineTypes /\ Machine!Floor = 0
    <3>1. <<>> \in Seq(FrameRecords) /\ StackSize \in Nat /\ Codes \subseteq Seq(Int)
      BY EnginesAssumption, EmptySeq
    <3>2. Machine!Floor = 0
      BY <2>2 DEF Machine!Init, Machine!Floor
    <3>3. stack \in [Machine!Slots -> Int]
      BY <2>2 DEF Machine!Init
    <3>4. code \in Seq(Int) /\ sp = 0 /\ bp = 0 /\ ip = 0 /\ frames = <<>> /\ reached = FALSE
      BY <2>2, <3>1 DEF Machine!Init
    <3>5. sp <= StackSize /\ sp \in Int /\ bp \in Int /\ ip \in Int /\ frames \in Seq(FrameRecords)
      BY <3>1, <3>4
    <3>6. reached \in BOOLEAN
      BY <3>4
    <3>7. QED
      BY ONLY <3>2, <3>3, <3>4, <3>5, <3>6 DEF MachineTypes
  <2>4. Len(<<>>) = 0
    OBVIOUS
  <2>5. CallersBelow
    BY <2>2, <2>3, <2>4, EnginesAssumption DEF CallersBelow, Machine!Init
  <2>6. QED
    BY <2>3, <2>5 DEF MachineInv
<1>2. Inv /\ [Next]_vars => Inv'
  <2>1. SUFFICES ASSUME MachineInv, which = "machine", [Next]_vars PROVE MachineInv'
    BY DEF Next, vars
  <2>2. CASE Machine!Next
    BY <2>1, <2>2, MachineKeeps
  <2>3. CASE UNCHANGED machineVars
    <3>1. Machine!Floor' = Machine!Floor
      BY <2>3 DEF machineVars, Machine!Floor
    <3>2. QED
      BY <2>1, <2>3, <3>1 DEF machineVars, MachineInv, MachineTypes, CallersBelow
  <2>4. QED
    BY <2>1, <2>2, <2>3 DEF Next, vars
<1>3. Inv => CallersKeepTheirStack
  BY MachineShows DEF CallersKeepTheirStack
<1>4. QED
  BY <1>1, <1>2, <1>3, PTL DEF Spec

-----------------------------------------------------------------------------
(* The plugin loader *)

Standings == {Loader!Unregistered, "REGISTERED", "FAILED", "LOADED"}

\* Of any states that load_all goes through, when the plugins in lapsed have raised
\* after they had been loaded: what is loaded depends on other plugins, all of them
\* loaded unless one below it has lapsed.
LoadedRight(states, lapsed) ==
  \A p \in PluginNames : states[p] = "LOADED" =>
    \A d \in deps[p] : d # p /\ (Loader!Below(deps, p) \cap lapsed = {} => states[d] = "LOADED")

Known(states) == {p \in PluginNames : states[p] # Loader!Unregistered}

LoaderInv == /\ state \in [PluginNames -> Standings] /\ deps \in [PluginNames -> SUBSET PluginNames]
             /\ LoadedRight(state, relapsed) /\ IsFiniteSet(Known(state))
             /\ \A p \in PluginNames \ Known(state) : deps[p] = {}

\* What load_all has made of the states so far, when those in raising raise: nobody
\* has been unregistered, and of those in raising only what was loaded before still is.
Passing(states, raising) ==
  /\ states \in [PluginNames -> Standings]
  /\ LoadedRight(states, relapsed \union {p \in raising : state[p] = "LOADED"})
  /\ IsFiniteSet(Known(states)) /\ Known(state) \subseteq Known(states)
  /\ \A p \in raising : states[p] = "LOADED" => state[p] = "LOADED"

Closed(on, S) == \A r \in S : on[r] \subseteq S

\* What is below p: its dependencies, and with each plugin what is below that.
LEMMA BelowIsClosed ==
  ASSUME NEW on \in [PluginNames -> SUBSET PluginNames], NEW p \in PluginNames, NEW d \in on[p]
  PROVE  d \in Loader!Below(on, p) /\ Loader!Below(on, d) \subseteq Loader!Below(on, p)
<1>1. d \in PluginNames
  OBVIOUS
<1>2. ASSUME NEW S \in SUBSET PluginNames, on[p] \subseteq S, Closed(on, S)
      PROVE  d \in S /\ on[d] \subseteq S
  BY <1>2 DEF Closed
<1>3. d \in Loader!Below(on, p)
  BY <1>1, <1>2 DEF Loader!Below, Closed
<1>4. Loader!Below(on, d) \subseteq Loader!Below(on, p)
  BY <1>2 DEF Loader!Below, Closed
<1>5. QED
  BY <1>3, <1>4

\* What is below a plugin stays below it when the closed sets of the new dependencies
\* are closed under the old ones.
LEMMA BelowGrows ==
  ASSUME NEW on, NEW then, NEW p,
         \A S \in SUBSET PluginNames : then[p] \subseteq S /\ Closed(then, S) =>
             \E T \in SUBSET S : on[p] \subseteq T /\ Closed(on, T)
  PROVE  Loader!Below(on, p) \subseteq Loader!Below(then, p)
<1>1. SUFFICES ASSUME NEW q \in Loader!Below(on, p), NEW S \in SUBSET PluginNames, then[p] \subseteq S, Closed(then, S)
               PROVE  q \in S
  BY DEF Loader!Below, Closed
<1>2. PICK T \in SUBSET S : on[p] \subseteq T /\ Closed(on, T)
  BY <1>1
<1>3. T \in SUBSET PluginNames
  BY <1>1
<1>4. q \in T
  BY <1>2, <1>3 DEF Loader!Below, Closed
<1>5. QED
  BY <1>4

LEMMA LoaderCounts == \A set : Loader!Cardinality(set) = Cardinality(set)
<1>1. ASSUME NEW set PROVE Loader!Cardinality(set) = Cardinality(set)
  BY DEF Loader!Cardinality, Cardinality, Loader!IsFiniteSet, IsFiniteSet
<1>2. QED
  BY <1>1

\* One plugin of load_all's loop, whichever it is, keeps what holds: one that others
\* loaded before it fails only when one below those has lapsed.
LEMMA LoadOneKeeps ==
  ASSUME LoaderInv, NEW raising \in SUBSET PluginNames, NEW states, Passing(states, raising), NEW p
  PROVE  Passing(Loader!LoadOne(states, p, raising), raising)
<1> DEFINE bad == (\E d \in deps[p] : d = p \/ states[d] # "LOADED") \/ p \in raising
           lapsed == relapsed \union {q \in raising : state[q] = "LOADED"}
<1>1. PICK after : after = Loader!LoadOne(states, p, raising)
  OBVIOUS
<1>2. after = [states EXCEPT ![p] = IF bad THEN "FAILED" ELSE "LOADED"]
  BY <1>1 DEF Loader!LoadOne
<1>3. after \in [PluginNames -> Standings]
  BY <1>2 DEF Passing, Standings
<1>4. \A q \in PluginNames : after[q] = IF q = p THEN IF bad THEN "FAILED" ELSE "LOADED" ELSE states[q]
  BY <1>2 DEF Passing
<1>5. LoadedRight(after, lapsed)
  <2>1. SUFFICES ASSUME NEW q \in PluginNames, after[q] = "LOADED", NEW d \in deps[q]
                 PROVE  d # q /\ (Loader!Below(deps, q) \cap lapsed = {} => after[d] = "LOADED")
    BY DEF LoadedRight
  <2>2. d \in PluginNames /\ deps \in [PluginNames -> SUBSET PluginNames] /\ LoadedRight(states, lapsed)
    BY DEF LoaderInv, Passing
  <2>3. CASE q = p
    <3>1. ~bad
      BY <2>1, <2>3, <1>4
    <3>2. d # p /\ states[d] = "LOADED"
      BY <3>1, <2>3
    <3>3. QED
      BY <3>2, <2>2, <2>3, <1>4
  <2>4. CASE q # p
    <3>1. states[q] = "LOADED"
      BY <2>1, <2>4, <1>4
    <3>2. d # q /\ (Loader!Below(deps, q) \cap lapsed = {} => states[d] = "LOADED")
      BY <3>1, <2>2 DEF LoadedRight
    <3>3. SUFFICES ASSUME Loader!Below(deps, q) \cap lapsed = {} PROVE after[d] = "LOADED"
      BY <3>2
    <3>4. CASE d = p
      <4>1. p \in Loader!Below(deps, q) /\ Loader!Below(deps, p) \subseteq Loader!Below(deps, q)
        BY <3>4, <2>2, BelowIsClosed
      <4>2. states[p] = "LOADED"
        BY <3>2, <3>3, <3>4
      <4>3. \A e \in deps[p] : e # p /\ states[e] = "LOADED"
        BY <3>3, <3>4, <4>1, <4>2, <2>2 DEF LoadedRight
      <4>4. p \notin raising
        BY <3>3, <4>1, <4>2 DEF Passing
      <4>5. QED
        BY <4>3, <4>4, <3>4, <2>2, <1>4
    <3>5. QED
      BY <3>2, <3>3, <3>4, <2>2, <1>4
  <2>5. QED
    BY <2>3, <2>4
<1>6. IsFiniteSet(Known(after))
  <2>1. Known(after) \in SUBSET (Known(states) \cup {p})
    BY <1>4 DEF Known
  <2>2. IsFiniteSet(Known(states) \cup {p})
    BY FS_AddElement DEF Passing
  <2>3. QED
    BY <2>1, <2>2, FS_Subset
<1>7. Known(state) \subseteq Known(after)
  BY <1>4 DEF Passing, Known, Loader!Unregistered
<1>8. \A q \in raising : after[q] = "LOADED" => state[q] = "LOADED"
  BY <1>4 DEF Passing
<1>9. QED
  BY <1>1, <1>3, <1>5, <1>6, <1>7, <1>8 DEF Passing

LEMMA LoadAllKeeps ==
  ASSUME LoaderInv, NEW raising \in SUBSET PluginNames, Loader!LoadAll(raising)
  PROVE  LoaderInv'
<1> DEFINE V == [PluginNames -> Standings]
<1>1. PICK order : order = Loader!ResolveOrder
  OBVIOUS
<1>2. PICK n : n = Len(order)
  OBVIOUS
<1>3. n \in Nat
  <2>1. Loader!Registered = Known(state)
    BY DEF Loader!Registered, Known
  <2>2. n = Cardinality(Loader!Registered)
    <3>1. Len(Loader!ResolveOrder) = Loader!Cardinality(Loader!Registered)
      BY DEF Loader!LoadAll
    <3>2. QED
      BY <1>1, <1>2, <3>1, LoaderCounts
  <2>3. QED
    BY <2>1, <2>2, FS_CardinalityType DEF LoaderInv
<1> DEFINE Def(f, i) == IF i = 0 THEN state ELSE Loader!LoadOne(f[i - 1], order[i], raising)
<1>4. PICK step : step = [p \in (1 .. n) \X V |-> Loader!LoadOne(p[2], order[p[1]], raising)]
  OBVIOUS
<1>5. \A i \in 1 .. n, v \in V : step[<<i, v>>] = Loader!LoadOne(v, order[i], raising)
  BY <1>4
<1>6. \A i \in 1 .. n, v \in V : Loader!LoadOne(v, order[i], raising) \in V
  BY DEF Loader!LoadOne, Standings
<1>7. PICK f : FromZero(f, n, V, state, step)
  <2>1. state \in V
    BY DEF LoaderInv
  <2>2. step \in [(1 .. n) \X V -> V]
    <3>1. \A p \in (1 .. n) \X V : Loader!LoadOne(p[2], order[p[1]], raising) \in V
      BY <1>6
    <3> HIDE DEF V
    <3>2. QED
      BY <1>4, <3>1
  <2> HIDE DEF V
  <2>3. QED
    BY <1>3, <2>1, <2>2, RecursionFromZero
<1>8. f = [i \in 0 .. n |-> Def(f, i)]
  <2>1. f \in [0 .. n -> V] /\ f[0] = state /\ \A i \in 1 .. n : f[i] = step[<<i, f[i - 1]>>]
    BY <1>7 DEF FromZero
  <2>2. ASSUME NEW i \in 0 .. n PROVE f[i] = Def(f, i)
    <3>1. CASE i = 0
      BY <3>1, <2>1
    <3>2. CASE i # 0
      <4>1. i \in 1 .. n /\ i - 1 \in 0 .. n
        BY <3>2, <1>3
      <4>2. f[i - 1] \in V
        BY <4>1, <2>1
      <4> HIDE DEF V
      <4>3. QED
        BY <3>2, <4>1, <4>2, <2>1, <1>5
    <3>3. QED
      BY <3>1, <3>2
  <2>3. QED
    BY <2>1, <2>2
<1> DEFINE K == CHOOSE after : after = [i \in 0 .. n |-> Def(after, i)]
<1>9. K = [i \in 0 .. n |-> Def(K, i)]
  BY <1>8
<1>10. /\ state' = K[n] /\ deps' = deps
       /\ relapsed' = relapsed \union {p \in raising : state[p] = "LOADED"}
  BY <1>1, <1>2 DEF Loader!LoadAll
<1> HIDE DEF K
<1>11. K[0] = state /\ \A i \in 0 .. n - 1 : K[i + 1] = Loader!LoadOne(K[i], order[i + 1], raising)
  <2>1. 0 \in 0 .. n /\ \A i \in 0 .. n - 1 : i + 1 \in 0 .. n /\ i + 1 # 0 /\ (i + 1) - 1 = i
    BY <1>3
  <2>2. QED
    BY <1>9, <2>1
<1>12. PICK P : P = {i \in 0 .. n : Passing(K[i], raising)}
  OBVIOUS
<1>13. 0 \in P
  <2>1. LoadedRight(state, relapsed \union {p \in raising : state[p] = "LOADED"})
    BY DEF LoaderInv, LoadedRight
  <2>2. QED
    BY <2>1, <1>3, <1>11, <1>12 DEF LoaderInv, Passing
<1>14. \A i \in 0 .. n - 1 : i \in P => i + 1 \in P
  <2>1. SUFFICES ASSUME NEW i \in 0 .. n - 1, i \in P PROVE i + 1 \in P
    OBVIOUS
  <2>2. Passing(K[i + 1], raising)
    BY <2>1, <1>11, <1>12, LoadOneKeeps
  <2>3. i + 1 \in 0 .. n
    BY <1>3
  <2>4. QED
    BY <2>2, <2>3, <1>12
<1>15. Passing(state', raising)
  <2>1. \A i \in 0 .. n : i \in P
    BY <1>3, <1>13, <1>14, UpTo
  <2>2. QED
    BY <2>1, <1>3, <1>10, <1>12
<1>16. LoadedRight(state, relapsed)'
  BY <1>10, <1>15 DEF LoadedRight, Passing
<1>17. \A p \in PluginNames \ Known(state)' : deps'[p] = {}
  BY <1>10, <1>15 DEF LoaderInv, Passing, Known, Loader!Unregistered
<1>18. QED
  BY <1>10, <1>15, <1>16, <1>17 DEF LoaderInv, Passing, Known, Standings, Loader!Unregistered

LEMMA RegisterKeeps ==
  ASSUME LoaderInv, NEW p \in PluginNames, NEW on \in SUBSET PluginNames, Loader!Register(p, on)
  PROVE  LoaderInv'
<1>1. /\ state[p] = Loader!Unregistered /\ state' = [state EXCEPT ![p] = "REGISTERED"]
      /\ deps' = [deps EXCEPT ![p] = on] /\ relapsed' = relapsed
  BY DEF Loader!Register, Loader!Registered
<1>2. state' \in [PluginNames -> Standings] /\ deps' \in [PluginNames -> SUBSET PluginNames]
  BY <1>1 DEF LoaderInv, Standings
<1>3. \A q \in PluginNames : q # p => state'[q] = state[q] /\ deps'[q] = deps[q]
  BY <1>1 DEF LoaderInv
<1>4. state'[p] = "REGISTERED" /\ deps[p] = {}
  BY <1>1 DEF LoaderInv, Known
<1>5. LoadedRight(state, relapsed)'
  <2>1. SUFFICES ASSUME NEW q \in PluginNames, state'[q] = "LOADED", NEW d \in deps'[q]
                 PROVE  d # q /\ (Loader!Below(deps', q) \cap relapsed = {} => state'[d] = "LOADED")
    BY <1>1 DEF LoadedRight
  <2>2. q # p /\ state[q] = "LOADED" /\ deps'[q] = deps[q] /\ d \in PluginNames
    BY <2>1, <1>2, <1>3, <1>4
  <2>3. d # q /\ (Loader!Below(deps, q) \cap relapsed = {} => state[d] = "LOADED")
    BY <2>1, <2>2 DEF LoaderInv, LoadedRight
  <2>4. Loader!Below(deps, q) \subseteq Loader!Below(deps', q)
    <3>1. ASSUME NEW S \in SUBSET PluginNames, deps'[q] \subseteq S, Closed(deps', S)
          PROVE  deps[q] \subseteq S /\ Closed(deps, S)
      BY <3>1, <2>2, <1>3, <1>4 DEF Closed
    <3>2. QED
      BY <3>1, BelowGrows
  <2>5. QED
    BY <2>2, <2>3, <2>4, <1>1, <1>3 DEF Loader!Unregistered
<1>6. IsFiniteSet(Known(state)')
  <2>1. Known(state)' \in SUBSET (Known(state) \cup {p})
    BY <1>3 DEF Known, Loader!Unregistered
  <2>2. QED
    BY <2>1, FS_AddElement, FS_Subset DEF LoaderInv
<1>7. \A q \in PluginNames \ Known(state)' : deps'[q] = {}
  BY <1>3, <1>4 DEF LoaderInv, Known, Loader!Unregistered
<1>8. QED
  BY <1>2, <1>5, <1>6, <1>7 DEF LoaderInv

\* Nobody depends on what is unregistered, so it was below nobody either.
LEMMA UnregisterKeeps ==
  ASSUME LoaderInv, NEW p \in PluginNames, Loader!Unregister(p)
  PROVE  LoaderInv'
<1>1. /\ \A q \in Loader!Registered : p \notin deps[q]
      /\ state' = [state EXCEPT ![p] = Loader!Unregistered] /\ deps' = [deps EXCEPT ![p] = {}]
      /\ relapsed' = relapsed
  BY DEF Loader!Unregister, Loader!MayUnregister
<1>2. state' \in [PluginNames -> Standings] /\ deps' \in [PluginNames -> SUBSET PluginNames]
  BY <1>1 DEF LoaderInv, Standings
<1>3. \A q \in PluginNames : q # p => state'[q] = state[q] /\ deps'[q] = deps[q]
  BY <1>1 DEF LoaderInv
<1>4. state'[p] = Loader!Unregistered /\ deps'[p] = {}
  BY <1>1 DEF LoaderInv
<1>5. \A q \in PluginNames : p \notin deps[q]
  BY <1>1 DEF LoaderInv, Known, Loader!Registered
<1>6. LoadedRight(state, relapsed)'
  <2>1. SUFFICES ASSUME NEW q \in PluginNames, state'[q] = "LOADED", NEW d \in deps'[q]
                 PROVE  d # q /\ (Loader!Below(deps', q) \cap relapsed = {} => state'[d] = "LOADED")
    BY <1>1 DEF LoadedRight
  <2>2. q # p /\ state[q] = "LOADED" /\ deps'[q] = deps[q] /\ d \in PluginNames
    BY <2>1, <1>2, <1>3, <1>4 DEF Loader!Unregistered
  <2>3. d # q /\ (Loader!Below(deps, q) \cap relapsed = {} => state[d] = "LOADED")
    BY <2>1, <2>2 DEF LoaderInv, LoadedRight
  <2>4. Loader!Below(deps, q) \subseteq Loader!Below(deps', q)
    <3>1. ASSUME NEW S \in SUBSET PluginNames, deps'[q] \subseteq S, Closed(deps', S)
          PROVE  deps[q] \subseteq S \ {p} /\ Closed(deps, S \ {p})
      BY <3>1, <2>2, <1>3, <1>5 DEF Closed
    <3>2. QED
      BY <3>1, BelowGrows
  <2>5. QED
    BY <2>2, <2>3, <2>4, <1>3, <1>5
<1>7. IsFiniteSet(Known(state)')
  <2>1. Known(state)' \in SUBSET Known(state)
    BY <1>3, <1>4 DEF Known, Loader!Unregistered
  <2>2. QED
    BY <2>1, FS_Subset DEF LoaderInv
<1>8. \A q \in PluginNames \ Known(state)' : deps'[q] = {}
  BY <1>3, <1>4 DEF LoaderInv, Known, Loader!Unregistered
<1>9. QED
  BY <1>2, <1>6, <1>7, <1>8 DEF LoaderInv

LEMMA LoaderKeeps ==
  ASSUME LoaderInv, Loader!Next
  PROVE  LoaderInv'
<1>1. ASSUME NEW raising \in SUBSET Loader!Registered, Loader!LoadAll(raising) PROVE LoaderInv'
  <2>1. raising \in SUBSET PluginNames
    BY <1>1 DEF Loader!Registered
  <2>2. QED
    BY <1>1, <2>1, LoadAllKeeps
<1>2. QED
  BY <1>1, RegisterKeeps, UnregisterKeeps DEF Loader!Next

LEMMA LoaderStarts ==
  ASSUME Loader!Init
  PROVE  LoaderInv
<1>1. Known(state) = {}
  BY DEF Loader!Init, Known
<1>2. QED
  BY <1>1, FS_EmptySet DEF Loader!Init, LoaderInv, LoadedRight, Standings, Loader!Unregistered

LEMMA LoaderStays ==
  ASSUME LoaderInv, UNCHANGED loaderVars
  PROVE  LoaderInv'
<1>1. state' = state /\ deps' = deps /\ relapsed' = relapsed
  BY DEF loaderVars
<1>2. LoadedRight(state, relapsed)' /\ Known(state)' = Known(state)
  BY <1>1 DEF LoaderInv, LoadedRight, Known, Loader!Unregistered
<1>3. QED
  BY <1>1, <1>2 DEF LoaderInv, Standings, Loader!Unregistered

-----------------------------------------------------------------------------
(* The reactive nodes *)

NodeSet == Nodes!AllNodes

Graphs == [val : [NodeSet -> Int], up : [NodeSet -> Seq(Nodes!Computeds)], down : [NodeSet -> Seq(NodeSet)],
           raised : BOOLEAN, changed : BOOLEAN]

\* Both ends of every edge know of it.
Mutual(G) == \A n, c \in NodeSet : c \in ToSet(G.up[n]) <=> n \in ToSet(G.down[c])

\* G after a change to what c is subscribed to.
Resubscribed(T, G, c, to) ==
  /\ T \in Graphs /\ Mutual(T) /\ T.val = G.val /\ T.raised = G.raised
  /\ ToSet(T.down[c]) = to
  /\ \A d \in NodeSet : d # c => T.down[d] = G.down[d]

Reads(val, c) == {Formula[c].test, Nodes!Chosen(val, c)}

\* H is as G is, except at c.
SameBut(H, G, c) == \A x \in NodeSet : x # c => H.val[x] = G.val[x] /\ H.down[x] = G.down[x]

\* c agrees with its formula, and is subscribed to what that reads.
UpToDate(G, c) == /\ Nodes!Same(c, G.val[c], Nodes!Compute(G.val, c))
                  /\ ToSet(G.down[c]) = Reads(G.val, c)

NodesTypes == /\ graph \in Graphs /\ graph.raised = FALSE /\ Mutual(graph)
              /\ work \in Seq(Nodes!Computeds) /\ made \in 0 .. Len(Order) /\ broken \in BOOLEAN

\* What a run of c's compute_fn leaves.
Recomputed(R, G, c) ==
  /\ R \in Graphs /\ Mutual(R) /\ SameBut(R, G, c)
  /\ R.raised => ~R.changed
  /\ ~R.raised => UpToDate(R, c) /\ (~R.changed => R.val[c] = G.val[c])

\* Whatever is not up to date is in the work that a set() has still to do.
NodesInv == /\ NodesTypes
            /\ ~broken => \A c \in Nodes!Existing : c \in ToSet(work) \/ UpToDate(graph, c)

LEMMA NodeLists ==
  /\ \A s, gone : Nodes!Without(s, gone) = Without(s, gone)
  /\ \A s : Nodes!ToSet(s) = ToSet(s)
  /\ \A S : \A s \in Seq(S) : \A x : Nodes!Contains(s, x) <=> x \in ToSet(s)
<1>1. ASSUME NEW s, NEW gone PROVE Nodes!Without(s, gone) = Without(s, gone)
  BY DEF Without, Nodes!Without
<1>2. ASSUME NEW S, NEW s \in Seq(S), NEW x PROVE Nodes!Contains(s, x) <=> x \in ToSet(s)
  <2>1. DOMAIN s = 1 .. Len(s)
    BY LenProperties
  <2>2. QED
    BY <2>1 DEF Nodes!Contains, ToSet
<1>3. QED
  BY <1>1, <1>2 DEF Nodes!ToSet, ToSet

LEMMA AddNewIs ==
  ASSUME NEW S, NEW s \in Seq(S), NEW x \in S
  PROVE  Nodes!AddNew(s, x) \in Seq(S) /\ ToSet(Nodes!AddNew(s, x)) = ToSet(s) \union {x}
BY NodeLists, EndsOfLists, AppendProperties DEF Nodes!AddNew

LEMMA ConcatIs ==
  ASSUME NEW S, NEW s \in Seq(S), NEW t \in Seq(S)
  PROVE  s \o t \in Seq(S) /\ ToSet(s \o t) = ToSet(s) \union ToSet(t)
<1>1. /\ s \o t \in Seq(S) /\ Len(s \o t) = Len(s) + Len(t)
      /\ \A i \in 1 .. Len(s) + Len(t) : (s \o t)[i] = IF i <= Len(s) THEN s[i] ELSE t[i - Len(s)]
  BY ConcatProperties
<1>2. PICK u : u = s \o t
  OBVIOUS
<1>3. /\ DOMAIN s = 1 .. Len(s) /\ DOMAIN t = 1 .. Len(t) /\ DOMAIN u = 1 .. Len(u)
      /\ Len(s) \in Nat /\ Len(t) \in Nat
  BY <1>1, <1>2, LenProperties
<1>4. ToSet(u) \subseteq ToSet(s) \union ToSet(t)
  <2>1. SUFFICES ASSUME NEW i \in 1 .. Len(u) PROVE u[i] \in ToSet(s) \union ToSet(t)
    BY <1>3 DEF ToSet
  <2>2. CASE i <= Len(s)
    <3>1. i \in DOMAIN s /\ u[i] = s[i]
      BY <2>2, <1>1, <1>2, <1>3
    <3>2. QED
      BY <3>1 DEF ToSet
  <2>3. CASE ~(i <= Len(s))
    <3>1. i - Len(s) \in DOMAIN t /\ u[i] = t[i - Len(s)]
      BY <2>3, <1>1, <1>2, <1>3
    <3>2. QED
      BY <3>1 DEF ToSet
  <2>4. QED
    BY <2>2, <2>3
<1>5. ToSet(s) \subseteq ToSet(u)
  <2>1. \A i \in DOMAIN s : i \in DOMAIN u /\ u[i] = s[i]
    BY <1>1, <1>2, <1>3
  <2>2. QED
    BY <2>1 DEF ToSet
<1>6. ToSet(t) \subseteq ToSet(u)
  <2>1. \A i \in DOMAIN t : i + Len(s) \in DOMAIN u /\ u[i + Len(s)] = t[i]
    BY <1>1, <1>2, <1>3
  <2>2. QED
    BY <2>1 DEF ToSet
<1>7. QED
  BY <1>1, <1>2, <1>4, <1>5, <1>6

LEMMA TrackKeeps ==
  ASSUME NEW G \in Graphs, Mutual(G), NEW c \in Nodes!Computeds, NEW n \in NodeSet, NEW T, T = Nodes!Track(G, c, n)
  PROVE  Resubscribed(T, G, c, ToSet(G.down[c]) \union {n})
<1>1. T = [G EXCEPT !.up[n] = Nodes!AddNew(G.up[n], c), !.down[c] = Nodes!AddNew(G.down[c], n)]
  BY DEF Nodes!Track
<1>2. c \in NodeSet /\ G.up[n] \in Seq(Nodes!Computeds) /\ G.down[c] \in Seq(NodeSet)
  BY DEF Graphs, NodeSet, Nodes!AllNodes
<1>3. PICK u : u = Nodes!AddNew(G.up[n], c)
  OBVIOUS
<1>4. PICK v : v = Nodes!AddNew(G.down[c], n)
  OBVIOUS
<1>5. /\ u \in Seq(Nodes!Computeds) /\ ToSet(u) = ToSet(G.up[n]) \union {c}
      /\ v \in Seq(NodeSet) /\ ToSet(v) = ToSet(G.down[c]) \union {n}
  <2>1. u \in Seq(Nodes!Computeds) /\ ToSet(u) = ToSet(G.up[n]) \union {c}
    BY <1>2, <1>3, AddNewIs
  <2>2. v \in Seq(NodeSet) /\ ToSet(v) = ToSet(G.down[c]) \union {n}
    BY <1>2, <1>4, AddNewIs
  <2>3. QED
    BY <2>1, <2>2
<1>6. T = [G EXCEPT !.up[n] = u, !.down[c] = v]
  BY <1>1, <1>3, <1>4
<1>7. T \in Graphs /\ T.val = G.val /\ T.raised = G.raised
  <2>1. T = [val |-> G.val, up |-> [G.up EXCEPT ![n] = u], down |-> [G.down EXCEPT ![c] = v],
             raised |-> G.raised, changed |-> G.changed]
    BY <1>6 DEF Graphs
  <2>2. [G.up EXCEPT ![n] = u] \in [NodeSet -> Seq(Nodes!Computeds)] /\ [G.down EXCEPT ![c] = v] \in [NodeSet -> Seq(NodeSet)]
    BY <1>5 DEF Graphs
  <2>3. G.val \in [NodeSet -> Int] /\ G.raised \in BOOLEAN /\ G.changed \in BOOLEAN
    BY DEF Graphs
  <2>4. QED
    BY <2>1, <2>2, <2>3 DEF Graphs
<1>8. \A x \in NodeSet : T.up[x] = (IF x = n THEN u ELSE G.up[x]) /\ T.down[x] = (IF x = c THEN v ELSE G.down[x])
  BY <1>6 DEF Graphs
<1>9. Mutual(T)
  BY <1>5, <1>8 DEF Mutual
<1>10. ToSet(T.down[c]) = ToSet(G.down[c]) \union {n} /\ \A d \in NodeSet : d # c => T.down[d] = G.down[d]
  BY <1>2, <1>5, <1>8
<1>11. QED
  BY <1>7, <1>9, <1>10 DEF Resubscribed

LEMMA UntrackKeeps ==
  ASSUME NEW G \in Graphs, Mutual(G), NEW c \in NodeSet, NEW T, T = Nodes!Untrack(G, c)
  PROVE  Resubscribed(T, G, c, {})
<1> DEFINE up == [n \in NodeSet |-> IF n \in ToSet(G.down[c]) THEN Without(G.up[n], {c}) ELSE G.up[n]]
<1>1. T = [G EXCEPT !.down[c] = <<>>, !.up = up]
  <2>1. \A n \in NodeSet : Nodes!Contains(G.down[c], n) <=> n \in ToSet(G.down[c])
    BY NodeLists DEF Graphs
  <2>2. [n \in NodeSet |-> IF Nodes!Contains(G.down[c], n) THEN Nodes!Without(G.up[n], {c}) ELSE G.up[n]] = up
    BY <2>1, NodeLists
  <2>3. QED
    BY <2>2 DEF Nodes!Untrack, NodeSet
<1>2. \A n \in NodeSet : G.up[n] \in Seq(Nodes!Computeds) /\ Without(G.up[n], {c}) \in Seq(Nodes!Computeds)
                     /\ ToSet(Without(G.up[n], {c})) = ToSet(G.up[n]) \ {c}
  BY RemovalKeeps DEF Graphs
<1>3. up \in [NodeSet -> Seq(Nodes!Computeds)] /\ \A n \in NodeSet : ToSet(up[n]) = ToSet(G.up[n]) \ {c}
  <2>1. up \in [NodeSet -> Seq(Nodes!Computeds)]
    BY <1>2
  <2>2. ASSUME NEW n \in NodeSet PROVE ToSet(up[n]) = ToSet(G.up[n]) \ {c}
    BY <1>2 DEF Mutual
  <2>3. QED
    BY <2>1, <2>2
<1> HIDE DEF up
<1>4. T.up = up /\ \A x \in NodeSet : T.down[x] = IF x = c THEN <<>> ELSE G.down[x]
  BY <1>1, <1>3 DEF Graphs
<1>5. <<>> \in Seq(NodeSet) /\ ToSet(<<>>) = {}
  BY EmptySeq DEF ToSet
<1>6. T \in Graphs /\ T.val = G.val /\ T.raised = G.raised
  <2>1. T = [val |-> G.val, up |-> up, down |-> [G.down EXCEPT ![c] = <<>>],
             raised |-> G.raised, changed |-> G.changed]
    BY <1>1 DEF Graphs
  <2>2. [G.down EXCEPT ![c] = <<>>] \in [NodeSet -> Seq(NodeSet)]
    BY <1>5 DEF Graphs
  <2>3. G.val \in [NodeSet -> Int] /\ G.raised \in BOOLEAN /\ G.changed \in BOOLEAN
    BY DEF Graphs
  <2>4. QED
    BY <1>3, <2>1, <2>2, <2>3 DEF Graphs
<1>7. Mutual(T)
  BY <1>3, <1>4, <1>5 DEF Mutual
<1>8. QED
  BY <1>4, <1>5, <1>6, <1>7 DEF Resubscribed

\* The formula of a computed node reads nodes made before it.
LEMMA FormulasReadBack ==
  ASSUME NEW i \in 1 .. Len(Order), NEW val
  PROVE  /\ Order[i] \in NodeSet /\ Order[i] \notin Signals /\ Formula[Order[i]].add \in Int
         /\ \A j \in 1 .. Len(Order) : j >= i => /\ Formula[Order[i]].test # Order[j]
                                                 /\ Nodes!Chosen(val, Order[i]) # Order[j]
         /\ Formula[Order[i]].test \in NodeSet /\ Nodes!Chosen(val, Order[i]) \in NodeSet
<1>1. /\ Order[i] \notin Signals /\ Formula[Order[i]].add \in Int
      /\ {Formula[Order[i]].test, Formula[Order[i]].zero, Formula[Order[i]].other}
           \subseteq Signals \union {Order[j] : j \in 1 .. i - 1}
      /\ \A j \in 1 .. Len(Order) : Order[j] \notin Signals /\ \A k \in 1 .. j - 1 : Order[k] # Order[j]
  BY EnginesAssumption
<1>2. Len(Order) \in Nat
  BY EnginesAssumption, LenProperties
<1>3. Signals \subseteq NodeSet /\ \A j \in 1 .. Len(Order) : Order[j] \in NodeSet
  BY DEF NodeSet, Nodes!AllNodes, Nodes!Computeds
<1>4. \A j \in 1 .. i - 1 : j \in 1 .. Len(Order)
  BY <1>2
<1>5. \A j \in 1 .. Len(Order) : j >= i => Order[j] \notin Signals \union {Order[k] : k \in 1 .. i - 1}
  <2>1. SUFFICES ASSUME NEW j \in 1 .. Len(Order), j >= i, NEW k \in 1 .. i - 1 PROVE Order[j] # Order[k]
    BY <1>1
  <2>2. k \in 1 .. j - 1
    BY <2>1, <1>2
  <2>3. QED
    BY <2>2, <1>1
<1>6. Nodes!Chosen(val, Order[i]) \in {Formula[Order[i]].zero, Formula[Order[i]].other}
  BY DEF Nodes!Chosen
<1>7. QED
  BY <1>1, <1>3, <1>4, <1>5, <1>6

LEMMA RecomputeGives ==
  ASSUME NEW G \in Graphs, Mutual(G), NEW i \in 1 .. Len(Order), NEW c, c = Order[i],
         NEW R, R = Nodes!Recompute(G, c), G.raised = FALSE
  PROVE  Recomputed(R, G, c)
<1> DEFINE read == Nodes!Chosen(G.val, c)
           new == Nodes!Compute(G.val, c)
<1>1. /\ c \in NodeSet /\ Formula[c].test \in NodeSet /\ read \in NodeSet /\ Formula[c].add \in Int
      /\ Formula[c].test # c /\ \A val : Nodes!Chosen(val, c) # c
  <2>1. i >= i
    OBVIOUS
  <2>2. \A val : /\ c \in NodeSet /\ Formula[c].add \in Int /\ Formula[c].test # c /\ Nodes!Chosen(val, c) # c
                 /\ Formula[c].test \in NodeSet /\ Nodes!Chosen(val, c) \in NodeSet
    BY <2>1, FormulasReadBack
  <2>3. QED
    BY <2>2
<1>2. PICK T1 : T1 = Nodes!Untrack(G, c)
  OBVIOUS
<1>16. PICK test : test = Formula[c].test
  OBVIOUS
<1>17. PICK chosen : chosen = read
  OBVIOUS
<1>3. PICK T2 : T2 = Nodes!Track(T1, c, test)
  OBVIOUS
<1>4. PICK T : T = Nodes!Track(T2, c, chosen)
  OBVIOUS
<1>18. c \in NodeSet /\ c \in Nodes!Computeds /\ test \in NodeSet /\ chosen \in NodeSet
  BY <1>1, <1>16, <1>17 DEF Nodes!Computeds
<1>5. Resubscribed(T1, G, c, {})
  BY <1>18, <1>2, UntrackKeeps
<1>6. Resubscribed(T2, T1, c, {test})
  <2>1. T1 \in Graphs /\ Mutual(T1) /\ ToSet(T1.down[c]) \union {test} = {test}
    BY <1>5 DEF Resubscribed
  <2>2. Resubscribed(T2, T1, c, ToSet(T1.down[c]) \union {test})
    BY <1>18, <1>3, <2>1, TrackKeeps
  <2>3. QED
    BY <2>1, <2>2
<1>19. Resubscribed(T, T2, c, {test, chosen})
  <2>1. T2 \in Graphs /\ Mutual(T2) /\ ToSet(T2.down[c]) \union {chosen} = {test, chosen}
    BY <1>6 DEF Resubscribed
  <2>2. Resubscribed(T, T2, c, ToSet(T2.down[c]) \union {chosen})
    BY <1>18, <1>4, <2>1, TrackKeeps
  <2>3. QED
    BY <2>1, <2>2
<1>7. /\ T \in Graphs /\ Mutual(T) /\ T.val = G.val /\ T.raised = G.raised
      /\ ToSet(T.down[c]) = Reads(G.val, c)
      /\ \A d \in NodeSet : d # c => T.down[d] = G.down[d]
  <2>1. Reads(G.val, c) = {test, chosen}
    BY <1>16, <1>17 DEF Reads
  <2>2. T \in Graphs /\ Mutual(T) /\ T.val = T2.val /\ T.raised = T2.raised /\ ToSet(T.down[c]) = {test, chosen}
    BY ONLY <1>19 DEF Resubscribed
  <2>3. T2.val = T1.val /\ T2.raised = T1.raised /\ T1.val = G.val /\ T1.raised = G.raised
    BY ONLY <1>5, <1>6 DEF Resubscribed
  <2>4. \A d \in NodeSet : d # c => T.down[d] = T2.down[d] /\ T2.down[d] = T1.down[d] /\ T1.down[d] = G.down[d]
    BY ONLY <1>5, <1>6, <1>19 DEF Resubscribed
  <2>5. QED
    BY ONLY <2>1, <2>2, <2>3, <2>4
<1>8. new \in Int /\ new # Nodes!None
  <2>1. G.val[read] \in Int /\ Values \in Nat \ {0}
    BY <1>1, EnginesAssumption DEF Graphs
  <2>2. (G.val[read] + Formula[c].add) % Values \in Nat
    BY <2>1, <1>1
  <2>3. QED
    BY <2>2 DEF Nodes!Compute, Nodes!None
<1>9. \A val \in [NodeSet -> Int] : (\A d \in NodeSet : d # c => val[d] = G.val[d])
        => Nodes!Compute(val, c) = new /\ Reads(val, c) = Reads(G.val, c)
  BY <1>1 DEF Nodes!Compute, Nodes!Chosen, Reads
<1> HIDE DEF new, read
<1>10. T \in Graphs /\ T.val[c] = G.val[c] /\ G.val \in [NodeSet -> Int]
  BY <1>7 DEF Graphs
<1>11. R = IF c \in Fragile /\ new = 0 THEN [T EXCEPT !.raised = TRUE, !.changed = FALSE]
           ELSE IF Nodes!Same(c, G.val[c], new) THEN [T EXCEPT !.changed = FALSE]
           ELSE [T EXCEPT !.val[c] = new, !.changed = TRUE]
  BY <1>2, <1>3, <1>4, <1>16, <1>17 DEF Nodes!Recompute, new, read
<1>12. CASE c \in Fragile /\ new = 0
  <2>1. R = [val |-> T.val, up |-> T.up, down |-> T.down, raised |-> TRUE, changed |-> FALSE]
    BY <1>11, <1>12, <1>7 DEF Graphs
  <2>2. R \in Graphs /\ Mutual(R)
    BY <2>1, <1>7 DEF Graphs, Mutual
  <2>3. QED
    BY <2>1, <2>2, <1>7 DEF Recomputed, SameBut
<1>13. CASE ~(c \in Fragile /\ new = 0) /\ Nodes!Same(c, G.val[c], new)
  <2>1. R = [val |-> T.val, up |-> T.up, down |-> T.down, raised |-> T.raised, changed |-> FALSE]
    BY <1>11, <1>13, <1>7 DEF Graphs
  <2>2. R \in Graphs /\ Mutual(R)
    BY <2>1, <1>7 DEF Graphs, Mutual
  <2>3. UpToDate(R, c)
    BY <2>1, <1>7, <1>9, <1>10, <1>13 DEF UpToDate
  <2>4. QED
    BY <2>1, <2>2, <2>3, <1>7 DEF Recomputed, SameBut
<1>14. CASE ~(c \in Fragile /\ new = 0) /\ ~Nodes!Same(c, G.val[c], new)
  <2>1. PICK val : val = [G.val EXCEPT ![c] = new]
    OBVIOUS
  <2>2. R = [val |-> val, up |-> T.up, down |-> T.down, raised |-> T.raised, changed |-> TRUE]
    BY ONLY <1>11, <1>14, <1>7, <2>1 DEF Graphs
  <2>3. val \in [NodeSet -> Int] /\ val[c] = new /\ \A d \in NodeSet : d # c => val[d] = G.val[d]
    BY <1>1, <1>8, <1>10, <2>1
  <2>4. R \in Graphs /\ Mutual(R)
    BY <2>2, <2>3, <1>7 DEF Graphs, Mutual
  <2>5. Nodes!Same(c, new, new)
    BY <1>8 DEF Nodes!Same
  <2>6. UpToDate(R, c)
    BY <2>2, <2>3, <2>5, <1>7, <1>9 DEF UpToDate
  <2>7. QED
    BY <2>2, <2>3, <2>4, <2>6, <1>7 DEF Recomputed, SameBut
<1>15. QED
  BY <1>12, <1>13, <1>14

\* A change of one node leaves up to date those that do not read it.
LEMMA OthersStay ==
  ASSUME NEW G, NEW H, NEW i \in 1 .. Len(Order), NEW d, d = Order[i], NEW c, d # c, SameBut(H, G, c),
         UpToDate(G, d), c \notin ToSet(G.down[d]) \/ H.val[c] = G.val[c]
  PROVE  UpToDate(H, d)
<1>1. d \in NodeSet /\ Formula[d].test \in NodeSet /\ Nodes!Chosen(G.val, d) \in NodeSet
  BY FormulasReadBack
<1>2. H.val[d] = G.val[d] /\ H.down[d] = G.down[d]
  BY <1>1 DEF SameBut
<1>3. H.val[Formula[d].test] = G.val[Formula[d].test]
  BY <1>1 DEF UpToDate, Reads, SameBut
<1>4. Nodes!Chosen(H.val, d) = Nodes!Chosen(G.val, d)
  BY <1>3 DEF Nodes!Chosen
<1>5. H.val[Nodes!Chosen(G.val, d)] = G.val[Nodes!Chosen(G.val, d)]
  BY <1>1 DEF UpToDate, Reads, SameBut
<1>6. Nodes!Compute(H.val, d) = Nodes!Compute(G.val, d)
  BY <1>4, <1>5 DEF Nodes!Compute
<1>7. Reads(H.val, d) = Reads(G.val, d)
  BY <1>4 DEF Reads
<1>8. QED
  BY <1>2, <1>6, <1>7 DEF UpToDate

LEMMA ClearedIs ==
  ASSUME NEW G \in Graphs, Mutual(G), NEW H, H = [G EXCEPT !.raised = FALSE]
  PROVE  /\ H \in Graphs /\ Mutual(H) /\ H.raised = FALSE /\ H.val = G.val /\ H.up = G.up /\ H.down = G.down
         /\ \A c : UpToDate(H, c) <=> UpToDate(G, c)
<1>1. H = [val |-> G.val, up |-> G.up, down |-> G.down, raised |-> FALSE, changed |-> G.changed]
  BY DEF Graphs
<1>2. H \in Graphs /\ H.raised = FALSE /\ H.val = G.val /\ H.up = G.up /\ H.down = G.down
  BY <1>1 DEF Graphs
<1>3. QED
  BY <1>2 DEF Mutual, UpToDate

LEMMA ExistingAre ==
  ASSUME NodesTypes
  PROVE  \A c \in Nodes!Existing : \E i \in 1 .. Len(Order) : i <= made /\ c = Order[i]
<1>1. Len(Order) \in Nat /\ made \in 0 .. Len(Order)
  BY EnginesAssumption, LenProperties DEF NodesTypes
<1>2. \A i \in 1 .. made : i \in 1 .. Len(Order) /\ i <= made
  BY <1>1
<1>3. QED
  BY <1>2 DEF Nodes!Existing

LEMMA SetKeeps ==
  ASSUME NodesInv, NEW s \in Signals, NEW v \in 0 .. Values - 1, Nodes!Set(s, v)
  PROVE  NodesInv'
<1>1. PICK G : G = graph
  OBVIOUS
<1>2. PICK H : H = graph'
  OBVIOUS
<1>3. H = [G EXCEPT !.val[s] = v] /\ work = <<>> /\ work' = G.up[s] /\ made' = made /\ broken' = broken
  BY <1>1, <1>2 DEF Nodes!Set
<1>4. G \in Graphs /\ G.raised = FALSE /\ Mutual(G) /\ NodesTypes
  BY <1>1 DEF NodesInv, NodesTypes
<1>5. s \in NodeSet /\ v \in Int
  BY EnginesAssumption DEF NodeSet, Nodes!AllNodes
<1>6. H = [val |-> [G.val EXCEPT ![s] = v], up |-> G.up, down |-> G.down, raised |-> FALSE, changed |-> G.changed]
  BY <1>3, <1>4 DEF Graphs
<1>7. H \in Graphs /\ H.raised = FALSE /\ Mutual(H)
  BY <1>4, <1>5, <1>6 DEF Graphs, Mutual
<1>8. SameBut(H, G, s)
  BY <1>4, <1>6 DEF Graphs, SameBut
<1>9. work' \in Seq(Nodes!Computeds)
  BY <1>3, <1>4, <1>5 DEF Graphs
<1>10. NodesTypes'
  BY <1>2, <1>3, <1>4, <1>7, <1>9 DEF NodesTypes, Graphs, Mutual, NodeSet, Nodes!AllNodes, Nodes!Computeds
<1>11. ASSUME ~broken', NEW c \in Nodes!Existing PROVE c \in ToSet(work') \/ UpToDate(H, c)
  <2>1. PICK i \in 1 .. Len(Order) : c = Order[i]
    BY <1>4, ExistingAre
  <2>2. c \in NodeSet /\ c # s
    BY <2>1, FormulasReadBack
  <2>3. UpToDate(G, c)
    <3>1. ToSet(work) = {}
      BY <1>3 DEF ToSet
    <3>2. QED
      BY <3>1, <1>1, <1>3, <1>11 DEF NodesInv
  <2>4. CASE s \in ToSet(G.down[c])
    BY <2>2, <2>4, <1>3, <1>4, <1>5 DEF Mutual
  <2>5. CASE s \notin ToSet(G.down[c])
    BY <2>1, <2>2, <2>3, <2>5, <1>8, OthersStay
  <2>6. QED
    BY <2>4, <2>5
<1>12. Nodes!Existing' = Nodes!Existing
  BY <1>3 DEF Nodes!Existing
<1>13. QED
  BY <1>2, <1>10, <1>11, <1>12 DEF NodesInv, UpToDate, Reads, Nodes!Same, Nodes!Compute, Nodes!Chosen, Nodes!None

LEMMA UpdateKeeps ==
  ASSUME NodesInv, Nodes!Update
  PROVE  NodesInv'
<1>1. PICK G : G = graph
  OBVIOUS
<1>2. PICK c : c = Head(work)
  OBVIOUS
<1>3. PICK R : R = Nodes!Recompute(G, c)
  OBVIOUS
<1>4. PICK H : H = graph'
  OBVIOUS
<1>5. /\ work # <<>> /\ H = [R EXCEPT !.raised = FALSE] /\ broken' = (broken \/ R.raised) /\ made' = made
      /\ work' = CASE R.raised -> <<>>
                   [] R.changed -> R.up[c] \o Tail(work)
                   [] OTHER -> Tail(work)
  BY <1>1, <1>2, <1>3, <1>4 DEF Nodes!Update
<1>6. G \in Graphs /\ G.raised = FALSE /\ Mutual(G) /\ NodesTypes
  BY <1>1 DEF NodesInv, NodesTypes
<1>7. /\ c \in ToSet(work) /\ Tail(work) \in Seq(Nodes!Computeds) /\ ToSet(work) = ToSet(Tail(work)) \union {c}
      /\ ToSet(work) \subseteq Nodes!Computeds
  BY <1>2, <1>5, <1>6, EndsOfLists DEF NodesTypes
<1>8. PICK i \in 1 .. Len(Order) : c = Order[i]
  BY <1>7 DEF Nodes!Computeds
<1>9. Recomputed(R, G, c)
  BY <1>3, <1>6, <1>8, RecomputeGives
<1> R \in Graphs /\ Mutual(R) /\ SameBut(R, G, c)
  BY <1>9 DEF Recomputed
<1>0. ~R.raised => UpToDate(R, c) /\ (~R.changed => R.val[c] = G.val[c])
  BY <1>9 DEF Recomputed
<1>10. /\ H \in Graphs /\ Mutual(H) /\ H.raised = FALSE /\ H.val = R.val /\ H.up = R.up /\ H.down = R.down
       /\ \A d : UpToDate(H, d) <=> UpToDate(R, d)
  BY <1>5, <1>9, ClearedIs
<1>11. R.raised \in BOOLEAN /\ R.changed \in BOOLEAN /\ R.up[c] \in Seq(Nodes!Computeds) /\ broken \in BOOLEAN
  BY <1>6, <1>7 DEF Graphs, NodesTypes, NodeSet, Nodes!AllNodes
<1>12. /\ work' \in Seq(Nodes!Computeds)
       /\ ~R.raised => /\ R.changed => ToSet(work') = ToSet(R.up[c]) \union ToSet(Tail(work))
                       /\ ~R.changed => ToSet(work') = ToSet(Tail(work))
  <2>1. CASE R.raised
    <3>1. ~R.changed
      BY <2>1, <1>9 DEF Recomputed
    <3>2. work' = <<>>
      BY <2>1, <3>1, <1>5
    <3>3. <<>> \in Seq(Nodes!Computeds)
      BY EmptySeq
    <3>4. QED
      BY ONLY <2>1, <3>2, <3>3
  <2>2. CASE ~R.raised /\ R.changed
    <3>1. work' = R.up[c] \o Tail(work)
      BY <2>2, <1>5
    <3>2. PICK p : p = R.up[c]
      OBVIOUS
    <3>3. PICK q : q = Tail(work)
      OBVIOUS
    <3>4. p \in Seq(Nodes!Computeds) /\ q \in Seq(Nodes!Computeds)
      BY <3>2, <3>3, <1>7, <1>11
    <3>5. p \o q \in Seq(Nodes!Computeds) /\ ToSet(p \o q) = ToSet(p) \union ToSet(q)
      BY ONLY <3>4, ConcatIs
    <3>6. QED
      BY ONLY <2>2, <3>1, <3>2, <3>3, <3>5
  <2>3. CASE ~R.raised /\ ~R.changed
    <3>1. work' = Tail(work)
      BY <2>3, <1>5
    <3>2. QED
      BY ONLY <2>3, <3>1, <1>7
  <2>4. QED
    BY <2>1, <2>2, <2>3
<1>13. NodesTypes'
  BY <1>4, <1>5, <1>6, <1>10, <1>11, <1>12 DEF NodesTypes, Graphs, Mutual, NodeSet, Nodes!AllNodes, Nodes!Computeds
<1>14. ASSUME ~broken', NEW d \in Nodes!Existing PROVE d \in ToSet(work') \/ UpToDate(H, d)
  <2>1. ~broken /\ ~R.raised
    BY <1>5, <1>11, <1>14
  <2>2. PICK j \in 1 .. Len(Order) : d = Order[j]
    BY <1>6, ExistingAre
  <2>3. d \in NodeSet
    BY <2>2, FormulasReadBack
  <2>4. CASE d = c
    BY <2>1, <2>4, <1>0, <1>10
  <2>5. CASE d # c /\ d \in ToSet(work)
    <3>1. d \in ToSet(Tail(work))
      BY <2>5, <1>7
    <3>2. QED
      BY <3>1, <2>1, <1>11, <1>12
  <2>6. CASE d # c /\ d \notin ToSet(work)
    <3>1. UpToDate(G, d)
      BY <2>1, <2>6, <1>1 DEF NodesInv
    <3>2. CASE c \in ToSet(G.down[d]) /\ R.changed
      <4>1. c \in ToSet(R.down[d])
        BY <2>3, <2>6, <3>2 DEF SameBut
      <4>2. d \in ToSet(R.up[c])
        BY <4>1, <2>3, <1>7 DEF Mutual, NodeSet, Nodes!AllNodes
      <4>3. QED
        BY <4>2, <2>1, <3>2, <1>12
    <3>3. CASE c \notin ToSet(G.down[d]) \/ R.val[c] = G.val[c]
      <4>1. UpToDate(R, d)
        BY <2>2, <2>6, <3>1, <3>3, OthersStay
      <4>2. QED
        BY <4>1, <1>10
    <3>4. QED
      BY <2>1, <3>2, <3>3, <1>0, <1>11
  <2>7. QED
    BY <2>4, <2>5, <2>6
<1>15. Nodes!Existing' = Nodes!Existing
  BY <1>5 DEF Nodes!Existing
<1>16. QED
  BY <1>4, <1>13, <1>14, <1>15 DEF NodesInv, UpToDate, Reads, Nodes!Same, Nodes!Compute, Nodes!Chosen, Nodes!None

LEMMA CreateKeeps ==
  ASSUME NodesInv, Nodes!Create
  PROVE  NodesInv'
<1>1. PICK G : G = graph
  OBVIOUS
<1>2. PICK c : c = Order[made + 1]
  OBVIOUS
<1>3. PICK R : R = Nodes!Recompute(G, c)
  OBVIOUS
<1>4. PICK H : H = graph'
  OBVIOUS
<1>5. /\ work = <<>> /\ ~broken /\ made < Len(Order) /\ made' = made + 1
      /\ H = [R EXCEPT !.raised = FALSE] /\ broken' = (broken \/ R.raised) /\ work' = work
  BY <1>1, <1>2, <1>3, <1>4 DEF Nodes!Create
<1>6. G \in Graphs /\ G.raised = FALSE /\ Mutual(G) /\ NodesTypes
  BY <1>1 DEF NodesInv, NodesTypes
<1>7. Len(Order) \in Nat /\ made \in 0 .. Len(Order)
  BY <1>6, EnginesAssumption, LenProperties DEF NodesTypes
<1>8. PICK i \in 1 .. Len(Order) : i = made + 1 /\ c = Order[i]
  BY <1>2, <1>5, <1>7
<1>9. Recomputed(R, G, c)
  BY <1>3, <1>6, <1>8, RecomputeGives
<1> R \in Graphs /\ Mutual(R) /\ SameBut(R, G, c)
  BY <1>9 DEF Recomputed
<1>0. ~R.raised => UpToDate(R, c) /\ (~R.changed => R.val[c] = G.val[c])
  BY <1>9 DEF Recomputed
<1>10. /\ H \in Graphs /\ Mutual(H) /\ H.raised = FALSE /\ H.val = R.val /\ H.up = R.up /\ H.down = R.down
       /\ \A d : UpToDate(H, d) <=> UpToDate(R, d)
  BY <1>5, <1>9, ClearedIs
<1>11. R.raised \in BOOLEAN /\ broken \in BOOLEAN /\ work \in Seq(Nodes!Computeds) /\ ToSet(work) = {}
  BY <1>5, <1>6 DEF Graphs, NodesTypes, ToSet
<1>12. made' \in 0 .. Len(Order)
  BY <1>5, <1>7
<1>13. NodesTypes'
  BY <1>4, <1>5, <1>6, <1>10, <1>11, <1>12 DEF NodesTypes, Graphs, Mutual, NodeSet, Nodes!AllNodes, Nodes!Computeds
<1>14. ASSUME ~broken', NEW d \in Nodes!Existing' PROVE UpToDate(H, d)
  <2>1. ~R.raised
    BY <1>5, <1>11, <1>14
  <2>2. CASE d = c
    BY <2>1, <2>2, <1>0, <1>10
  <2>3. CASE d # c
    <3>1. d \in Nodes!Existing
      <4>1. PICK j \in 1 .. made + 1 : d = Order[j]
        BY <1>5, <1>14 DEF Nodes!Existing
      <4>2. j \in 1 .. made
        BY <4>1, <2>3, <1>2, <1>7
      <4>3. QED
        BY <4>1, <4>2 DEF Nodes!Existing
    <3>2. PICK j \in 1 .. Len(Order) : j <= made /\ d = Order[j]
      BY <3>1, <1>6, ExistingAre
    <3>3. UpToDate(G, d)
      BY <3>1, <1>1, <1>5, <1>11 DEF NodesInv
    <3>4. c \notin ToSet(G.down[d])
      <4>1. i >= j
        BY <3>2, <1>7, <1>8
      <4>2. Formula[d].test # c /\ Nodes!Chosen(G.val, d) # c
        BY <4>1, <3>2, <1>8, FormulasReadBack
      <4>3. QED
        BY <4>2, <3>3 DEF UpToDate, Reads
    <3>5. UpToDate(R, d)
      BY <2>3, <3>2, <3>3, <3>4, OthersStay
    <3>6. QED
      BY <3>5, <1>10
  <2>4. QED
    BY <2>2, <2>3
<1>15. QED
  BY <1>4, <1>13, <1>14 DEF NodesInv, UpToDate, Reads, Nodes!Same, Nodes!Compute, Nodes!Chosen, Nodes!None

LEMMA NodesKeep ==
  ASSUME NodesInv, Nodes!Next
  PROVE  NodesInv'
BY SetKeeps, UpdateKeeps, CreateKeeps DEF Nodes!Next

LEMMA NodesStart ==
  ASSUME Nodes!Init
  PROVE  NodesInv
<1>1. graph = [val |-> [n \in NodeSet |-> IF n \in Signals THEN 0 ELSE Nodes!None],
               up |-> [n \in NodeSet |-> <<>>], down |-> [n \in NodeSet |-> <<>>],
               raised |-> FALSE, changed |-> FALSE]
      /\ work = <<>> /\ made = 0 /\ broken = FALSE
  BY DEF Nodes!Init, NodeSet
<1>2. <<>> \in Seq(NodeSet) /\ <<>> \in Seq(Nodes!Computeds) /\ ToSet(<<>>) = {} /\ Len(Order) \in Nat
  BY EnginesAssumption, EmptySeq, LenProperties DEF ToSet
<1>3. graph \in Graphs /\ graph.raised = FALSE /\ Mutual(graph)
  BY <1>1, <1>2 DEF Graphs, Mutual, Nodes!None
<1>4. Nodes!Existing = {}
  BY <1>1 DEF Nodes!Existing
<1>5. NodesTypes
  <2>1. work \in Seq(Nodes!Computeds)
    BY <1>1, <1>2
  <2>2. made \in 0 .. Len(Order)
    <3>1. made = 0 /\ Len(Order) \in Nat
      BY <1>1, <1>2
    <3>2. QED
      BY ONLY <3>1
  <2>3. broken \in BOOLEAN
    BY <1>1
  <2>4. QED
    BY <1>3, <2>1, <2>2, <2>3 DEF NodesTypes
<1>6. QED
  BY <1>4, <1>5 DEF NodesInv

LEMMA NodesStay ==
  ASSUME NodesInv, UNCHANGED nodesVars
  PROVE  NodesInv'
<1>1. graph' = graph /\ work' = work /\ made' = made /\ broken' = broken
  BY DEF nodesVars
<1>2. Nodes!Existing' = Nodes!Existing
  BY <1>1 DEF Nodes!Existing
<1>3. NodesTypes'
  BY <1>1 DEF NodesInv, NodesTypes, Graphs, Mutual, NodeSet, Nodes!AllNodes, Nodes!Computeds
<1>4. QED
  BY <1>1, <1>2, <1>3 DEF NodesInv, UpToDate, Reads, Nodes!Same, Nodes!Compute, Nodes!Chosen, Nodes!None

LEMMA NodesShow ==
  ASSUME NodesInv
  PROVE  Nodes!Settled /\ Nodes!EdgesAgree
<1>1. ASSUME ~broken, work = <<>>, NEW c \in Nodes!Existing PROVE UpToDate(graph, c)
  <2>1. ToSet(work) = {}
    BY <1>1 DEF ToSet
  <2>2. QED
    BY <1>1, <2>1 DEF NodesInv
<1>2. Nodes!Settled
  BY <1>1 DEF Nodes!Settled, UpToDate
<1>3. \A n, c \in NodeSet : Nodes!Contains(graph.up[n], c) <=> Nodes!Contains(graph.down[c], n)
  <2>1. SUFFICES ASSUME NEW n \in NodeSet, NEW c \in NodeSet
                 PROVE  Nodes!Contains(graph.up[n], c) <=> Nodes!Contains(graph.down[c], n)
    OBVIOUS
  <2>2. graph.up[n] \in Seq(Nodes!Computeds) /\ graph.down[c] \in Seq(NodeSet)
    BY DEF NodesInv, NodesTypes, Graphs
  <2>3. c \in ToSet(graph.up[n]) <=> n \in ToSet(graph.down[c])
    BY DEF NodesInv, NodesTypes, Mutual
  <2>4. QED
    BY <2>2, <2>3, NodeLists
<1>4. ASSUME ~broken, work = <<>>, NEW c \in Nodes!Existing
      PROVE  Nodes!ToSet(graph.down[c]) = {Formula[c].test, Nodes!Chosen(graph.val, c)}
  BY <1>1, <1>4, NodeLists DEF UpToDate, Reads
<1>5. QED
  BY <1>2, <1>3, <1>4 DEF Nodes!EdgesAgree, NodeSet

\* When a set() returns, every node that exists agrees with its formula over the
\* current values and is subscribed to exactly what that reads, whatever order and
\* repetitions the updates took; the ends of an edge agree at all times; and a plugin
\* is loaded only while all it depends on is, whatever order load_all chose and whichever
\* init_func raises each time, unless one below the plugin raised after it had succeeded
\* (Set, Update, Create, LoadAll, Register, Unregister).
THEOREM DependenciesStay == Spec => []DependenciesHold
<1> DEFINE Inv == NodesInv /\ LoaderInv
<1>1. Init => Inv
  BY NodesStart, LoaderStarts DEF Init
<1>2. Inv /\ [Next]_vars => Inv'
  BY NodesKeep, NodesStay, LoaderKeeps, LoaderStays DEF Next, vars
<1>3. Inv => DependenciesHold
  <2>1. SUFFICES ASSUME NodesInv, LoaderInv PROVE DependenciesHold
    OBVIOUS
  <2>2. Loader!LoadedOnLoaded
    <3>1. \A p \in PluginNames : state[p] = "LOADED" =>
            \A d \in deps[p] : state[d] = "LOADED" \/ Loader!Below(deps, p) \cap relapsed # {}
      BY <2>1 DEF LoaderInv, LoadedRight
    <3>2. QED
      BY <3>1 DEF Loader!LoadedOnLoaded, Loader!Registered
  <2>3. QED
    BY <2>1, <2>2, NodesShow DEF DependenciesHold
<1>4. QED
  BY <1>1, <1>2, <1>3, PTL DEF Spec
-----------------------------------------------------------------------------
(* The hash ring *)

Rising(list) == /\ list \in Seq(HashRing!Points)
                /\ \A i, j \in 1 .. Len(list) : i < j => list[i] < list[j]

\* The list is the set, in order and without repetitions.
Sorts(list, set) == Rising(list) /\ \A h \in HashRing!Points : h \in set <=> \E i \in 1 .. Len(list) : list[i] = h

\* Of a set of points: the one of the key h.
Home(set, h, p) == /\ p \in set
                   /\ \/ p > h /\ \A q \in set : q > h => p <= q
                      \/ \A q \in set : q <= h /\ q <= p

LEMMA PointsAreNumbers == HashRing!Points \in SUBSET Nat /\ \A h \in HashRing!Points : h \in Int
BY EnginesAssumption DEF HashRing!Points

LEMMA BisectLeft ==
  ASSUME NEW list \in Seq(HashRing!Points), NEW h \in HashRing!Points
  PROVE  LET l == HashRing!Left(list, h) IN
         /\ l \in 1 .. Len(list) + 1 /\ (l <= Len(list) => list[l] >= h)
         /\ \A i \in 1 .. Len(list) : i < l => list[i] < h
<1> DEFINE S == {i \in 1 .. Len(list) : list[i] >= h} \union {Len(list) + 1}
<1>1. Len(list) \in Nat /\ \A i \in 1 .. Len(list) : list[i] \in Int
  BY PointsAreNumbers, LenProperties, ElementOfSeq
<1>2. HashRing!Left(list, h) = Min(S)
  BY DEF HashRing!Left, HashRing!Min, Min
<1>3. S \in SUBSET Nat /\ S # {}
  BY <1>1
<1>4. Min(S) \in S /\ \A x \in S : Min(S) <= x
  <2> HIDE DEF S
  <2>1. QED
    BY <1>3, MinProperty
<1>5. \A i \in 1 .. Len(list) : i < Min(S) => list[i] < h
  <2>1. SUFFICES ASSUME NEW i \in 1 .. Len(list), i < Min(S), ~(list[i] < h) PROVE FALSE
    OBVIOUS
  <2>2. i \in S
    BY <2>1, <1>1, PointsAreNumbers
  <2>3. Min(S) <= i /\ Min(S) \in Nat
    BY <2>2, <1>3, <1>4
  <2> HIDE DEF S
  <2>4. QED
    BY <2>1, <2>3
<1>6. Min(S) \in 1 .. Len(list) + 1 /\ (Min(S) <= Len(list) => list[Min(S)] >= h)
  BY <1>1, <1>4
<1>7. QED
  BY <1>2, <1>5, <1>6

LEMMA BisectRight ==
  ASSUME NEW list \in Seq(HashRing!Points), NEW h \in HashRing!Points
  PROVE  LET r == HashRing!Right(list, h) IN
         /\ r \in 1 .. Len(list) + 1 /\ (r <= Len(list) => list[r] > h)
         /\ \A i \in 1 .. Len(list) : i < r => list[i] <= h
<1> DEFINE S == {i \in 1 .. Len(list) : list[i] > h} \union {Len(list) + 1}
<1>1. Len(list) \in Nat /\ \A i \in 1 .. Len(list) : list[i] \in Int
  BY PointsAreNumbers, LenProperties, ElementOfSeq
<1>2. HashRing!Right(list, h) = Min(S)
  BY DEF HashRing!Right, HashRing!Min, Min
<1>3. S \in SUBSET Nat /\ S # {}
  BY <1>1
<1>4. Min(S) \in S /\ \A x \in S : Min(S) <= x
  <2> HIDE DEF S
  <2>1. QED
    BY <1>3, MinProperty
<1>5. \A i \in 1 .. Len(list) : i < Min(S) => list[i] <= h
  <2>1. SUFFICES ASSUME NEW i \in 1 .. Len(list), i < Min(S), ~(list[i] <= h) PROVE FALSE
    OBVIOUS
  <2>2. i \in S
    BY <2>1, <1>1, PointsAreNumbers
  <2>3. Min(S) <= i /\ Min(S) \in Nat
    BY <2>2, <1>3, <1>4
  <2> HIDE DEF S
  <2>4. QED
    BY <2>1, <2>3
<1>6. Min(S) \in 1 .. Len(list) + 1 /\ (Min(S) <= Len(list) => list[Min(S)] > h)
  BY <1>1, <1>4
<1>7. QED
  BY <1>2, <1>5, <1>6

\* What is inserted into a list, or removed from it, moves what comes after.
LEMMA InsertedIs ==
  ASSUME NEW list \in Seq(HashRing!Points), NEW r \in 1 .. Len(list) + 1, NEW h \in HashRing!Points
  PROVE  LET new == HashRing!InsertAt(list, r, h)
             n == Len(list)
         IN  /\ new \in Seq(HashRing!Points) /\ Len(new) = n + 1
             /\ \A i \in 1 .. n + 1 : new[i] = IF i < r THEN list[i] ELSE IF i = r THEN h ELSE list[i - 1]
<1> DEFINE n == Len(list)
<1>2. n \in Nat /\ r \in 1 .. n + 1 /\ r \in Int
  BY LenProperties
<1>3. \A i \in 1 .. n : list[i] \in HashRing!Points
  BY ElementOfSeq
<1> DEFINE before == SubSeq(list, 1, r - 1)
           after == SubSeq(list, r, n)
<1>7. /\ before \in Seq(HashRing!Points) /\ Len(before) = r - 1
      /\ \A i \in 1 .. r - 1 : before[i] = list[i]
  <2>1. 1 \in Int /\ r - 1 \in Int /\ \A i \in 1 .. r - 1 : list[i] \in HashRing!Points
    BY <1>2, <1>3
  <2>2. /\ before \in Seq(HashRing!Points) /\ Len(before) = IF 1 <= r - 1 THEN r - 1 - 1 + 1 ELSE 0
        /\ \A i \in 1 .. r - 1 - 1 + 1 : before[i] = list[1 + i - 1]
    BY <2>1, SubSeqProperties
  <2> HIDE DEF before
  <2>3. QED
    BY <2>2, <1>2
<1>8. /\ after \in Seq(HashRing!Points) /\ Len(after) = n - r + 1
      /\ \A i \in 1 .. n - r + 1 : after[i] = list[r + i - 1]
  <2>1. r \in Int /\ n \in Int /\ \A i \in r .. n : list[i] \in HashRing!Points
    BY <1>2, <1>3
  <2>2. /\ after \in Seq(HashRing!Points) /\ Len(after) = IF r <= n THEN n - r + 1 ELSE 0
        /\ \A i \in 1 .. n - r + 1 : after[i] = list[r + i - 1]
    BY <2>1, SubSeqProperties
  <2> HIDE DEF after
  <2>3. QED
    BY <2>2, <1>2
<1> DEFINE one == <<h>>
           left == before \o one
<1>9. PICK new : new = HashRing!InsertAt(list, r, h)
  OBVIOUS
<1>10. new = left \o after
  BY <1>9 DEF HashRing!InsertAt
<1>11. one \in Seq(HashRing!Points) /\ Len(one) = 1 /\ one[1] = h
  OBVIOUS
<1> HIDE DEF n, before, after, one
<1>12. /\ left \in Seq(HashRing!Points) /\ Len(left) = r - 1 + 1
       /\ \A i \in 1 .. r : left[i] = IF i < r THEN list[i] ELSE h
  <2>1. /\ left \in Seq(HashRing!Points) /\ Len(left) = Len(before) + Len(one)
        /\ \A i \in 1 .. Len(before) + Len(one) : left[i] = IF i <= Len(before) THEN before[i] ELSE one[i - Len(before)]
    BY <1>7, <1>11, ConcatProperties
  <2> HIDE DEF left
  <2>2. ASSUME NEW i \in 1 .. r PROVE left[i] = IF i < r THEN list[i] ELSE h
    <3>1. i \in 1 .. r - 1 + 1 /\ left[i] = IF i <= r - 1 THEN before[i] ELSE one[i - (r - 1)]
      BY <2>1, <1>2, <1>7, <1>11
    <3>2. CASE i < r
      <4>1. i <= r - 1 /\ i \in 1 .. r - 1
        BY <3>2, <1>2
      <4>2. QED
        BY <4>1, <3>1, <3>2, <1>7
    <3>3. CASE ~(i < r)
      <4>1. ~(i <= r - 1) /\ i - (r - 1) = 1
        BY <3>3, <1>2
      <4>2. QED
        BY <4>1, <3>1, <3>3, <1>11
    <3>4. QED
      BY <3>2, <3>3
  <2>3. QED
    BY <2>1, <2>2, <1>7, <1>11
<1> HIDE DEF left
<1>13. /\ new \in Seq(HashRing!Points) /\ Len(new) = n + 1
       /\ \A i \in 1 .. n + 1 : new[i] = IF i < r THEN list[i] ELSE IF i = r THEN h ELSE list[i - 1]
  <2>1. /\ left \o after \in Seq(HashRing!Points) /\ Len(left \o after) = Len(left) + Len(after)
        /\ \A i \in 1 .. Len(left) + Len(after) :
             (left \o after)[i] = IF i <= Len(left) THEN left[i] ELSE after[i - Len(left)]
    BY <1>8, <1>12, ConcatProperties
  <2>2. Len(left) = r /\ Len(left) + Len(after) = n + 1
    BY <1>8, <1>12, <1>2
  <2>3. ASSUME NEW i \in 1 .. n + 1
        PROVE  new[i] = IF i < r THEN list[i] ELSE IF i = r THEN h ELSE list[i - 1]
    <3>1. new[i] = IF i <= r THEN left[i] ELSE after[i - r]
      BY <2>1, <2>2, <1>10
    <3>2. CASE i <= r
      <4>1. i \in 1 .. r /\ (i < r \/ i = r)
        BY <3>2, <1>2
      <4>2. QED
        BY <4>1, <3>1, <3>2, <1>12, <1>2
    <3>3. CASE ~(i <= r)
      <4>1. i - r \in 1 .. n - r + 1 /\ r + (i - r) - 1 = i - 1 /\ ~(i < r) /\ i # r
        BY <3>3, <1>2
      <4>2. QED
        BY <4>1, <3>1, <3>3, <1>8
    <3>4. QED
      BY <3>2, <3>3
  <2>4. QED
    BY <2>1, <2>2, <2>3, <1>10
<1>14. QED
  BY <1>9, <1>13 DEF n

LEMMA RemovedIs ==
  ASSUME NEW list \in Seq(HashRing!Points), NEW l \in 1 .. Len(list)
  PROVE  LET new == HashRing!RemoveAt(list, l)
             n == Len(list)
         IN  /\ new \in Seq(HashRing!Points) /\ Len(new) = n - 1
             /\ \A i \in 1 .. n - 1 : new[i] = IF i < l THEN list[i] ELSE list[i + 1]
<1> DEFINE n == Len(list)
<1>2. n \in Nat /\ l \in 1 .. n /\ l \in Int
  BY LenProperties
<1>3. \A i \in 1 .. n : list[i] \in HashRing!Points
  BY ElementOfSeq
<1> DEFINE before == SubSeq(list, 1, l - 1)
           after == SubSeq(list, l + 1, n)
<1>7. /\ before \in Seq(HashRing!Points) /\ Len(before) = l - 1
      /\ \A i \in 1 .. l - 1 : before[i] = list[i]
  <2>1. 1 \in Int /\ l - 1 \in Int /\ \A i \in 1 .. l - 1 : list[i] \in HashRing!Points
    BY <1>2, <1>3
  <2>2. /\ before \in Seq(HashRing!Points) /\ Len(before) = IF 1 <= l - 1 THEN l - 1 - 1 + 1 ELSE 0
        /\ \A i \in 1 .. l - 1 - 1 + 1 : before[i] = list[1 + i - 1]
    BY <2>1, SubSeqProperties
  <2> HIDE DEF before
  <2>3. QED
    BY <2>2, <1>2
<1>8. /\ after \in Seq(HashRing!Points) /\ Len(after) = n - l
      /\ \A i \in 1 .. n - l : after[i] = list[l + i]
  <2>1. l + 1 \in Int /\ n \in Int /\ \A i \in l + 1 .. n : list[i] \in HashRing!Points
    BY <1>2, <1>3
  <2>2. /\ after \in Seq(HashRing!Points) /\ Len(after) = IF l + 1 <= n THEN n - (l + 1) + 1 ELSE 0
        /\ \A i \in 1 .. n - (l + 1) + 1 : after[i] = list[l + 1 + i - 1]
    BY <2>1, SubSeqProperties
  <2> HIDE DEF after
  <2>3. n - (l + 1) + 1 = n - l /\ \A i \in 1 .. n - l : l + 1 + i - 1 = l + i
    BY <1>2
  <2>4. Len(after) = n - l
    BY <2>2, <1>2
  <2>5. ASSUME NEW i \in 1 .. n - l PROVE after[i] = list[l + i]
    BY <2>2, <2>3
  <2>6. QED
    BY <2>2, <2>4, <2>5
<1>9. PICK new : new = HashRing!RemoveAt(list, l)
  OBVIOUS
<1>10. new = before \o after
  BY <1>9 DEF HashRing!RemoveAt
<1> HIDE DEF n, before, after
<1>11. /\ new \in Seq(HashRing!Points) /\ Len(new) = n - 1
       /\ \A i \in 1 .. n - 1 : new[i] = IF i < l THEN list[i] ELSE list[i + 1]
  <2>1. /\ before \o after \in Seq(HashRing!Points) /\ Len(before \o after) = Len(before) + Len(after)
        /\ \A i \in 1 .. Len(before) + Len(after) :
             (before \o after)[i] = IF i <= Len(before) THEN before[i] ELSE after[i - Len(before)]
    BY <1>7, <1>8, ConcatProperties
  <2>2. Len(before) + Len(after) = n - 1
    BY <1>7, <1>8, <1>2
  <2>3. ASSUME NEW i \in 1 .. n - 1 PROVE new[i] = IF i < l THEN list[i] ELSE list[i + 1]
    <3>1. new[i] = IF i <= l - 1 THEN before[i] ELSE after[i - (l - 1)]
      BY <2>1, <2>2, <1>10, <1>7
    <3>2. CASE i < l
      <4>1. i \in 1 .. l - 1 /\ i <= l - 1
        BY <3>2, <1>2
      <4>2. QED
        BY <4>1, <3>1, <3>2, <1>7
    <3>3. CASE ~(i < l)
      <4>1. i - (l - 1) \in 1 .. n - l /\ l + (i - (l - 1)) = i + 1 /\ ~(i <= l - 1)
        BY <3>3, <1>2
      <4>2. QED
        BY <4>1, <3>1, <3>3, <1>8
    <3>4. QED
      BY <3>2, <3>3
  <2>4. QED
    BY <2>1, <2>2, <2>3, <1>10
<1>12. QED
  BY <1>9, <1>11 DEF n

\* insort of a point that was not there, and the pop of one that was.
LEMMA InsortAdds ==
  ASSUME NEW list, NEW set, Sorts(list, set), NEW h \in HashRing!Points, h \notin set
  PROVE  Sorts(HashRing!Insort(list, h), set \union {h})
<1> DEFINE n == Len(list)
<1>1. PICK r : r = HashRing!Right(list, h)
  OBVIOUS
<1>2. list \in Seq(HashRing!Points) /\ n \in Nat /\ h \in Int
  BY LenProperties, PointsAreNumbers DEF Sorts, Rising
<1>3. \A i \in 1 .. n : list[i] \in HashRing!Points /\ list[i] \in Int
  BY <1>2, ElementOfSeq, PointsAreNumbers
<1>4. /\ r \in 1 .. n + 1 /\ (r <= n => list[r] > h)
      /\ \A i \in 1 .. n : i < r => list[i] <= h
  BY <1>1, <1>2, BisectRight
<1>5. \A i, j \in 1 .. n : i < j => list[i] < list[j]
  BY DEF Sorts, Rising
<1>6. \A i \in 1 .. n : (i < r => list[i] < h) /\ (i >= r => list[i] > h)
  <2>1. \A i \in 1 .. n : list[i] # h
    BY <1>3 DEF Sorts
  <2>2. SUFFICES ASSUME NEW i \in 1 .. n PROVE (i < r => list[i] < h) /\ (i >= r => list[i] > h)
    OBVIOUS
  <2>3. i < r => list[i] < h
    BY <2>1, <1>2, <1>3, <1>4
  <2>4. CASE i >= r
    <3>1. r \in 1 .. n /\ list[r] > h
      BY <2>4, <1>4, <1>2
    <3>2. i = r \/ r < i
      BY <2>4, <1>4, <1>2
    <3>3. r < i => list[r] < list[i]
      BY <3>1, <1>5
    <3>4. QED
      BY <3>1, <3>2, <3>3, <1>2, <1>3
  <2>5. QED
    BY <2>3, <2>4
<1>7. PICK new : new = HashRing!Insort(list, h)
  OBVIOUS
<1>13. /\ new \in Seq(HashRing!Points) /\ Len(new) = n + 1
       /\ \A i \in 1 .. n + 1 : new[i] = IF i < r THEN list[i] ELSE IF i = r THEN h ELSE list[i - 1]
  BY <1>1, <1>2, <1>4, <1>7, InsertedIs DEF HashRing!Insort
<1> HIDE DEF n
<1>14. ASSUME NEW i \in 1 .. n + 1, NEW j \in 1 .. n + 1, i < j PROVE new[i] < new[j]
  <2>1. i < r => i \in 1 .. n /\ new[i] = list[i] /\ list[i] < h
    BY <1>2, <1>4, <1>6, <1>13
  <2>2. j > r => j - 1 \in 1 .. n /\ new[j] = list[j - 1] /\ list[j - 1] > h
    BY <1>2, <1>4, <1>6, <1>13
  <2>3. CASE i < r /\ j < r
    <3>1. j \in 1 .. n /\ new[j] = list[j]
      BY <2>3, <1>2, <1>4, <1>13
    <3>2. QED
      BY <3>1, <2>1, <2>3, <1>5, <1>14
  <2>4. CASE i < r /\ j = r
    BY <2>1, <2>4, <1>13, <1>2, <1>4
  <2>5. CASE i < r /\ j > r
    <3>1. list[i] < h /\ list[j - 1] > h /\ list[i] \in Int /\ list[j - 1] \in Int
      BY <2>1, <2>2, <2>5, <1>3
    <3>2. QED
      BY <3>1, <2>1, <2>2, <2>5, <1>2
  <2>6. CASE i = r /\ j > r
    BY <2>2, <2>6, <1>13, <1>2, <1>3, <1>4
  <2>7. CASE i > r /\ j > r
    <3>1. new[i] = list[i - 1] /\ i - 1 \in 1 .. n /\ i - 1 < j - 1
      BY <2>7, <1>2, <1>4, <1>13, <1>14
    <3>2. QED
      BY <3>1, <2>2, <2>7, <1>5
  <2>8. QED
    BY <2>3, <2>4, <2>5, <2>6, <2>7, <1>2, <1>4, <1>14
<1>15. \A q \in HashRing!Points : q \in set \union {h} <=> \E i \in 1 .. n + 1 : new[i] = q
  <2>1. SUFFICES ASSUME NEW q \in HashRing!Points PROVE q \in set \union {h} <=> \E i \in 1 .. n + 1 : new[i] = q
    OBVIOUS
  <2>2. q \in set <=> \E i \in 1 .. n : list[i] = q
    BY DEF Sorts, n
  <2>3. r \in 1 .. n + 1 /\ new[r] = h
    BY <1>2, <1>4, <1>13
  <2>4. ASSUME NEW i \in 1 .. n PROVE \E k \in 1 .. n + 1 : new[k] = list[i]
    <3>1. CASE i < r
      <4>1. i \in 1 .. n + 1 /\ new[i] = list[i]
        BY <3>1, <1>2, <1>13
      <4>2. QED
        BY <4>1
    <3>2. CASE ~(i < r)
      <4>1. i + 1 \in 1 .. n + 1 /\ ~(i + 1 < r) /\ i + 1 # r /\ i + 1 - 1 = i
        BY <3>2, <1>2, <1>4
      <4>2. new[i + 1] = list[i]
        BY <4>1, <1>13
      <4>3. QED
        BY <4>1, <4>2
    <3>3. QED
      BY <3>1, <3>2
  <2>5. ASSUME NEW k \in 1 .. n + 1 PROVE new[k] = h \/ \E i \in 1 .. n : list[i] = new[k]
    <3>1. CASE k < r
      <4>1. k \in 1 .. n /\ new[k] = list[k]
        BY <3>1, <1>2, <1>4, <1>13
      <4>2. QED
        BY <4>1
    <3>2. CASE k > r
      <4>1. k - 1 \in 1 .. n /\ new[k] = list[k - 1]
        BY <3>2, <1>2, <1>4, <1>13
      <4>2. QED
        BY <4>1
    <3>3. QED
      BY <3>1, <3>2, <2>3, <1>2, <1>4
  <2>6. QED
    BY <2>2, <2>3, <2>4, <2>5
<1>16. QED
  BY <1>7, <1>13, <1>14, <1>15 DEF Sorts, Rising

LEMMA PopTakes ==
  ASSUME NEW list, NEW set, Sorts(list, set), NEW h \in HashRing!Points, h \in set
  PROVE  Sorts(HashRing!PopOne(list, h), set \ {h})
<1> DEFINE n == Len(list)
<1>1. PICK l : l = HashRing!Left(list, h)
  OBVIOUS
<1>2. list \in Seq(HashRing!Points) /\ n \in Nat /\ h \in Int
  BY LenProperties, PointsAreNumbers DEF Sorts, Rising
<1>3. \A i \in 1 .. n : list[i] \in HashRing!Points /\ list[i] \in Int
  BY <1>2, ElementOfSeq, PointsAreNumbers
<1>4. /\ l \in 1 .. n + 1 /\ (l <= n => list[l] >= h)
      /\ \A i \in 1 .. n : i < l => list[i] < h
  BY <1>1, <1>2, BisectLeft
<1>5. \A i, j \in 1 .. n : i < j => list[i] < list[j]
  BY DEF Sorts, Rising
<1>6. l \in 1 .. n /\ list[l] = h
  <2>1. PICK k \in 1 .. n : list[k] = h
    BY DEF Sorts
  <2>2. ~(k < l)
    BY <2>1, <1>2, <1>4
  <2>3. l \in 1 .. n /\ list[l] >= h /\ (l = k \/ l < k)
    BY <2>1, <2>2, <1>2, <1>4
  <2>4. ~(l < k)
    BY <2>1, <2>3, <1>2, <1>3, <1>5
  <2>5. QED
    BY <2>1, <2>3, <2>4
<1>7. PICK new : new = HashRing!PopOne(list, h)
  OBVIOUS
<1>11. /\ new \in Seq(HashRing!Points) /\ Len(new) = n - 1
       /\ \A i \in 1 .. n - 1 : new[i] = IF i < l THEN list[i] ELSE list[i + 1]
  <2>1. l <= Len(list)
    BY <1>2, <1>6
  <2>2. new = HashRing!RemoveAt(list, l)
    BY <2>1, <1>1, <1>6, <1>7 DEF HashRing!PopOne
  <2>3. QED
    BY <2>2, <1>2, <1>6, RemovedIs
<1> HIDE DEF n
<1>12. ASSUME NEW i \in 1 .. n - 1, NEW j \in 1 .. n - 1, i < j PROVE new[i] < new[j]
  <2>1. /\ i \in 1 .. n /\ i + 1 \in 1 .. n /\ j \in 1 .. n /\ j + 1 \in 1 .. n
        /\ i < j + 1 /\ i + 1 < j + 1
    BY <1>2, <1>12
  <2>2. CASE i < l /\ j < l
    BY <2>1, <2>2, <1>5, <1>11, <1>12
  <2>3. CASE i < l /\ ~(j < l)
    BY <2>1, <2>3, <1>5, <1>11
  <2>4. CASE ~(i < l)
    <3>1. ~(j < l)
      BY <2>4, <1>2, <1>4, <1>12
    <3>2. QED
      BY <3>1, <2>1, <2>4, <1>5, <1>11
  <2>5. QED
    BY <2>2, <2>3, <2>4
<1>13. \A q \in HashRing!Points : q \in set \ {h} <=> \E i \in 1 .. n - 1 : new[i] = q
  <2>1. SUFFICES ASSUME NEW q \in HashRing!Points PROVE q \in set \ {h} <=> \E i \in 1 .. n - 1 : new[i] = q
    OBVIOUS
  <2>2. q \in set <=> \E i \in 1 .. n : list[i] = q
    BY DEF Sorts, n
  <2>3. ASSUME NEW i \in 1 .. n, i # l PROVE \E k \in 1 .. n - 1 : new[k] = list[i]
    <3>1. CASE i < l
      <4>1. i \in 1 .. n - 1
        BY <3>1, <1>2, <1>6
      <4>2. QED
        BY <3>1, <4>1, <1>11
    <3>2. CASE ~(i < l)
      <4>1. i - 1 \in 1 .. n - 1 /\ ~(i - 1 < l) /\ i - 1 + 1 = i
        BY <3>2, <2>3, <1>2, <1>6
      <4>2. new[i - 1] = list[i]
        BY <4>1, <1>11
      <4>3. QED
        BY <4>1, <4>2
    <3>3. QED
      BY <3>1, <3>2
  <2>4. ASSUME NEW k \in 1 .. n - 1 PROVE \E i \in 1 .. n : i # l /\ list[i] = new[k]
    <3>1. CASE k < l
      <4>1. k \in 1 .. n /\ k # l /\ new[k] = list[k]
        BY <3>1, <1>2, <1>6, <1>11
      <4>2. QED
        BY <4>1
    <3>2. CASE ~(k < l)
      <4>1. k + 1 \in 1 .. n /\ k + 1 # l /\ new[k] = list[k + 1]
        BY <3>2, <1>2, <1>6, <1>11
      <4>2. QED
        BY <4>1
    <3>3. QED
      BY <3>1, <3>2
  <2>5. \A i \in 1 .. n : i # l => list[i] # h
    <3>1. SUFFICES ASSUME NEW i \in 1 .. n, i # l PROVE list[i] # h
      OBVIOUS
    <3>2. i < l \/ l < i
      BY <3>1, <1>2, <1>6
    <3>3. list[i] < list[l] \/ list[l] < list[i]
      BY <3>2, <1>5, <1>6
    <3>4. QED
      BY <3>3, <1>3, <1>6
  <2>6. QED
    BY <2>2, <2>3, <2>4, <2>5, <1>6
<1>14. QED
  BY <1>7, <1>11, <1>12, <1>13 DEF Sorts, Rising

\* Whatever the list, insort and the pop return a list of points.
LEMMA ListsStay ==
  ASSUME NEW list \in Seq(HashRing!Points), NEW h \in HashRing!Points
  PROVE  HashRing!Insort(list, h) \in Seq(HashRing!Points) /\ HashRing!PopOne(list, h) \in Seq(HashRing!Points)
<1>1. Len(list) \in Nat
  BY LenProperties
<1>2. HashRing!Insort(list, h) \in Seq(HashRing!Points)
  BY BisectRight, InsertedIs DEF HashRing!Insort
<1>3. PICK l : l = HashRing!Left(list, h)
  OBVIOUS
<1>4. CASE l <= Len(list) /\ list[l] = h
  <2>1. l \in 1 .. Len(list)
    BY <1>1, <1>3, <1>4, BisectLeft
  <2>2. QED
    BY <2>1, <1>2, <1>3, <1>4, RemovedIs DEF HashRing!PopOne
<1>5. CASE ~(l <= Len(list) /\ list[l] = h)
  BY <1>2, <1>3, <1>5 DEF HashRing!PopOne
<1>6. QED
  BY <1>4, <1>5

LEMMA HomeIsOne ==
  ASSUME NEW set \in SUBSET HashRing!Points, NEW h \in HashRing!Points, NEW p, NEW q, Home(set, h, p), Home(set, h, q)
  PROVE  p = q
<1>1. p \in Int /\ q \in Int /\ h \in Int /\ p \in set /\ q \in set
  BY PointsAreNumbers DEF Home
<1>2. QED
  BY <1>1 DEF Home

\* The home of a key stays its home while points other than it go.
LEMMA HomeRemains ==
  ASSUME NEW set, NEW fewer \in SUBSET set, NEW h, NEW p, Home(set, h, p), p \in fewer
  PROVE  Home(fewer, h, p)
BY DEF Home

\* GetNode, of any list and any map.
Answer(list, map, h) ==
  IF list = <<>> THEN "None"
  ELSE LET p == list[HashRing!Min({HashRing!Right(list, h), Len(list)})]
       IN  IF p \in DOMAIN map THEN map[p] ELSE HashRing!Crash

LEMMA GetNodeAnswers ==
  \A h \in HashRing!Points : /\ HashRing!GetNode(h) = Answer(sorted, ring, h)
                             /\ HashRing!GetNode(h)' = Answer(sorted', ring', h)
BY DEF HashRing!GetNode, HashRing!Entry, HashRing!Right, HashRing!Crash, HashRing!Min, Answer

LEMMA AnswerIs ==
  ASSUME NEW list, NEW map, NEW set \in SUBSET HashRing!Points, set = DOMAIN map, Sorts(list, set),
         NEW h \in HashRing!Points
  PROVE  /\ set = {} => Answer(list, map, h) = "None"
         /\ set # {} => \E p : Home(set, h, p) /\ Answer(list, map, h) = map[p]
<1> DEFINE n == Len(list)
<1>1. list \in Seq(HashRing!Points) /\ n \in Nat /\ h \in Int
  BY LenProperties, PointsAreNumbers DEF Sorts, Rising
<1>2. \A i \in 1 .. n : list[i] \in HashRing!Points /\ list[i] \in Int /\ list[i] \in set
  BY <1>1, ElementOfSeq, PointsAreNumbers DEF Sorts
<1>3. \A q \in set : \E i \in 1 .. n : list[i] = q
  BY DEF Sorts
<1>4. CASE set = {}
  <2>1. n = 0
    BY <1>1, <1>2, <1>4
  <2>2. list = <<>>
    BY <2>1, <1>1, EmptySeq
  <2>3. QED
    BY <2>2, <1>4 DEF Answer
<1>5. CASE set # {}
  <2>1. n >= 1 /\ list # <<>>
    <3>1. PICK i \in 1 .. n : TRUE
      BY <1>3, <1>5
    <3>2. QED
      BY <3>1, <1>1, EmptySeq
  <2>2. PICK r : r = HashRing!Right(list, h)
    OBVIOUS
  <2>3. /\ r \in 1 .. n + 1 /\ (r <= n => list[r] > h)
        /\ \A i \in 1 .. n : i < r => list[i] <= h
    BY <2>2, <1>1, BisectRight
  <2>4. PICK k : k = HashRing!Min({r, n})
    OBVIOUS
  <2>5. k \in 1 .. n /\ (r <= n => k = r) /\ (r = n + 1 => k = n)
    <3>1. {r, n} \in SUBSET Nat /\ {r, n} # {}
      BY <1>1, <2>3
    <3>2. k = Min({r, n})
      BY <2>4 DEF HashRing!Min, Min
    <3>3. k \in {r, n} /\ k <= r /\ k <= n
      BY <3>1, <3>2, MinProperty
    <3>4. QED
      BY <3>3, <2>1, <2>3, <1>1
  <2>6. Answer(list, map, h) = map[list[k]]
    BY <2>1, <2>2, <2>4, <2>5, <1>2 DEF Answer
  <2>7. \A i, j \in 1 .. n : i < j => list[i] < list[j]
    BY DEF Sorts, Rising
  <2> HIDE DEF n
  <2>8. Home(set, h, list[k])
    <3>1. CASE r <= n
      <4>1. ASSUME NEW q \in set, q > h PROVE list[k] <= q
        <5>1. PICK i \in 1 .. n : list[i] = q
          BY <1>3
        <5>2. ~(i < r)
          BY <5>1, <4>1, <2>3, <1>1, <1>2
        <5>3. i = k \/ k < i
          BY <5>2, <3>1, <2>3, <2>5, <1>1
        <5>4. k < i => list[k] < list[i]
          BY <2>5, <2>7
        <5>5. QED
          BY <5>1, <5>3, <5>4, <2>5, <1>2
      <4>2. QED
        BY <4>1, <3>1, <2>3, <2>5, <1>2 DEF Home
    <3>2. CASE r = n + 1
      <4>1. ASSUME NEW q \in set PROVE q <= h /\ q <= list[k]
        <5>1. PICK i \in 1 .. n : list[i] = q
          BY <1>3
        <5>2. i < r /\ (i = k \/ i < k)
          BY <3>2, <2>5, <1>1
        <5>3. i < k => list[i] < list[k]
          BY <2>5, <2>7
        <5>4. QED
          BY <5>1, <5>2, <5>3, <2>3, <2>5, <1>2
      <4>2. QED
        BY <4>1, <2>5, <1>2 DEF Home
    <3>3. QED
      BY <3>1, <3>2, <2>3, <1>1
  <2>9. QED
    BY <1>5, <2>6, <2>8
<1>6. QED
  BY <1>4, <1>5

\* The points of some nodes.
Taken(nodes) == {h \in HashRing!Points : \E m \in nodes : \E i \in 1 .. Virtual : hash[m][i] = h}

Rings == UNION {[D -> Members] : D \in SUBSET HashRing!Points}

\* Without collisions, the map gives every point of a node of the ring to that node,
\* and the list sorts those points.
Matched == /\ ring \in Rings /\ DOMAIN ring = Taken(members)
           /\ \A m \in members : \A i \in 1 .. Virtual : ring[hash[m][i]] = m
           /\ Sorts(sorted, DOMAIN ring)

RingInv == /\ hash \in [Members -> [1 .. Virtual -> HashRing!Points]] /\ members \subseteq Members
           /\ HashRing!NoCollision => Matched

LEMMA PointsOfNodes ==
  ASSUME RingInv, NEW m \in Members
  PROVE  /\ DOMAIN hash[m] = 1 .. Virtual /\ 1 \in 1 .. Virtual
         /\ \A i \in 1 .. Virtual : hash[m][i] \in HashRing!Points
         /\ HashRing!Range(hash[m]) = {hash[m][i] : i \in 1 .. Virtual} /\ HashRing!Range(hash[m]) = Taken({m})
<1>1. hash[m] \in [1 .. Virtual -> HashRing!Points] /\ Virtual \in Nat \ {0}
  BY EnginesAssumption DEF RingInv
<1>2. DOMAIN hash[m] = 1 .. Virtual /\ 1 \in 1 .. Virtual /\ \A i \in 1 .. Virtual : hash[m][i] \in HashRing!Points
  BY <1>1
<1>3. HashRing!Range(hash[m]) = {hash[m][i] : i \in 1 .. Virtual}
  BY <1>2 DEF HashRing!Range
<1>4. QED
  BY <1>2, <1>3 DEF Taken

LEMMA AddMatches ==
  ASSUME RingInv, HashRing!NoCollision, NEW m \in Members, HashRing!AddNode(m)
  PROVE  Matched' /\ DOMAIN ring' = DOMAIN ring \union Taken({m}) /\ \A p \in DOMAIN ring : ring'[p] = ring[p]
<1> DEFINE V == Seq(HashRing!Points)
           Def(f, i) == IF i = 0 THEN sorted ELSE HashRing!Insort(f[i - 1], hash[m][i])
<1>1. Matched /\ Virtual \in Nat \ {0} /\ members \subseteq Members /\ m \notin members
  BY EnginesAssumption DEF RingInv, HashRing!AddNode
<1>2. /\ DOMAIN hash[m] = 1 .. Virtual /\ \A i \in 1 .. Virtual : hash[m][i] \in HashRing!Points
      /\ HashRing!Range(hash[m]) = {hash[m][i] : i \in 1 .. Virtual} /\ HashRing!Range(hash[m]) = Taken({m})
  BY PointsOfNodes
<1>3. PICK step : step = [p \in (1 .. Virtual) \X V |-> HashRing!Insort(p[2], hash[m][p[1]])]
  OBVIOUS
<1>4. \A i \in 1 .. Virtual, v \in V : HashRing!Insort(v, hash[m][i]) \in V
  BY <1>2, ListsStay
<1>5. \A i \in 1 .. Virtual, v \in V : step[<<i, v>>] = HashRing!Insort(v, hash[m][i])
  BY <1>3
<1>6. sorted \in V
  BY <1>1 DEF Matched, Sorts, Rising
<1>7. PICK f : FromZero(f, Virtual, V, sorted, step)
  <2>1. step \in [(1 .. Virtual) \X V -> V]
    <3>1. \A p \in (1 .. Virtual) \X V : HashRing!Insort(p[2], hash[m][p[1]]) \in V
      BY <1>4
    <3> HIDE DEF V
    <3>2. QED
      BY <1>3, <3>1
  <2> HIDE DEF V
  <2>2. QED
    BY <2>1, <1>1, <1>6, RecursionFromZero
<1>8. f = [i \in 0 .. Virtual |-> Def(f, i)]
  <2>1. f \in [0 .. Virtual -> V] /\ f[0] = sorted /\ \A i \in 1 .. Virtual : f[i] = step[<<i, f[i - 1]>>]
    BY <1>7 DEF FromZero
  <2>2. ASSUME NEW i \in 0 .. Virtual PROVE f[i] = Def(f, i)
    <3>1. CASE i = 0
      BY <3>1, <2>1
    <3>2. CASE i # 0
      <4>1. i \in 1 .. Virtual /\ i - 1 \in 0 .. Virtual
        BY <3>2, <1>1
      <4>2. f[i - 1] \in V
        BY <4>1, <2>1
      <4> HIDE DEF V
      <4>3. QED
        BY <3>2, <4>1, <4>2, <2>1, <1>5
    <3>3. QED
      BY <3>1, <3>2
  <2>3. QED
    BY <2>1, <2>2
<1> DEFINE K == CHOOSE with : with = [i \in 0 .. Virtual |-> Def(with, i)]
<1>9. K = [i \in 0 .. Virtual |-> Def(K, i)]
  BY <1>8
<1>10. /\ sorted' = K[Virtual] /\ members' = members \union {m} /\ hash' = hash
       /\ ring' = [h \in DOMAIN ring \union HashRing!Range(hash[m]) |->
                     IF h \in HashRing!Range(hash[m]) THEN m ELSE ring[h]]
  BY DEF HashRing!AddNode
<1> HIDE DEF K
<1>11. K[0] = sorted /\ \A i \in 0 .. Virtual - 1 : K[i + 1] = HashRing!Insort(K[i], hash[m][i + 1])
  <2>1. 0 \in 0 .. Virtual /\ \A i \in 0 .. Virtual - 1 : i + 1 \in 0 .. Virtual /\ i + 1 # 0 /\ (i + 1) - 1 = i
    BY <1>1
  <2>2. QED
    BY <1>9, <2>1
<1> DEFINE With(i) == DOMAIN ring \union {hash[m][j] : j \in 1 .. i}
<1>12. PICK P : P = {i \in 0 .. Virtual : Sorts(K[i], With(i))}
  OBVIOUS
<1>13. 0 \in P
  <2>1. With(0) = DOMAIN ring
    OBVIOUS
  <2>2. QED
    BY <2>1, <1>1, <1>11, <1>12 DEF Matched
<1>14. \A q \in members, j, k \in 1 .. Virtual : hash[q][j] # hash[m][k]
  BY <1>1 DEF HashRing!NoCollision
<1>15. \A j, k \in 1 .. Virtual : hash[m][j] = hash[m][k] => j = k
  BY DEF HashRing!NoCollision
<1>16. \A i \in 0 .. Virtual - 1 : i \in P => i + 1 \in P
  <2>1. SUFFICES ASSUME NEW i \in 0 .. Virtual - 1, i \in P PROVE i + 1 \in P
    OBVIOUS
  <2>2. i + 1 \in 1 .. Virtual /\ i + 1 \in 0 .. Virtual /\ \A j \in 1 .. i : j \in 1 .. Virtual /\ j # i + 1
    BY <1>1
  <2>3. hash[m][i + 1] \notin With(i)
    <3>1. hash[m][i + 1] \notin DOMAIN ring
      BY <2>2, <1>1, <1>14 DEF Matched, Taken
    <3>2. QED
      BY <3>1, <2>2, <1>15
  <2>4. With(i + 1) = With(i) \union {hash[m][i + 1]}
    <3>1. 1 .. i + 1 = 1 .. i \union {i + 1}
      BY <1>1
    <3>2. QED
      BY <3>1
  <2>5. Sorts(K[i], With(i))
    BY <2>1, <1>12
  <2> HIDE DEF With
  <2>6. Sorts(HashRing!Insort(K[i], hash[m][i + 1]), With(i) \union {hash[m][i + 1]})
    BY <2>2, <2>3, <2>5, <1>2, InsortAdds
  <2>7. QED
    BY <2>2, <2>4, <2>6, <1>11, <1>12
<1>17. Virtual \in P
  <2>1. \A i \in 0 .. Virtual : i \in P
    BY <1>1, <1>13, <1>16, UpTo
  <2>2. QED
    BY <2>1, <1>1
<1>18. /\ DOMAIN ring' = DOMAIN ring \union Taken({m}) /\ DOMAIN ring' = With(Virtual)
       /\ \A p \in DOMAIN ring : ring'[p] = ring[p]
  <2>1. \A p \in DOMAIN ring : p \notin Taken({m})
    BY <1>1, <1>14 DEF Matched, Taken
  <2>2. QED
    BY <2>1, <1>2, <1>10
<1>19. Sorts(sorted', DOMAIN ring')
  BY <1>10, <1>12, <1>17, <1>18
<1>20. DOMAIN ring' = Taken(members)'
  <2>1. Taken(members)' = Taken(members) \union Taken({m})
    BY <1>10 DEF Taken, HashRing!Points
  <2>2. QED
    BY <2>1, <1>1, <1>18 DEF Matched
<1>21. ring' \in Rings
  <2>1. ring \in [DOMAIN ring -> Members] /\ DOMAIN ring \subseteq HashRing!Points /\ Taken({m}) \subseteq HashRing!Points
    BY <1>1 DEF Matched, Rings, Taken
  <2>2. ring' \in [DOMAIN ring \union Taken({m}) -> Members]
    BY <2>1, <1>2, <1>10
  <2>3. QED
    BY <2>1, <2>2 DEF Rings
<1>22. \A q \in members', i \in 1 .. Virtual : ring'[hash'[q][i]] = q
  <2>1. SUFFICES ASSUME NEW q \in members', NEW i \in 1 .. Virtual PROVE ring'[hash[q][i]] = q
    BY <1>10
  <2>2. CASE q = m
    BY <2>2, <1>2, <1>10
  <2>3. CASE q # m
    <3>1. q \in members /\ hash[q][i] \in HashRing!Points
      BY <2>1, <2>3, <1>1, <1>10 DEF RingInv
    <3>2. hash[q][i] \in DOMAIN ring /\ ring[hash[q][i]] = q
      BY <3>1, <1>1 DEF Matched, Taken
    <3>3. QED
      BY <3>2, <1>18
  <2>4. QED
    BY <2>2, <2>3
<1>23. Matched'
  BY <1>10, <1>19, <1>20, <1>21, <1>22 DEF Matched, Rings, HashRing!Points, Sorts, Rising
<1>24. QED
  BY <1>18, <1>23

LEMMA RemoveMatches ==
  ASSUME RingInv, HashRing!NoCollision, NEW m \in Members, HashRing!RemoveNode(m)
  PROVE  Matched' /\ DOMAIN ring' = DOMAIN ring \ Taken({m}) /\ \A p \in DOMAIN ring' : ring'[p] = ring[p]
<1> DEFINE V == [ring : Rings, sorted : Seq(HashRing!Points)]
           Drop(was, h) == IF h \in DOMAIN was.ring
                           THEN [ring |-> HashRing!Restrict(was.ring, DOMAIN was.ring \ {h}),
                                 sorted |-> HashRing!PopOne(was.sorted, h)]
                           ELSE was
           first == [ring |-> ring, sorted |-> sorted]
           Def(f, i) == IF i = 0 THEN first ELSE Drop(f[i - 1], hash[m][i])
<1>1. Matched /\ Virtual \in Nat \ {0} /\ members \subseteq Members /\ m \in members
  BY EnginesAssumption DEF RingInv, HashRing!RemoveNode
<1>2. DOMAIN hash[m] = 1 .. Virtual /\ \A i \in 1 .. Virtual : hash[m][i] \in HashRing!Points
  BY PointsOfNodes
<1>3. PICK step : step = [p \in (1 .. Virtual) \X V |-> Drop(p[2], hash[m][p[1]])]
  OBVIOUS
<1>4. ASSUME NEW h \in HashRing!Points, NEW v \in V PROVE Drop(v, h) \in V
  <2>1. CASE h \in DOMAIN v.ring
    <3>1. PICK D \in SUBSET HashRing!Points : v.ring \in [D -> Members]
      BY DEF Rings
    <3>2. HashRing!Restrict(v.ring, DOMAIN v.ring \ {h}) \in [D \ {h} -> Members]
      BY <3>1 DEF HashRing!Restrict
    <3>3. HashRing!Restrict(v.ring, DOMAIN v.ring \ {h}) \in Rings
      <4>1. D \ {h} \in SUBSET HashRing!Points
        BY <3>1
      <4>2. QED
        BY <3>2, <4>1 DEF Rings
    <3>4. HashRing!PopOne(v.sorted, h) \in Seq(HashRing!Points)
      BY ListsStay
    <3>5. QED
      BY <2>1, <3>3, <3>4
  <2>2. CASE h \notin DOMAIN v.ring
    BY <2>2
  <2>3. QED
    BY <2>1, <2>2
<1>5. first \in V
  BY <1>1 DEF Matched, Sorts, Rising
<1>6. \A i \in 1 .. Virtual, v \in V : step[<<i, v>>] = Drop(v, hash[m][i]) /\ Drop(v, hash[m][i]) \in V
  <2> HIDE DEF V, Drop
  <2>1. QED
    BY <1>2, <1>3, <1>4
<1> HIDE DEF first, Drop
<1>7. PICK f : FromZero(f, Virtual, V, first, step)
  <2>1. step \in [(1 .. Virtual) \X V -> V]
    <3> HIDE DEF V
    <3>1. \A p \in (1 .. Virtual) \X V : Drop(p[2], hash[m][p[1]]) \in V
      BY <1>6
    <3>2. QED
      BY <1>3, <3>1
  <2> HIDE DEF V
  <2>2. QED
    BY <2>1, <1>1, <1>5, RecursionFromZero
<1>8. f = [i \in 0 .. Virtual |-> Def(f, i)]
  <2>1. f \in [0 .. Virtual -> V] /\ f[0] = first /\ \A i \in 1 .. Virtual : f[i] = step[<<i, f[i - 1]>>]
    BY <1>7 DEF FromZero
  <2>2. ASSUME NEW i \in 0 .. Virtual PROVE f[i] = Def(f, i)
    <3>1. CASE i = 0
      BY <3>1, <2>1
    <3>2. CASE i # 0
      <4>1. i \in 1 .. Virtual /\ i - 1 \in 0 .. Virtual
        BY <3>2, <1>1
      <4>2. f[i - 1] \in V
        BY <4>1, <2>1
      <4> HIDE DEF V
      <4>3. QED
        BY <3>2, <4>1, <4>2, <2>1, <1>6
    <3>3. QED
      BY <3>1, <3>2
  <2>3. QED
    BY <2>1, <2>2
<1> DEFINE K == CHOOSE left : left = [i \in 0 .. Virtual |-> Def(left, i)]
<1>9. K = [i \in 0 .. Virtual |-> Def(K, i)]
  BY <1>8
<1>10. /\ ring' = K[Virtual].ring /\ sorted' = K[Virtual].sorted
       /\ members' = members \ {m} /\ hash' = hash
  BY DEF HashRing!RemoveNode, first, Drop
<1> HIDE DEF K
<1>11. K[0] = first /\ \A i \in 0 .. Virtual - 1 : K[i + 1] = Drop(K[i], hash[m][i + 1])
  <2>1. 0 \in 0 .. Virtual /\ \A i \in 0 .. Virtual - 1 : i + 1 \in 0 .. Virtual /\ i + 1 # 0 /\ (i + 1) - 1 = i
    BY <1>1
  <2>2. QED
    BY <1>9, <2>1
<1> DEFINE Left(i) == DOMAIN ring \ {hash[m][j] : j \in 1 .. i}
           Good(v, i) == /\ v.ring \in Rings /\ DOMAIN v.ring = Left(i)
                         /\ \A p \in Left(i) : v.ring[p] = ring[p]
                         /\ Sorts(v.sorted, Left(i))
<1>12. PICK P : P = {i \in 0 .. Virtual : Good(K[i], i)}
  OBVIOUS
<1>13. 0 \in P
  <2>1. Left(0) = DOMAIN ring
    OBVIOUS
  <2>2. K[0].ring = ring /\ K[0].sorted = sorted
    BY <1>11 DEF first
  <2>3. Good(K[0], 0)
    BY <2>1, <2>2, <1>1 DEF Matched
  <2> HIDE DEF Good
  <2>4. QED
    BY <2>3, <1>1, <1>12
<1>14. ASSUME NEW j \in 1 .. Virtual, NEW k \in 1 .. Virtual, hash[m][j] = hash[m][k] PROVE j = k
  BY <1>14 DEF HashRing!NoCollision
<1>15. \A i \in 0 .. Virtual - 1 : i \in P => i + 1 \in P
  <2>1. SUFFICES ASSUME NEW i \in 0 .. Virtual - 1, i \in P PROVE i + 1 \in P
    OBVIOUS
  <2>2. i + 1 \in 1 .. Virtual /\ i + 1 \in 0 .. Virtual /\ \A j \in 1 .. i : j \in 1 .. Virtual /\ j # i + 1
    BY <1>1
  <2>3. PICK h : h = hash[m][i + 1]
    OBVIOUS
  <2>4. h \in HashRing!Points /\ h \in DOMAIN ring
    BY <2>2, <2>3, <1>1, <1>2 DEF Matched, Taken
  <2>5. h \in Left(i)
    BY <2>2, <2>3, <2>4, <1>14
  <2>6. Left(i + 1) = Left(i) \ {h}
    <3>1. 1 .. i + 1 = 1 .. i \union {i + 1}
      BY <1>1
    <3>2. QED
      BY <3>1, <2>3
  <2>7. Good(K[i], i)
    <3> HIDE DEF Good
    <3>1. QED
      BY <2>1, <1>12
  <2>8. PICK v : v = K[i + 1]
    OBVIOUS
  <2>9. v.ring = HashRing!Restrict(K[i].ring, Left(i) \ {h}) /\ v.sorted = HashRing!PopOne(K[i].sorted, h)
    <3>1. v = Drop(K[i], h)
      BY <2>1, <2>3, <2>8, <1>11
    <3>2. h \in DOMAIN K[i].ring /\ DOMAIN K[i].ring = Left(i)
      BY <2>5, <2>7
    <3> HIDE DEF Left
    <3>3. QED
      BY <3>1, <3>2 DEF Drop
  <2>10. Sorts(v.sorted, Left(i) \ {h})
    <3>1. Sorts(K[i].sorted, Left(i))
      BY <2>7
    <3> HIDE DEF Left
    <3>2. QED
      BY <3>1, <2>4, <2>5, <2>9, PopTakes
  <2>11. /\ v.ring \in Rings /\ DOMAIN v.ring = Left(i) \ {h}
         /\ \A p \in Left(i) \ {h} : v.ring[p] = ring[p]
    <3>1. PICK D \in SUBSET HashRing!Points : K[i].ring \in [D -> Members]
      BY <2>7 DEF Rings
    <3>2. D = Left(i) /\ \A p \in Left(i) : K[i].ring[p] = ring[p]
      BY <3>1, <2>7
    <3> HIDE DEF Left
    <3>3. v.ring = [p \in Left(i) \ {h} |-> K[i].ring[p]]
      BY <2>9 DEF HashRing!Restrict
    <3>4. v.ring \in [Left(i) \ {h} -> Members] /\ Left(i) \ {h} \in SUBSET HashRing!Points
      BY <3>1, <3>2, <3>3
    <3>5. v.ring \in Rings
      BY <3>4 DEF Rings
    <3>6. QED
      BY <3>2, <3>3, <3>5
  <2> HIDE DEF Left
  <2>12. Good(v, i + 1)
    BY <2>6, <2>10, <2>11
  <2> HIDE DEF Good
  <2>13. QED
    BY <2>2, <2>8, <2>12, <1>12
<1>16. Virtual \in P
  <2>1. \A i \in 0 .. Virtual : i \in P
    BY <1>1, <1>13, <1>15, UpTo
  <2>2. QED
    BY <2>1, <1>1
<1>17. Good(K[Virtual], Virtual)
  <2> HIDE DEF Good
  <2>1. QED
    BY <1>12, <1>16
<1>18. Left(Virtual) = DOMAIN ring \ Taken({m})
  BY <1>2 DEF Taken
<1>19. /\ ring' \in Rings /\ DOMAIN ring' = DOMAIN ring \ Taken({m}) /\ \A p \in DOMAIN ring' : ring'[p] = ring[p]
       /\ Sorts(sorted', DOMAIN ring')
  <2>1. /\ ring' \in Rings /\ DOMAIN ring' = Left(Virtual) /\ \A p \in Left(Virtual) : ring'[p] = ring[p]
        /\ Sorts(sorted', Left(Virtual))
    BY <1>10, <1>17
  <2> HIDE DEF Left
  <2>2. QED
    BY <2>1, <1>18
<1>20. ASSUME NEW q \in members, q # m, NEW i \in 1 .. Virtual
       PROVE  hash[q][i] \in DOMAIN ring /\ hash[q][i] \notin Taken({m})
  <2>1. hash[q][i] \in HashRing!Points /\ q \in Members
    BY <1>1, <1>20 DEF RingInv
  <2>2. \A j \in 1 .. Virtual : hash[q][i] # hash[m][j]
    BY <2>1, <1>20 DEF HashRing!NoCollision
  <2>3. QED
    BY <2>1, <2>2, <1>1, <1>20 DEF Matched, Taken
<1>21. DOMAIN ring' = Taken(members)'
  <2>1. Taken(members)' = {h \in HashRing!Points : \E q \in members \ {m} : \E i \in 1 .. Virtual : hash[q][i] = h}
    BY <1>10 DEF Taken, HashRing!Points
  <2>2. \A h \in Taken(members)' : h \in DOMAIN ring /\ h \notin Taken({m})
    BY <2>1, <1>20
  <2>3. \A h \in DOMAIN ring \ Taken({m}) : h \in Taken(members)'
    BY <2>1, <1>1 DEF Matched, Taken
  <2>4. QED
    BY <2>2, <2>3, <1>19
<1>22. \A q \in members', i \in 1 .. Virtual : ring'[hash'[q][i]] = q
  BY <1>1, <1>10, <1>19, <1>20 DEF Matched
<1>23. Matched'
  BY <1>10, <1>19, <1>21, <1>22 DEF Matched, Rings, HashRing!Points, Sorts, Rising
<1>24. QED
  BY <1>19, <1>23

LEMMA HomesOfNodes ==
  ASSUME RingInv, Matched, NEW p \in DOMAIN ring
  PROVE  ring[p] \in members /\ \A m \in members : p \in Taken({m}) => ring[p] = m
<1>1. PICK q \in members : \E i \in 1 .. Virtual : hash[q][i] = p
  BY DEF Matched, Taken
<1>2. QED
  BY <1>1 DEF Matched, Taken

LEMMA RingKeeps ==
  ASSUME RingInv, HashRing!Next
  PROVE  RingInv' /\ HashRing!OnlyItsKeysMove
<1>1. PICK m \in Members : HashRing!AddNode(m) \/ HashRing!RemoveNode(m)
  BY DEF HashRing!Next
<1>2. hash' = hash /\ members' \subseteq Members /\ (HashRing!NoCollision' <=> HashRing!NoCollision)
  BY <1>1 DEF HashRing!AddNode, HashRing!RemoveNode, RingInv, HashRing!NoCollision
<1>3. HashRing!NoCollision => Matched'
  BY <1>1, AddMatches, RemoveMatches
<1>4. RingInv'
  BY <1>2, <1>3 DEF RingInv, HashRing!Points
<1>5. ASSUME HashRing!NoCollision, NEW h \in HashRing!Points
      PROVE  \/ HashRing!GetNode(h)' = HashRing!GetNode(h)
             \/ HashRing!GetNode(h)' \in members' \ members
             \/ HashRing!GetNode(h) \in members \ members'
  <2> DEFINE was == DOMAIN ring
             is == DOMAIN ring'
  <2>1. /\ Matched /\ Matched' /\ members \subseteq Members /\ was \in SUBSET HashRing!Points
        /\ is \in SUBSET HashRing!Points
        /\ Sorts(sorted, was) /\ Sorts(sorted', is)
    BY <1>3, <1>5 DEF RingInv, Matched, Taken, Sorts, Rising, HashRing!Points
  <2> HIDE DEF was, is
  <2>2. was # {} => \E p : Home(was, h, p) /\ HashRing!GetNode(h) = ring[p]
    BY <2>1, GetNodeAnswers, AnswerIs DEF was
  <2>3. is # {} => \E p : Home(is, h, p) /\ HashRing!GetNode(h)' = ring'[p]
    BY <2>1, GetNodeAnswers, AnswerIs DEF is
  <2>4. \A p \in was : ring[p] \in members /\ (p \in Taken({m}) /\ m \in members => ring[p] = m)
    BY <1>5, HomesOfNodes, <2>1 DEF was
  <2>5. CASE HashRing!AddNode(m)
    <3>1. /\ is = was \union Taken({m}) /\ \A p \in was : ring'[p] = ring[p]
          /\ m \in members' \ members /\ \A p \in Taken({m}) : ring'[p] = m
      <4>1. hash[m] \in [1 .. Virtual -> HashRing!Points] /\ m \notin members /\ members' = members \union {m}
        BY <2>5 DEF RingInv, HashRing!AddNode
      <4>2. \A i \in 1 .. Virtual : ring'[hash[m][i]] = m
        BY <4>1, <2>1, <1>2 DEF Matched
      <4>3. QED
        BY <4>1, <4>2, <1>5, <2>5, AddMatches DEF was, is, Taken
    <3>2. PICK q : Home(is, h, q) /\ HashRing!GetNode(h)' = ring'[q]
      <4>1. is # {}
        BY <3>1, PointsOfNodes DEF Taken
      <4>2. QED
        BY <4>1, <2>3
    <3>3. CASE q \in Taken({m})
      BY <3>1, <3>2, <3>3
    <3>4. CASE q \notin Taken({m})
      <4>1. q \in was /\ was \in SUBSET is
        BY <3>1, <3>2, <3>4 DEF Home
      <4>2. Home(was, h, q)
        BY <4>1, <3>2, HomeRemains
      <4>3. PICK p : Home(was, h, p) /\ HashRing!GetNode(h) = ring[p]
        BY <4>1, <2>2
      <4>4. p = q
        BY <4>2, <4>3, <2>1, HomeIsOne
      <4>5. QED
        BY <4>1, <4>3, <4>4, <3>1, <3>2
    <3>5. QED
      BY <3>3, <3>4
  <2>6. CASE HashRing!RemoveNode(m)
    <3>1. /\ is = was \ Taken({m}) /\ \A p \in is : ring'[p] = ring[p]
          /\ m \in members \ members' /\ \A p \in was : p \in Taken({m}) => ring[p] = m
      <4>1. m \in members /\ members' = members \ {m}
        BY <2>6 DEF HashRing!RemoveNode
      <4>2. QED
        BY <4>1, <1>5, <2>4, <2>6, RemoveMatches DEF was, is
    <3>2. PICK p : Home(was, h, p) /\ HashRing!GetNode(h) = ring[p]
      <4>1. was # {}
        BY <3>1, <2>1, PointsOfNodes DEF was, Matched, Taken
      <4>2. QED
        BY <4>1, <2>2
    <3>3. CASE p \in Taken({m})
      BY <3>1, <3>2, <3>3 DEF Home
    <3>4. CASE p \notin Taken({m})
      <4>1. p \in is /\ is \in SUBSET was
        BY <3>1, <3>2, <3>4 DEF Home
      <4>2. Home(is, h, p)
        BY <4>1, <3>2, HomeRemains
      <4>3. PICK q : Home(is, h, q) /\ HashRing!GetNode(h)' = ring'[q]
        BY <4>1, <2>3
      <4>4. p = q
        BY <4>2, <4>3, <2>1, HomeIsOne
      <4>5. QED
        BY <4>1, <4>3, <4>4, <3>1, <3>2
    <3>5. QED
      BY <3>3, <3>4
  <2>7. QED
    BY <1>1, <2>5, <2>6
<1>6. QED
  BY <1>4, <1>5 DEF HashRing!OnlyItsKeysMove

LEMMA RingShows ==
  ASSUME RingInv
  PROVE  HashRing!KeysHaveNodes
<1>1. SUFFICES ASSUME HashRing!NoCollision, members # {}, NEW h \in HashRing!Points
               PROVE  HashRing!GetNode(h) \in members
  BY DEF HashRing!KeysHaveNodes
<1>2. Matched /\ DOMAIN ring \in SUBSET HashRing!Points /\ Sorts(sorted, DOMAIN ring)
  BY <1>1 DEF RingInv, Matched, Taken
<1>3. DOMAIN ring # {}
  <2>1. PICK m \in members : m \in Members
    BY <1>1 DEF RingInv
  <2>2. hash[m][1] \in DOMAIN ring
    BY <2>1, <1>2, PointsOfNodes DEF Matched, Taken
  <2>3. QED
    BY <2>2
<1>4. PICK p : Home(DOMAIN ring, h, p) /\ HashRing!GetNode(h) = ring[p]
  <2>1. PICK set : set = DOMAIN ring
    OBVIOUS
  <2>2. \E p : Home(set, h, p) /\ HashRing!GetNode(h) = ring[p]
    BY <2>1, <1>2, <1>3, GetNodeAnswers, AnswerIs
  <2>3. QED
    BY <2>1, <2>2
<1>5. QED
  BY <1>2, <1>4, HomesOfNodes DEF Home

\* When no two virtual nodes share a hash: in every reachable ring each key has one of
\* its nodes, and a node that joins takes keys to itself only, one that leaves gives
\* away its own only, whatever the order of the joins and the hashes (add_node,
\* remove_node and get_node).
THEOREM KeysAreHome == Spec => KeysStayHome
<1> DEFINE Inv == which = "ring" => RingInv
<1>1. Init => Inv
  <2>1. SUFFICES ASSUME Init, which = "ring" PROVE RingInv
    OBVIOUS
  <2>2. /\ hash \in [Members -> [1 .. Virtual -> HashRing!Points]] /\ members = {}
        /\ ring = [h \in {} |-> ""] /\ sorted = <<>>
    BY <2>1, EnginesAssumption DEF Init, HashRing!Init
  <2>3. ring \in Rings
    <3>1. ring \in [{} -> Members]
      BY <2>2
    <3>2. QED
      BY <3>1 DEF Rings
  <2>4. DOMAIN ring = {} /\ Taken(members) = {}
    BY <2>2 DEF Taken
  <2>5. Sorts(sorted, DOMAIN ring)
    <3>1. Len(sorted) = 0 /\ sorted \in Seq(HashRing!Points)
      BY <2>2, EmptySeq
    <3>2. QED
      BY <3>1, <2>4 DEF Sorts, Rising
  <2>6. QED
    BY <2>2, <2>3, <2>4, <2>5 DEF RingInv, Matched
<1>2. Inv /\ [Next]_vars => Inv' /\ [which = "ring" => HashRing!OnlyItsKeysMove]_ringVars
  <2>1. SUFFICES ASSUME Inv, [Next]_vars
                 PROVE  Inv' /\ ((which = "ring" => HashRing!OnlyItsKeysMove) \/ UNCHANGED ringVars)
    OBVIOUS
  <2>2. CASE which = "ring" /\ HashRing!Next
    BY <2>1, <2>2, RingKeeps
  <2>3. CASE which = "ring" /\ UNCHANGED ringVars
    <3>1. RingInv
      BY <2>1, <2>3
    <3>2. RingInv'
      BY <3>1, <2>3 DEF ringVars, RingInv, HashRing!NoCollision, HashRing!Points, Matched, Rings, Taken, Sorts, Rising
    <3>3. QED
      BY <3>2, <2>3
  <2>4. CASE which # "ring"
    <3>1. which' = which
      BY <2>1 DEF Next, vars
    <3>2. QED
      BY <3>1, <2>4
  <2>5. QED
    BY <2>1, <2>2, <2>3, <2>4 DEF Next, vars
<1>3. Inv => (which = "ring" => HashRing!KeysHaveNodes)
  BY RingShows
<1>4. QED
  BY <1>1, <1>2, <1>3, PTL DEF Spec, KeysStayHome

-----------------------------------------------------------------------------
(* The tokenizer *)

\* The newlines among the first p characters, and the true place of the next one.
Breaks(p) == {k \in 1 .. p : source[k] = "\n"}
Stands(p, l, c) == l = 1 + Cardinality(Breaks(p)) /\ c = p + 1 - Max(Breaks(p) \union {0})

Texts == source \in Seq(Tokenizer!Characters)

LEMMA CharactersAre ==
  ASSUME Texts, NEW p \in Nat
  PROVE  /\ Len(source) \in Nat
         /\ p < Len(source) => /\ p + 1 \in 1 .. Len(source) /\ Tokenizer!Ch(p) = source[p + 1]
                               /\ source[p + 1] \in Tokenizer!Characters
         /\ Tokenizer!Ch(p) # "none" => p < Len(source)
         /\ p < Len(source) => Tokenizer!Ch(p) # "none"
<1>1. Len(source) \in Nat
  BY LenProperties DEF Texts
<1>2. ASSUME p < Len(source)
      PROVE  p + 1 \in 1 .. Len(source) /\ Tokenizer!Ch(p) = source[p + 1] /\ source[p + 1] \in Tokenizer!Characters
  <2>1. p + 1 \in 1 .. Len(source)
    BY <1>1, <1>2
  <2>2. source[p + 1] \in Tokenizer!Characters
    BY <2>1, ElementOfSeq DEF Texts
  <2>3. QED
    BY <1>2, <2>1, <2>2 DEF Tokenizer!Ch
<1>3. ~(p < Len(source)) => Tokenizer!Ch(p) = "none"
  BY DEF Tokenizer!Ch
<1>4. "none" \notin Tokenizer!Characters
  BY DEF Tokenizer!Characters
<1>5. QED
  BY <1>1, <1>2, <1>3, <1>4

LEMMA RunOfIs ==
  ASSUME Texts, NEW set, "none" \notin set, NEW p \in 0 .. Len(source)
  PROVE  LET r == Tokenizer!RunOf(set, p) IN
         r \in p .. Len(source) /\ Tokenizer!Ch(r) \notin set /\ \A k \in p .. r - 1 : Tokenizer!Ch(k) \in set
<1> DEFINE S == {q \in p .. Len(source) : Tokenizer!Ch(q) \notin set}
<1>1. Len(source) \in Nat
  BY LenProperties DEF Texts
<1>2. Tokenizer!Ch(Len(source)) = "none"
  BY <1>1 DEF Tokenizer!Ch
<1>3. S \in SUBSET Nat /\ S # {}
  BY <1>1, <1>2
<1>4. PICK r : r = Tokenizer!RunOf(set, p)
  OBVIOUS
<1>5. r = Min(S)
  BY <1>4 DEF Tokenizer!RunOf, Tokenizer!Min, Min
<1>6. r \in S /\ \A x \in S : r <= x
  <2> HIDE DEF S
  <2>1. QED
    BY <1>3, <1>5, MinProperty
<1>7. ASSUME NEW k \in p .. r - 1, Tokenizer!Ch(k) \notin set PROVE FALSE
  <2>1. k \in S
    BY <1>1, <1>6, <1>7
  <2>2. QED
    BY <1>1, <1>6, <1>7, <2>1
<1>8. QED
  BY <1>4, <1>6, <1>7

LEMMA FirstOfIs ==
  ASSUME Texts, NEW set, NEW p \in 0 .. Len(source)
  PROVE  LET r == Tokenizer!FirstOf(set, p) IN
         r \in p .. Len(source) /\ Tokenizer!Ch(r) \in set \union {"none"}
<1> DEFINE S == {q \in p .. Len(source) : Tokenizer!Ch(q) \in set \union {"none"}}
<1>1. Len(source) \in Nat
  BY LenProperties DEF Texts
<1>2. Tokenizer!Ch(Len(source)) = "none"
  BY <1>1 DEF Tokenizer!Ch
<1>3. S \in SUBSET Nat /\ S # {}
  BY <1>1, <1>2
<1>4. PICK r : r = Tokenizer!FirstOf(set, p)
  OBVIOUS
<1>5. r = Min(S)
  BY <1>4 DEF Tokenizer!FirstOf, Tokenizer!Min, Min
<1>6. r \in S
  <2> HIDE DEF S
  <2>1. QED
    BY <1>3, <1>5, MinProperty
<1>7. QED
  BY <1>4, <1>6

LEMMA CommentEndIs ==
  ASSUME Texts, NEW p \in 0 .. Len(source), Tokenizer!CommentEnd(p) # -1
  PROVE  LET q == Tokenizer!CommentEnd(p) IN q \in p + 2 .. Len(source) /\ source[q] = "/"
<1> DEFINE S == {q \in p .. Len(source) - 2 : Tokenizer!Ch(q) = "*" /\ Tokenizer!Ch(q + 1) = "/"}
<1>1. Len(source) \in Nat
  BY LenProperties DEF Texts
<1>2. PICK q : q = Tokenizer!CommentEnd(p)
  OBVIOUS
<1>3. S # {} /\ q = Min(S) + 2
  BY <1>2 DEF Tokenizer!CommentEnd, Tokenizer!Min, Min
<1>4. S \in SUBSET Nat
  BY <1>1
<1>5. PICK m : m = Min(S)
  OBVIOUS
<1>6. m \in S
  <2> HIDE DEF S
  <2>1. QED
    BY <1>3, <1>4, <1>5, MinProperty
<1>7. m \in p .. Len(source) - 2 /\ Tokenizer!Ch(m + 1) = "/" /\ m + 1 \in Nat /\ m + 1 < Len(source)
  BY <1>1, <1>6
<1>8. source[m + 1 + 1] = "/"
  BY <1>7 DEF Tokenizer!Ch
<1>9. m + 1 + 1 = q /\ q \in p + 2 .. Len(source)
  BY <1>1, <1>3, <1>5, <1>7
<1>10. QED
  BY <1>2, <1>8, <1>9

TokenTypes == {"STRING", "ERROR", "INTEGER", "FLOAT", "WORD", "DELIMITER", "OPERATOR", "EOF"}

\* Every branch of tokenize reads at least one character, and none beyond the end.
LEMMA ReadsOn ==
  ASSUME Texts, NEW p \in Nat, p < Len(source)
  PROVE  Tokenizer!Read(p).to \in p + 1 .. Len(source) /\ Tokenizer!Read(p).type \in TokenTypes
<1> DEFINE n == Len(source)
<1>1. n \in Nat /\ p + 1 \in 0 .. n /\ p \in 0 .. n
  BY LenProperties DEF Texts
<1>2. \A k \in Nat : Tokenizer!Ch(k) # "none" => k < n
  BY CharactersAre
<1>3. PICK c : c = Tokenizer!Ch(p)
  OBVIOUS
<1>4. PICK r : r = Tokenizer!Read(p)
  OBVIOUS
<1>5. c \in Tokenizer!OneCharOps \union Tokenizer!Delimiters \union {"quote", "'"} \union Tokenizer!Digits =>
        c \notin Tokenizer!Letters \union {"_", "x"}
  BY DEF Tokenizer!Digits, Tokenizer!Letters, Tokenizer!Delimiters, Tokenizer!OneCharOps
<1>6. c \in Tokenizer!OneCharOps \union Tokenizer!Delimiters \union {"quote", "'"} => c \notin Tokenizer!Digits
  BY DEF Tokenizer!Digits, Tokenizer!Delimiters, Tokenizer!OneCharOps
<1>7. /\ c \in Tokenizer!Letters \union {"_", "x"} \union Tokenizer!Digits => c # "quote" /\ c # "'"
      /\ c \in Tokenizer!OneCharOps => c \notin Tokenizer!Delimiters
      /\ c \in Tokenizer!OneCharOps \union Tokenizer!Delimiters => c # "quote" /\ c # "'"
  BY DEF Tokenizer!Digits, Tokenizer!Letters, Tokenizer!Delimiters, Tokenizer!OneCharOps
<1> HIDE DEF n
<1>8. CASE c = "quote"
  <2> DEFINE taken == CHOOSE t : t = [q \in p + 1 .. Len(source) |->
                                        q > p + 1 /\ Tokenizer!Ch(q - 1) = "\\" /\ ~t[q - 1]]
  <2> DEFINE S == {q \in p + 1 .. n : Tokenizer!Ch(q) = "none" \/ (Tokenizer!Ch(q) \in {"quote", "\n"} /\ ~taken[q])}
  <2>2. Tokenizer!Ch(n) = "none"
    BY DEF Tokenizer!Ch, n
  <2>3. S \in SUBSET Nat /\ S # {}
    BY <1>1, <2>2
  <2>4. PICK end : end = Tokenizer!Min(S)
    OBVIOUS
  <2>1. Tokenizer!StringEnd(p + 1) = IF Tokenizer!Ch(end) = "quote" THEN [to |-> end + 1, type |-> "STRING"]
                                     ELSE [to |-> end, type |-> "ERROR"]
    BY <2>4 DEF Tokenizer!StringEnd, n
  <2>5. end \in S
    <3> HIDE DEF S
    <3>1. end = Min(S)
      BY <2>4 DEF Tokenizer!Min, Min
    <3>2. QED
      BY <2>3, <3>1, MinProperty
  <2>6. end \in p + 1 .. n /\ end \in Nat
    BY <1>1, <2>5
  <2>7. Tokenizer!Ch(end) = "quote" => end + 1 \in p + 1 .. n
    BY <1>1, <1>2, <2>6
  <2>8. r = IF Tokenizer!Ch(end) = "quote" THEN [to |-> end + 1, type |-> "STRING"] ELSE [to |-> end, type |-> "ERROR"]
    <3> HIDE DEF S, taken
    <3>1. r = Tokenizer!StringEnd(p + 1)
      BY <1>8, <1>3, <1>4, <1>5, <1>6, <1>7 DEF Tokenizer!Read
    <3>2. QED
      BY <2>1, <3>1
  <2> HIDE DEF S, taken
  <2>9. QED
    BY <2>6, <2>7, <2>8, <1>4 DEF n, TokenTypes
<1>9. CASE c = "'"
  <2>1. r = [to |-> Tokenizer!CharEnd(p + 1), type |-> "INTEGER"]
    BY <1>9, <1>3, <1>4, <1>5, <1>6, <1>7 DEF Tokenizer!Read
  <2>2. PICK q : q = IF Tokenizer!Ch(p + 1) = "none" THEN p + 1
                     ELSE IF Tokenizer!Ch(p + 1) = "\\"
                          THEN (IF Tokenizer!Ch(p + 1 + 1) = "none" THEN p + 1 + 1 ELSE p + 1 + 2) ELSE p + 1 + 1
    OBVIOUS
  <2>3. Tokenizer!CharEnd(p + 1) = IF Tokenizer!Ch(q) = "'" THEN q + 1 ELSE q
    BY <2>2 DEF Tokenizer!CharEnd
  <2>4. q \in p + 1 .. n /\ q \in Nat
    <3>1. p + 1 \in Nat /\ p + 1 + 1 \in Nat
      BY <1>1
    <3>2. Tokenizer!Ch(p + 1) # "none" => p + 1 + 1 \in p + 1 .. n
      BY <1>1, <1>2, <3>1
    <3>3. Tokenizer!Ch(p + 1 + 1) # "none" => p + 1 + 2 \in p + 1 .. n
      BY <1>1, <1>2, <3>1
    <3>4. QED
      BY <1>1, <2>2, <3>2, <3>3
  <2>5. Tokenizer!Ch(q) = "'" => q + 1 \in p + 1 .. n
    BY <1>1, <1>2, <2>4
  <2>6. QED
    BY <2>1, <2>3, <2>4, <2>5, <1>4 DEF n, TokenTypes
<1>10. CASE c \in Tokenizer!Digits
  <2> DEFINE D == Tokenizer!Digits \union {"_"}
             X == Tokenizer!Digits \union {"a", "e", "_"}
  <2>1. "none" \notin D /\ "none" \notin X /\ "none" \notin Tokenizer!Digits /\ c \in D
    BY <1>10 DEF Tokenizer!Digits
  <2> HIDE DEF D, X
  <2>2. PICK whole : whole = Tokenizer!RunOf(D, p)
    OBVIOUS
  <2>3. whole \in p .. n /\ Tokenizer!Ch(whole) \notin D
    BY <1>1, <2>1, <2>2, RunOfIs DEF n
  <2>4. whole \in p + 1 .. n /\ whole \in Nat
    <3>1. whole # p
      BY <2>1, <2>3, <1>3
    <3>2. QED
      BY <1>1, <2>3, <3>1
  <2>5. PICK frac : frac = IF Tokenizer!Ch(whole) = "." /\ Tokenizer!Ch(whole + 1) \in Tokenizer!Digits
                           THEN Tokenizer!RunOf(D, whole + 1) ELSE whole
    OBVIOUS
  <2>6. frac \in p + 1 .. n /\ frac \in Nat
    <3>1. CASE Tokenizer!Ch(whole) = "." /\ Tokenizer!Ch(whole + 1) \in Tokenizer!Digits
      <4>1. whole + 1 \in 0 .. n
        BY <1>1, <1>2, <2>1, <2>4, <3>1
      <4>2. frac \in whole + 1 .. n
        BY <2>1, <2>5, <3>1, <4>1, RunOfIs DEF n
      <4>3. QED
        BY <1>1, <2>4, <4>2
    <3>2. CASE ~(Tokenizer!Ch(whole) = "." /\ Tokenizer!Ch(whole + 1) \in Tokenizer!Digits)
      BY <2>4, <2>5, <3>2
    <3>3. QED
      BY <3>1, <3>2
  <2>7. PICK sign : sign = IF Tokenizer!Ch(frac + 1) = "+" THEN frac + 2 ELSE frac + 1
    OBVIOUS
  <2>8. Tokenizer!Ch(frac) = "e" => Tokenizer!RunOf(Tokenizer!Digits, sign) \in p + 1 .. n
    <3>1. SUFFICES ASSUME Tokenizer!Ch(frac) = "e"
                   PROVE  Tokenizer!RunOf(Tokenizer!Digits, sign) \in p + 1 .. n
      OBVIOUS
    <3>2. frac < n /\ frac + 1 \in Nat
      BY <1>2, <2>6, <3>1
    <3>3. Tokenizer!Ch(frac + 1) = "+" => frac + 1 < n
      BY <1>2, <3>2
    <3>4. sign \in p + 1 .. n /\ sign \in 0 .. n
      BY <1>1, <2>6, <2>7, <3>2, <3>3
    <3>5. Tokenizer!RunOf(Tokenizer!Digits, sign) \in sign .. n
      BY <2>1, <3>4, RunOfIs DEF n
    <3>6. QED
      BY <1>1, <3>4, <3>5
  <2>9. Tokenizer!Ch(p) = "0" /\ Tokenizer!Ch(p + 1) = "x" => Tokenizer!RunOf(X, p + 2) \in p + 1 .. n
    <3>1. SUFFICES ASSUME Tokenizer!Ch(p + 1) = "x" PROVE Tokenizer!RunOf(X, p + 2) \in p + 1 .. n
      OBVIOUS
    <3>2. p + 2 \in 0 .. n
      BY <1>1, <1>2, <3>1
    <3>3. Tokenizer!RunOf(X, p + 2) \in p + 2 .. n
      BY <2>1, <3>2, RunOfIs DEF n
    <3>4. QED
      BY <1>1, <3>3
  <2>10. r = Tokenizer!NumberEnd(p)
    BY <1>10, <1>3, <1>4, <1>5, <1>6, <1>7 DEF Tokenizer!Read
  <2>11. r = IF Tokenizer!Ch(p) = "0" /\ Tokenizer!Ch(p + 1) = "x"
             THEN [to |-> Tokenizer!RunOf(X, p + 2), type |-> "INTEGER"]
             ELSE IF Tokenizer!Ch(frac) = "e"
             THEN [to |-> Tokenizer!RunOf(Tokenizer!Digits, sign), type |-> "FLOAT"]
             ELSE [to |-> frac, type |-> IF frac = whole THEN "INTEGER" ELSE "FLOAT"]
    BY <2>2, <2>5, <2>7, <2>10 DEF Tokenizer!NumberEnd, D, X
  <2>12. r.to \in p + 1 .. n /\ r.type \in TokenTypes
    BY <2>6, <2>8, <2>9, <2>11 DEF TokenTypes
  <2>13. QED
    BY <2>12, <1>4 DEF n
<1>11. CASE c \in Tokenizer!Letters \union {"_", "x"}
  <2> DEFINE W == Tokenizer!Letters \union Tokenizer!Digits \union {"_", "x"}
  <2>1. r = [to |-> Tokenizer!RunOf(W, p), type |-> "WORD"]
    BY <1>11, <1>3, <1>4, <1>5, <1>6, <1>7 DEF Tokenizer!Read
  <2>2. "none" \notin W /\ c \in W
    BY <1>11 DEF Tokenizer!Letters, Tokenizer!Digits
  <2> HIDE DEF W
  <2>3. r.to \in p .. n /\ Tokenizer!Ch(r.to) \notin W
    BY <1>1, <2>1, <2>2, RunOfIs DEF n
  <2>4. r.to # p
    BY <2>2, <2>3, <1>3
  <2>5. r.to \in p + 1 .. n /\ r.type \in TokenTypes
    BY <1>1, <2>1, <2>3, <2>4 DEF TokenTypes
  <2>6. QED
    BY <2>5, <1>4 DEF n
<1>12. CASE c \in Tokenizer!OneCharOps
  <2>1. r = [to |-> Tokenizer!OperatorEnd(p), type |-> "OPERATOR"]
    BY <1>12, <1>3, <1>4, <1>5, <1>6, <1>7 DEF Tokenizer!Read
  <2>2. <<c, Tokenizer!Ch(p + 1)>> \in Tokenizer!TwoCharOps => Tokenizer!Ch(p + 1) # "none"
    BY DEF Tokenizer!TwoCharOps
  <2>3. <<c, Tokenizer!Ch(p + 1)>> \in Tokenizer!TwoCharOps => p + 2 \in p + 1 .. n
    BY <1>1, <1>2, <2>2
  <2>4. Tokenizer!OperatorEnd(p) \in p + 1 .. n
    BY <1>1, <2>3, <1>3 DEF Tokenizer!OperatorEnd
  <2>5. QED
    BY <2>1, <2>4, <1>4 DEF n, TokenTypes
<1>13. CASE /\ c # "quote" /\ c # "'" /\ c \notin Tokenizer!Digits /\ c \notin Tokenizer!Letters \union {"_", "x"}
           /\ c \notin Tokenizer!OneCharOps
  <2>1. r.to = p + 1 /\ r.type \in TokenTypes
    <3>1. CASE c \in Tokenizer!Delimiters
      BY <3>1, <1>13, <1>3, <1>4 DEF Tokenizer!Read, TokenTypes
    <3>2. CASE c \notin Tokenizer!Delimiters
      BY <3>2, <1>13, <1>3, <1>4 DEF Tokenizer!Read, TokenTypes
    <3>3. QED
      BY <3>1, <3>2
  <2>2. QED
    BY <1>1, <2>1, <1>4 DEF n
<1>14. QED
  BY <1>8, <1>9, <1>10, <1>11, <1>12, <1>13

LEMMA TokenizerNumbers ==
  \A set : Tokenizer!Cardinality(set) = Cardinality(set) /\ Tokenizer!Max(set) = Max(set)
<1>1. ASSUME NEW set PROVE Tokenizer!Cardinality(set) = Cardinality(set)
  BY DEF Tokenizer!Cardinality, Cardinality, Tokenizer!IsFiniteSet, IsFiniteSet
<1>2. QED
  BY <1>1 DEF Tokenizer!Max, Max

\* _advance from p to q adds the newlines between them.
LEMMA BreaksAdd ==
  ASSUME Texts, NEW p \in 0 .. Len(source), NEW q \in p .. Len(source)
  PROVE  LET more == Tokenizer!Newlines(p, q) IN
         /\ more \in SUBSET (p .. q - 1) /\ Breaks(q) = Breaks(p) \union {k + 1 : k \in more}
         /\ Cardinality(Breaks(p)) \in Nat /\ Cardinality(more) \in Nat
         /\ Cardinality(Breaks(q)) = Cardinality(Breaks(p)) + Cardinality(more)
<1>1. Len(source) \in Nat /\ p \in Nat /\ q \in Nat /\ p <= q /\ q <= Len(source)
  BY LenProperties DEF Texts
<1>2. PICK more : more = Tokenizer!Newlines(p, q)
  OBVIOUS
<1>3. PICK after : after = {k + 1 : k \in more}
  OBVIOUS
<1>4. more \in SUBSET (p .. q - 1)
  BY <1>2 DEF Tokenizer!Newlines
<1>5. \A k \in p .. q - 1 : k \in more <=> source[k + 1] = "\n"
  <2>1. SUFFICES ASSUME NEW k \in p .. q - 1 PROVE k \in more <=> source[k + 1] = "\n"
    OBVIOUS
  <2>2. k \in Nat /\ k < Len(source)
    BY <1>1
  <2>3. Tokenizer!Ch(k) = source[k + 1]
    BY <2>2, CharactersAre
  <2>4. QED
    BY <2>3, <1>2 DEF Tokenizer!Newlines
<1>6. Breaks(q) = Breaks(p) \union after
  <2>1. ASSUME NEW k \in Breaks(q) PROVE k \in Breaks(p) \union after
    <3>1. k \in 1 .. q /\ source[k] = "\n"
      BY DEF Breaks
    <3>2. CASE k <= p
      BY <3>1, <3>2, <1>1 DEF Breaks
    <3>3. CASE k > p
      <4>1. k - 1 \in p .. q - 1 /\ k - 1 + 1 = k
        BY <3>1, <3>3, <1>1
      <4>2. k - 1 \in more
        BY <3>1, <4>1, <1>5
      <4>3. QED
        BY <4>1, <4>2, <1>3
    <3>4. QED
      BY <3>1, <3>2, <3>3, <1>1
  <2>2. Breaks(p) \subseteq Breaks(q)
    BY <1>1 DEF Breaks
  <2>3. ASSUME NEW k \in more PROVE k + 1 \in Breaks(q)
    <3>1. k \in p .. q - 1 /\ source[k + 1] = "\n"
      BY <1>4, <1>5
    <3>2. k + 1 \in 1 .. q
      BY <3>1, <1>1
    <3>3. QED
      BY <3>1, <3>2 DEF Breaks
  <2>4. QED
    BY <2>1, <2>2, <2>3, <1>3
<1>7. IsFiniteSet(more) /\ IsFiniteSet(Breaks(p)) /\ IsFiniteSet(after) /\ Cardinality(after) = Cardinality(more)
  <2>1. IsFiniteSet(p .. q - 1) /\ IsFiniteSet(1 .. p)
    BY <1>1, FS_Interval
  <2>2. Breaks(p) \in SUBSET (1 .. p)
    BY DEF Breaks
  <2>3. IsFiniteSet(more) /\ IsFiniteSet(Breaks(p))
    BY <2>1, <2>2, <1>4, FS_Subset
  <2>4. PICK f : f = [k \in more |-> k + 1]
    OBVIOUS
  <2>5. \A k \in more : k \in Int
    BY <1>1, <1>4
  <2>6. f \in Bijection(more, after)
    <3>1. f \in [more -> after]
      BY <2>4, <1>3
    <3>2. \A a, b \in more : f[a] = f[b] => a = b
      BY <2>4, <2>5
    <3>3. \A t \in after : \E s \in more : f[s] = t
      BY <2>4, <1>3
    <3>4. QED
      BY <3>1, <3>2, <3>3 DEF Bijection, Injection, Surjection, IsInjective
  <2>7. ExistsBijection(more, after)
    BY <2>6 DEF ExistsBijection
  <2>8. QED
    BY <2>3, <2>7, FS_Bijection
<1>8. Breaks(p) \intersect after = {}
  <2>1. \A k \in more : k + 1 > p /\ k + 1 \in Int
    BY <1>1, <1>4
  <2>2. \A k \in Breaks(p) : k <= p /\ k \in Int
    BY <1>1 DEF Breaks
  <2>3. \A k \in after : k > p /\ k \in Int
    BY <2>1, <1>3
  <2>4. ASSUME NEW k \in Breaks(p), k \in after PROVE FALSE
    BY <2>2, <2>3, <2>4, <1>1
  <2>5. QED
    BY <2>4
<1>9. Cardinality(Breaks(q)) = Cardinality(Breaks(p)) + Cardinality(more)
  <2>1. Cardinality(Breaks(p) \union after) = Cardinality(Breaks(p)) + Cardinality(after) - Cardinality({})
    BY <1>7, <1>8, FS_Union
  <2>2. Cardinality({}) = 0 /\ Cardinality(Breaks(p)) \in Nat /\ Cardinality(after) \in Nat
    BY <1>7, FS_EmptySet, FS_CardinalityType
  <2>3. QED
    BY <2>1, <2>2, <1>6, <1>7
<1>10. QED
  BY <1>2, <1>3, <1>4, <1>6, <1>7, <1>9, FS_CardinalityType

\* Wherever the position goes on to, it is the true one again.
LEMMA PositionMoves ==
  ASSUME Texts, NEW p \in 0 .. Len(source), NEW q \in p .. Len(source), NEW l \in Int, NEW c \in Int, Stands(p, l, c)
  PROVE  LET more == Tokenizer!Newlines(p, q)
             newLine == l + Tokenizer!Cardinality(more)
             newColumn == IF more = {} THEN c + q - p ELSE q - Tokenizer!Max(more)
         IN  newLine \in Int /\ newColumn \in Int /\ Stands(q, newLine, newColumn)
<1>1. Len(source) \in Nat /\ p \in Nat /\ q \in Nat /\ p <= q
  BY LenProperties DEF Texts
<1>2. PICK more : more = Tokenizer!Newlines(p, q)
  OBVIOUS
<1>3. /\ more \in SUBSET (p .. q - 1) /\ Breaks(q) = Breaks(p) \union {k + 1 : k \in more}
      /\ Cardinality(Breaks(p)) \in Nat /\ Cardinality(more) \in Nat
      /\ Cardinality(Breaks(q)) = Cardinality(Breaks(p)) + Cardinality(more)
  BY <1>2, BreaksAdd
<1>4. PICK was : was = Breaks(p) \union {0}
  OBVIOUS
<1>5. PICK is : is = Breaks(q) \union {0}
  OBVIOUS
<1>6. was \in SUBSET (0 .. p) /\ was # {} /\ 0 \in was
  BY <1>1, <1>4 DEF Breaks
<1>7. is = was \union {k + 1 : k \in more}
  BY <1>3, <1>4, <1>5
<1>8. l = 1 + Cardinality(Breaks(p)) /\ c = p + 1 - Max(was)
  BY <1>4 DEF Stands
<1>9. l + Cardinality(more) = 1 + Cardinality(Breaks(q)) /\ l + Cardinality(more) \in Int
  BY <1>3, <1>8
<1>10. CASE more = {}
  <2>1. is = was
    BY <1>7, <1>10
  <2>2. PICK m : m = Max(was)
    OBVIOUS
  <2>5. m \in was
    BY <2>2, <1>1, <1>6, MaxProperty
  <2>6. m \in Int
    BY <2>5, <1>1, <1>6
  <2>3. c + q - p = q + 1 - Max(is) /\ c + q - p \in Int
    BY <2>1, <2>2, <2>6, <1>1, <1>8
  <2>4. QED
    BY <2>3, <1>2, <1>5, <1>9, <1>10, TokenizerNumbers DEF Stands
<1>11. CASE more # {}
  <2>1. PICK m : m = Max(more)
    OBVIOUS
  <2>2. more \in SUBSET (0 .. q)
    BY <1>1, <1>3
  <2>3. m \in more /\ \A k \in more : k <= m
    BY <2>1, <2>2, <1>1, <1>11, MaxProperty
  <2>4. m \in p .. q - 1
    BY <2>3, <1>3
  <2>5. is \in SUBSET (0 .. q) /\ m + 1 \in is
    <3>1. \A k \in more : k + 1 \in 0 .. q
      BY <1>1, <1>3
    <3>2. \A k \in was : k \in 0 .. q
      BY <1>1, <1>6
    <3>3. QED
      BY <3>1, <3>2, <2>3, <1>7
  <2>6. \A k \in is : k <= m + 1
    <3>1. \A k \in more : k + 1 <= m + 1
      BY <2>2, <2>3, <2>4, <1>1
    <3>2. \A k \in was : k <= m + 1
      BY <2>4, <1>1, <1>6
    <3>3. QED
      BY <3>1, <3>2, <1>7
  <2>7. Max(is) = m + 1
    BY <2>5, <2>6, <1>1, MaxProperty
  <2>8. q - m = q + 1 - Max(is) /\ q - m \in Int
    BY <2>4, <2>7, <1>1
  <2>9. QED
    BY <2>1, <2>8, <1>2, <1>5, <1>9, <1>11, TokenizerNumbers DEF Stands
<1>12. QED
  BY <1>10, <1>11

Consumed == IF toks = <<>> THEN 0 ELSE toks[Len(toks)].to

\* How the text between two tokens may begin, and how it may end.
Begins(from, to) == \/ from = to
                    \/ from < to /\ source[from + 1] \in Tokenizer!White
                    \/ from + 1 < to /\ source[from + 1] = "/" /\ source[from + 2] \in {"/", "*"}
Ends(from, to) == from < to /\ to < Len(source) => source[to] \in Tokenizer!White \union {"/"}

\* A token behind one that ends at `from`.
Tiles(from, t) == /\ from <= t.from /\ t.from <= t.to /\ t.to <= at
                  /\ Begins(from, t.from) /\ Ends(from, t.from) /\ Stands(t.from, t.line, t.column)

TokenRecords == [type : TokenTypes, from : Nat, to : Nat, line : Int, column : Int]

\* What has been skipped since the last token goes on in white space or ends a comment.
TokenizerInv == /\ Texts /\ at \in 0 .. Len(source) /\ line \in Int /\ column \in Int /\ toks \in Seq(TokenRecords)
                /\ Consumed <= at /\ Begins(Consumed, at)
                /\ Ends(Consumed, at) \/ source[at + 1] \in Tokenizer!White
                /\ Stands(at, line, column)
                /\ \A i \in 1 .. Len(toks) : Tiles(IF i = 1 THEN 0 ELSE toks[i - 1].to, toks[i])

LEMMA ConsumedIs ==
  ASSUME TokenizerInv
  PROVE  Consumed \in Nat /\ Len(toks) \in Nat /\ Len(source) \in Nat /\ at \in Nat
<1>1. Len(toks) \in Nat /\ Len(source) \in Nat /\ (toks # <<>> => Len(toks) \in 1 .. Len(toks))
  BY LenProperties, EmptySeq DEF TokenizerInv, Texts
<1>2. toks # <<>> => toks[Len(toks)] \in TokenRecords
  BY <1>1, ElementOfSeq DEF TokenizerInv
<1>3. QED
  BY <1>1, <1>2 DEF Consumed, TokenRecords, TokenizerInv

\* A step without a token.
LEMMA SkipKeeps ==
  ASSUME TokenizerInv, NEW q \in at .. Len(source), Tokenizer!Advance(at, q), UNCHANGED <<source, toks>>,
         Begins(Consumed, q), Ends(Consumed, q) \/ source[q + 1] \in Tokenizer!White
  PROVE  TokenizerInv'
<1>1. /\ at' = q /\ source' = source /\ toks' = toks /\ at \in 0 .. Len(source) /\ q \in 0 .. Len(source)
      /\ Len(source) \in Nat /\ at <= q
  BY ConsumedIs DEF TokenizerInv, Tokenizer!Advance
<1>2. line' \in Int /\ column' \in Int /\ Stands(q, line', column')
  BY <1>1, PositionMoves DEF TokenizerInv, Tokenizer!Advance
<1>3. Consumed' = Consumed
  BY <1>1 DEF Consumed
<1>4. Stands(at, line, column)'
  BY <1>1, <1>2 DEF Stands, Breaks
<1>5. ASSUME NEW i \in 1 .. Len(toks) PROVE Tiles(IF i = 1 THEN 0 ELSE toks[i - 1].to, toks[i])'
  <2>1. Tiles(IF i = 1 THEN 0 ELSE toks[i - 1].to, toks[i])
    BY DEF TokenizerInv
  <2>2. toks[i].to \in Nat
    <3>1. toks[i] \in TokenRecords
      BY ElementOfSeq DEF TokenizerInv
    <3>2. QED
      BY <3>1 DEF TokenRecords
  <2>3. toks[i].to <= at'
    BY <1>1, <2>1, <2>2 DEF Tiles
  <2>4. QED
    BY <1>1, <2>1, <2>3 DEF Tiles, Begins, Ends, Stands, Breaks
<1>6. Consumed <= q
  BY <1>1, ConsumedIs DEF TokenizerInv
<1>7. QED
  BY <1>1, <1>2, <1>3, <1>4, <1>5, <1>6 DEF TokenizerInv, Texts, Begins, Ends, Tokenizer!Characters, Tokenizer!White

\* A step that makes a token of the text from p to q.
LEMMA TokenKeeps ==
  ASSUME TokenizerInv, NEW p \in at .. Len(source), NEW q \in p .. Len(source), NEW t \in TokenRecords,
         t.from = p, t.to = q, Stands(p, t.line, t.column), Begins(Consumed, p), Ends(Consumed, p),
         at' = q, line' \in Int, column' \in Int, Stands(q, line', column'),
         toks' = Append(toks, t), source' = source
  PROVE  TokenizerInv'
<1> DEFINE n == Len(toks)
<1>1. n \in Nat /\ Len(source) \in Nat /\ at \in Nat /\ p \in Nat /\ q \in Nat /\ at <= p /\ p <= q /\ Consumed \in Nat
  BY ConsumedIs
<1>2. /\ toks' \in Seq(TokenRecords) /\ Len(toks') = n + 1 /\ toks'[n + 1] = t
      /\ \A i \in 1 .. n : toks'[i] = toks[i]
  BY AppendProperties DEF TokenizerInv
<1>3. toks' # <<>>
  BY <1>1, <1>2, EmptySeq
<1>4. Consumed' = q
  BY <1>2, <1>3 DEF Consumed
<1>5. Consumed <= p
  BY <1>1 DEF TokenizerInv
<1>6. Stands(at, line, column)'
  BY DEF Stands, Breaks
<1>7. Consumed = IF n = 0 THEN 0 ELSE toks[n].to
  <2>1. n = 0 <=> toks = <<>>
    BY EmptySeq DEF TokenizerInv
  <2>2. QED
    BY <2>1 DEF Consumed
<1> HIDE DEF n
<1>8. ASSUME NEW i \in 1 .. n + 1 PROVE Tiles(IF i = 1 THEN 0 ELSE toks[i - 1].to, toks[i])'
  <2>1. CASE i = n + 1
    <3>1. (IF i = 1 THEN 0 ELSE toks'[i - 1].to) = Consumed
      <4>1. CASE n = 0
        BY <2>1, <4>1, <1>7
      <4>2. CASE n # 0
        <5>1. i # 1 /\ i - 1 = n /\ n \in 1 .. n
          BY <2>1, <4>2, <1>1
        <5>2. QED
          BY <4>2, <5>1, <1>2, <1>7
      <4>3. QED
        BY <4>1, <4>2
    <3>2. toks'[i] = t
      BY <2>1, <1>2
    <3>3. PICK c : c = Consumed
      OBVIOUS
    <3>4. (IF i = 1 THEN 0 ELSE toks[i - 1].to)' = c
      BY <3>1, <3>3
    <3>5. c <= t.from /\ t.from <= t.to /\ t.to <= at' /\ Begins(c, t.from) /\ Ends(c, t.from)
      BY <3>3, <1>1, <1>5
    <3>6. Stands(t.from, t.line, t.column)
      OBVIOUS
    <3>7. QED
      BY <3>2, <3>4, <3>5, <3>6 DEF Tiles, Begins, Ends, Stands, Breaks
  <2>2. CASE i # n + 1
    <3>1. i \in 1 .. n /\ toks'[i] = toks[i]
      BY <2>2, <1>1, <1>2
    <3>2. (IF i = 1 THEN 0 ELSE toks'[i - 1].to) = IF i = 1 THEN 0 ELSE toks[i - 1].to
      <4>1. i # 1 => i - 1 \in 1 .. n
        BY <3>1, <1>1
      <4>2. QED
        BY <4>1, <1>2
    <3>3. Tiles(IF i = 1 THEN 0 ELSE toks[i - 1].to, toks[i])
      BY <3>1 DEF TokenizerInv, n
    <3>4. toks[i].to \in Nat
      <4>1. toks[i] \in TokenRecords
        BY <3>1, ElementOfSeq DEF TokenizerInv, n
      <4>2. QED
        BY <4>1 DEF TokenRecords
    <3>5. toks[i].to <= at'
      BY <3>3, <3>4, <1>1 DEF Tiles
    <3>6. QED
      BY <3>1, <3>2, <3>3, <3>5 DEF Tiles, Begins, Ends, Stands, Breaks
  <2>3. QED
    BY <2>1, <2>2
<1>9. QED
  <2>1. Begins(Consumed, at)' /\ Ends(Consumed, at)' /\ Consumed' <= at' /\ at' \in 0 .. Len(source')
    BY <1>1, <1>4 DEF Begins, Ends
  <2>2. Texts'
    BY DEF TokenizerInv, Texts, Tokenizer!Characters
  <2>3. QED
    BY <2>1, <2>2, <1>2, <1>6, <1>8 DEF TokenizerInv

\* Text that was skipped goes on.
LEMMA BeginsOn ==
  ASSUME NEW from \in Nat, NEW to \in Nat, NEW on \in Nat, from < to, to <= on, Begins(from, to)
  PROVE  Begins(from, on)
BY DEF Begins

\* Behind the white space of a step.
LEMMA WhiteSpaceSkipped ==
  ASSUME TokenizerInv, NEW p, p = Tokenizer!RunOf(Tokenizer!White, at)
  PROVE  p \in at .. Len(source) /\ Tokenizer!Ch(p) \notin Tokenizer!White /\ Begins(Consumed, p) /\ Ends(Consumed, p)
<1>1. at \in 0 .. Len(source) /\ Texts /\ Len(source) \in Nat /\ Consumed \in Nat /\ Consumed <= at
  BY ConsumedIs DEF TokenizerInv
<1>2. "none" \notin Tokenizer!White
  BY DEF Tokenizer!White
<1>3. p \in at .. Len(source) /\ Tokenizer!Ch(p) \notin Tokenizer!White /\ \A k \in at .. p - 1 : Tokenizer!Ch(k) \in Tokenizer!White
  BY <1>1, <1>2, RunOfIs
<1>4. \A k \in at .. p - 1 : k + 1 \in 1 .. Len(source) /\ source[k + 1] \in Tokenizer!White
  <2>1. SUFFICES ASSUME NEW k \in at .. p - 1 PROVE k + 1 \in 1 .. Len(source) /\ source[k + 1] \in Tokenizer!White
    OBVIOUS
  <2>2. k \in Nat /\ k < Len(source)
    BY <1>1, <1>3
  <2>3. QED
    BY <2>2, <1>1, <1>3, CharactersAre
<1>5. Begins(Consumed, p)
  <2>1. CASE Consumed = at /\ at < p
    <3>1. at \in at .. p - 1
      BY <2>1, <1>1, <1>3
    <3>2. QED
      BY <2>1, <3>1, <1>4 DEF Begins
  <2>2. CASE Consumed = at /\ at = p
    BY <2>2 DEF Begins
  <2>3. CASE Consumed < at
    <3>1. Begins(Consumed, at) /\ at \in Nat /\ p \in Nat /\ at <= p
      BY <1>1, <1>3 DEF TokenizerInv
    <3>2. QED
      BY <2>3, <3>1, <1>1, BeginsOn
  <2>4. QED
    BY <2>1, <2>2, <2>3, <1>1, <1>3
<1>6. Ends(Consumed, p)
  <2>1. SUFFICES ASSUME Consumed < p, p < Len(source) PROVE source[p] \in Tokenizer!White \union {"/"}
    BY DEF Ends
  <2>2. CASE at < p
    <3>1. p - 1 \in at .. p - 1 /\ p - 1 + 1 = p
      BY <2>2, <1>1, <1>3
    <3>2. QED
      BY <3>1, <1>4
  <2>3. CASE at = p
    <3>1. source[at + 1] \notin Tokenizer!White
      BY <2>1, <2>3, <1>1, <1>3, CharactersAre
    <3>2. QED
      BY <2>1, <2>3, <3>1 DEF TokenizerInv, Ends
  <2>4. QED
    BY <2>2, <2>3, <1>1, <1>3
<1>7. QED
  BY <1>3, <1>5, <1>6

LEMMA ReadNextKeeps ==
  ASSUME TokenizerInv, Tokenizer!ReadNext
  PROVE  TokenizerInv'
<1>1. PICK p : p = Tokenizer!RunOf(Tokenizer!White, at)
  OBVIOUS
<1>2. /\ at \in 0 .. Len(source) /\ Texts /\ Len(source) \in Nat /\ Consumed \in Nat /\ Consumed <= at
      /\ source' = source /\ line \in Int /\ column \in Int /\ Stands(at, line, column)
  BY ConsumedIs DEF TokenizerInv, Tokenizer!ReadNext
<1>3. /\ p \in at .. Len(source) /\ p \in Nat /\ at \in Nat /\ at <= p /\ p <= Len(source)
      /\ Tokenizer!Ch(p) \notin Tokenizer!White /\ Begins(Consumed, p) /\ Ends(Consumed, p)
  BY <1>1, <1>2, WhiteSpaceSkipped
\* A comment starts where a token may not have ended before.
<1>4. ASSUME Tokenizer!Ch(p) = "/", Tokenizer!Ch(p + 1) \in {"/", "*"}, NEW q \in p + 2 .. Len(source)
      PROVE  Begins(Consumed, q)
  <2>1. q \in Nat /\ p < Len(source) /\ p + 1 < Len(source) /\ p + 1 \in Nat /\ p <= q /\ p + 1 < q
    BY <1>2, <1>3, <1>4
  <2>2. source[p + 1] = "/" /\ source[p + 2] \in {"/", "*"}
    BY <2>1, <1>4, <1>3 DEF Tokenizer!Ch
  <2>3. CASE Consumed = p
    BY <2>1, <2>2, <2>3 DEF Begins
  <2>4. CASE Consumed < p
    BY <2>1, <2>4, <1>2, <1>3, BeginsOn
  <2>5. QED
    BY <2>3, <2>4, <1>2, <1>3
<1>5. Tokenizer!Ch(p) = "/" /\ Tokenizer!Ch(p + 1) \in {"/", "*"} => p + 2 \in 0 .. Len(source)
  <2>1. SUFFICES ASSUME Tokenizer!Ch(p + 1) # "none" PROVE p + 2 \in 0 .. Len(source)
    OBVIOUS
  <2>2. p + 1 \in Nat /\ p + 1 < Len(source)
    BY <2>1, <1>2, <1>3, CharactersAre
  <2>3. QED
    BY <2>2, <1>2, <1>3
\* A token of the text from f to t, of what stands there.
<1>6. ASSUME NEW type \in TokenTypes, NEW f \in at .. Len(source), NEW t \in f .. Len(source),
             Begins(Consumed, f), Ends(Consumed, f), Tokenizer!Advance(at, t),
             toks' = Append(toks, Tokenizer!Token(type, f, t))
      PROVE  TokenizerInv'
  <2>1. t \in at .. Len(source) /\ f \in Nat /\ t \in Nat
    BY <1>2, <1>3
  <2>2. at' = t /\ line' \in Int /\ column' \in Int /\ Stands(t, line', column')
    BY <2>1, <1>2, <1>6, PositionMoves DEF Tokenizer!Advance
  <2>3. PICK new : new = Tokenizer!Token(type, f, t)
    OBVIOUS
  <2>4. new = [type |-> type, from |-> f, to |-> t, line |-> Tokenizer!LineAt(f), column |-> Tokenizer!ColumnAt(f)]
    BY <2>3 DEF Tokenizer!Token
  <2>5. Tokenizer!LineAt(f) \in Int /\ Tokenizer!ColumnAt(f) \in Int /\ Stands(f, Tokenizer!LineAt(f), Tokenizer!ColumnAt(f))
    <3>1. Tokenizer!ColumnAt(f) = IF Tokenizer!Newlines(at, f) = {} THEN column + f - at
                                  ELSE f - Tokenizer!Max(Tokenizer!Newlines(at, f))
      BY DEF Tokenizer!ColumnAt
    <3>2. Tokenizer!LineAt(f) = line + Tokenizer!Cardinality(Tokenizer!Newlines(at, f))
      BY DEF Tokenizer!LineAt
    <3>3. QED
      BY <3>1, <3>2, <1>2, PositionMoves
  <2>6. new \in TokenRecords /\ new.from = f /\ new.to = t /\ Stands(f, new.line, new.column)
    BY <2>1, <2>4, <2>5 DEF TokenRecords
  <2>7. QED
    BY <2>2, <2>3, <2>6, <1>2, <1>6, TokenKeeps
<1>7. CASE p = Len(source)
  <2>1. Tokenizer!Advance(at, p) /\ toks' = toks
    BY <1>1, <1>7 DEF Tokenizer!ReadNext
  <2>2. QED
    BY <2>1, <1>2, <1>3, SkipKeeps
<1>8. CASE p # Len(source) /\ Tokenizer!Ch(p) = "/" /\ Tokenizer!Ch(p + 1) = "/"
  <2>1. PICK q : q = Tokenizer!FirstOf({"\n"}, p + 2)
    OBVIOUS
  <2>2. Tokenizer!Advance(at, q) /\ toks' = toks
    BY <1>1, <1>8, <2>1 DEF Tokenizer!ReadNext
  <2>3. q \in p + 2 .. Len(source) /\ Tokenizer!Ch(q) \in {"\n", "none"}
    BY <2>1, <1>2, <1>5, <1>8, FirstOfIs
  <2>4. q \in at .. Len(source) /\ q \in Nat
    BY <2>3, <1>2, <1>3
  <2>5. Ends(Consumed, q) \/ source[q + 1] \in Tokenizer!White
    <3>1. CASE q < Len(source)
      <4>1. Tokenizer!Ch(q) = source[q + 1] /\ Tokenizer!Ch(q) = "\n"
        BY <2>3, <2>4, <3>1, <1>2, CharactersAre
      <4>2. QED
        BY <4>1 DEF Tokenizer!White
    <3>2. CASE ~(q < Len(source))
      BY <3>2 DEF Ends
    <3>3. QED
      BY <3>1, <3>2
  <2>6. Begins(Consumed, q)
    BY <2>3, <1>4, <1>8
  <2>7. QED
    BY <2>2, <2>4, <2>5, <2>6, <1>2, SkipKeeps
<1>9. CASE p # Len(source) /\ Tokenizer!Ch(p) = "/" /\ Tokenizer!Ch(p + 1) = "*" /\ Tokenizer!CommentEnd(p + 2) # -1
  <2>1. PICK q : q = Tokenizer!CommentEnd(p + 2)
    OBVIOUS
  <2>2. Tokenizer!Advance(at, q) /\ toks' = toks
    BY <1>1, <1>9, <2>1 DEF Tokenizer!ReadNext
  <2>3. q \in p + 2 + 2 .. Len(source) /\ source[q] = "/"
    BY <2>1, <1>2, <1>5, <1>9, CommentEndIs
  <2>4. q \in at .. Len(source) /\ q \in p + 2 .. Len(source)
    BY <2>3, <1>2, <1>3
  <2>5. Begins(Consumed, q) /\ Ends(Consumed, q)
    BY <2>3, <2>4, <1>4, <1>9 DEF Ends
  <2>6. QED
    BY <2>2, <2>4, <2>5, <1>2, SkipKeeps
<1>10. CASE p # Len(source) /\ Tokenizer!Ch(p) = "/" /\ Tokenizer!Ch(p + 1) = "*" /\ Tokenizer!CommentEnd(p + 2) = -1
  <2>1. Tokenizer!Advance(at, Len(source)) /\ toks' = Append(toks, Tokenizer!Token("ERROR", Len(source), Len(source)))
    BY <1>1, <1>10 DEF Tokenizer!ReadNext
  <2>2. Len(source) \in p + 2 .. Len(source) /\ Len(source) \in at .. Len(source) /\ Len(source) \in Len(source) .. Len(source)
    BY <1>2, <1>3, <1>5, <1>10
  <2>3. Begins(Consumed, Len(source)) /\ Ends(Consumed, Len(source))
    <3>1. Begins(Consumed, Len(source))
      BY <2>2, <1>4, <1>10
    <3>2. ~(Len(source) < Len(source))
      BY <1>2
    <3>3. QED
      BY <3>1, <3>2 DEF Ends
  <2>4. QED
    BY <2>1, <2>2, <2>3, <1>6 DEF TokenTypes
<1>11. CASE p # Len(source) /\ ~(Tokenizer!Ch(p) = "/" /\ Tokenizer!Ch(p + 1) \in {"/", "*"})
  <2>1. PICK read : read = Tokenizer!Read(p)
    OBVIOUS
  <2>2. PICK q, type : q = read.to /\ type = read.type
    OBVIOUS
  <2>3. Tokenizer!Advance(at, q) /\ toks' = Append(toks, Tokenizer!Token(type, p, q))
    BY <1>1, <1>11, <2>1, <2>2 DEF Tokenizer!ReadNext
  <2>4. q \in p + 1 .. Len(source) /\ type \in TokenTypes
    BY <1>2, <1>3, <1>11, <2>1, <2>2, ReadsOn
  <2>5. q \in p .. Len(source)
    BY <2>4, <1>2, <1>3
  <2>6. QED
    BY <2>3, <2>4, <2>5, <1>3, <1>6
<1>12. QED
  BY <1>7, <1>8, <1>9, <1>10, <1>11

LEMMA FinishKeeps ==
  ASSUME TokenizerInv, Tokenizer!Finish
  PROVE  TokenizerInv'
<1>1. PICK new : new = [type |-> "EOF", from |-> at, to |-> at, line |-> line, column |-> column]
  OBVIOUS
<1>2. /\ at = Len(source) /\ toks' = Append(toks, new) /\ source' = source /\ at' = at /\ line' = line /\ column' = column
  BY <1>1 DEF Tokenizer!Finish
<1>3. at \in at .. Len(source) /\ at \in at .. at /\ at \in Nat
  BY <1>2, ConsumedIs
<1>4. new \in TokenRecords /\ new.from = at /\ new.to = at /\ new.line = line /\ new.column = column
  BY <1>1, <1>3 DEF TokenizerInv, TokenRecords, TokenTypes
<1>5. Begins(Consumed, at) /\ Ends(Consumed, at)
  BY <1>2, <1>3 DEF TokenizerInv, Ends
<1>6. QED
  BY <1>2, <1>3, <1>4, <1>5, TokenKeeps DEF TokenizerInv

LEMMA TokenizerShows ==
  ASSUME TokenizerInv
  PROVE  Tokenizer!PositionsAreTrue /\ Tokenizer!TokensTile
<1>1. Len(toks) \in Nat /\ Len(source) \in Nat /\ at \in Nat /\ at <= Len(source)
  BY ConsumedIs DEF TokenizerInv
<1>2. \A i \in 1 .. Len(toks) : toks[i] \in TokenRecords
  BY ElementOfSeq DEF TokenizerInv
<1>3. \A i \in 1 .. Len(toks) : toks[i].from \in Nat /\ toks[i].to \in Nat
  BY <1>2 DEF TokenRecords
<1>4. Tokenizer!PositionsAreTrue
  <2>1. \A p : 1 + Tokenizer!Cardinality({k \in 1 .. p : source[k] = "\n"}) = 1 + Cardinality(Breaks(p))
    BY TokenizerNumbers DEF Breaks
  <2>2. \A p : p + 1 - Tokenizer!Max({k \in 1 .. p : source[k] = "\n"} \union {0}) = p + 1 - Max(Breaks(p) \union {0})
    BY TokenizerNumbers DEF Breaks
  <2>3. \A i \in 1 .. Len(toks) : Stands(toks[i].from, toks[i].line, toks[i].column)
    BY DEF TokenizerInv, Tiles
  <2>4. Stands(at, line, column)
    BY DEF TokenizerInv
  <2>5. QED
    BY <2>1, <2>2, <2>3, <2>4 DEF Tokenizer!PositionsAreTrue, Stands
<1>5. ASSUME NEW i \in 1 .. Len(toks)
      PROVE  LET from == IF i = 1 THEN 0 ELSE toks[i - 1].to
                 gap == SubSeq(source, from + 1, toks[i].from) IN
             /\ from <= toks[i].from /\ toks[i].to <= at
             /\ gap = <<>> \/ gap[1] \in Tokenizer!White \/ (gap[1] = "/" /\ Len(gap) > 1 /\ gap[2] \in {"/", "*"})
             /\ gap # <<>> /\ toks[i].from < Len(source) => Tokenizer!Last(gap) \in Tokenizer!White \union {"/"}
  <2>1. PICK from : from = IF i = 1 THEN 0 ELSE toks[i - 1].to
    OBVIOUS
  <2>2. PICK to : to = toks[i].from
    OBVIOUS
  <2>3. from \in Nat /\ to \in Nat
    <3>1. i # 1 => i - 1 \in 1 .. Len(toks)
      BY <1>1
    <3>2. QED
      BY <3>1, <2>1, <2>2, <1>3
  <2>4. Tiles(from, toks[i])
    BY <2>1 DEF TokenizerInv
  <2>5. from <= to /\ to <= Len(source) /\ toks[i].to <= at /\ Begins(from, to) /\ Ends(from, to)
    BY <2>2, <2>3, <2>4, <1>1, <1>3 DEF Tiles
  <2>6. PICK gap : gap = SubSeq(source, from + 1, to)
    OBVIOUS
  <2>7. /\ gap \in Seq(Tokenizer!Characters) /\ Len(gap) = to - from
        /\ \A k \in 1 .. to - from : gap[k] = source[from + k]
    <3>1. \A k \in from + 1 .. to : source[k] \in Tokenizer!Characters
      <4>1. \A k \in from + 1 .. to : k \in 1 .. Len(source)
        BY <2>3, <2>5, <1>1
      <4>2. QED
        BY <4>1, ElementOfSeq DEF TokenizerInv, Texts
    <3>2. from + 1 \in Int /\ to \in Int
      BY <2>3
    <3>3. /\ gap \in Seq(Tokenizer!Characters) /\ Len(gap) = IF from + 1 <= to THEN to - (from + 1) + 1 ELSE 0
          /\ \A k \in 1 .. to - (from + 1) + 1 : gap[k] = source[from + 1 + k - 1]
      BY <3>1, <3>2, <2>6, SubSeqProperties
    <3>4. to - (from + 1) + 1 = to - from /\ \A k \in 1 .. to - from : from + 1 + k - 1 = from + k
      BY <2>3
    <3>5. Len(gap) = to - from
      BY <3>3, <2>3, <2>5
    <3>6. ASSUME NEW k \in 1 .. to - from PROVE gap[k] = source[from + k]
      BY <3>3, <3>4
    <3>7. QED
      BY <3>3, <3>5, <3>6
  <2>8. gap # <<>> => from < to
    <3>1. gap # <<>> => Len(gap) \in Nat \ {0}
      BY <2>7, EmptySeq
    <3>2. QED
      BY <3>1, <2>3, <2>7
  <2>9. gap = <<>> \/ gap[1] \in Tokenizer!White \/ (gap[1] = "/" /\ Len(gap) > 1 /\ gap[2] \in {"/", "*"})
    <3>1. CASE from = to
      <4>1. Len(gap) = 0
        BY <3>1, <2>3, <2>7
      <4>2. QED
        BY <4>1, <2>7, EmptySeq
    <3>2. CASE from < to /\ source[from + 1] \in Tokenizer!White
      BY <3>2, <2>3, <2>7
    <3>3. CASE from + 1 < to /\ source[from + 1] = "/" /\ source[from + 2] \in {"/", "*"}
      <4>1. 1 \in 1 .. to - from /\ 2 \in 1 .. to - from /\ to - from > 1
        BY <3>3, <2>3
      <4>2. QED
        BY <3>3, <4>1, <2>7
    <3>4. QED
      BY <3>1, <3>2, <3>3, <2>5 DEF Begins
  <2>10. gap # <<>> /\ to < Len(source) => Tokenizer!Last(gap) \in Tokenizer!White \union {"/"}
    <3>1. SUFFICES ASSUME gap # <<>>, to < Len(source) PROVE Tokenizer!Last(gap) \in Tokenizer!White \union {"/"}
      OBVIOUS
    <3>2. to - from \in 1 .. to - from /\ from + (to - from) = to /\ from < to
      BY <3>1, <2>3, <2>8
    <3>3. Tokenizer!Last(gap) = source[to]
      BY <3>2, <2>7 DEF Tokenizer!Last
    <3>4. QED
      BY <3>1, <3>2, <3>3, <2>5 DEF Ends
  <2>11. QED
    BY <2>1, <2>2, <2>5, <2>6, <2>9, <2>10
<1>6. QED
  BY <1>4, <1>5 DEF Tokenizer!TokensTile

\* Of every source: each token stands at the line and column of its first character,
\* the tokens come in order, and what lies between two of them begins and ends as white
\* space and comments do (_advance, _skip_block_comment and every _read_ of tokenize).
THEOREM TextStaysAccountedFor == Spec => []TextIsAccountedFor
<1> DEFINE Inv == which = "tokenizer" => TokenizerInv
<1>1. Init => Inv
  <2>1. SUFFICES ASSUME Init, which = "tokenizer" PROVE TokenizerInv
    OBVIOUS
  <2>2. source \in Programs /\ at = 0 /\ line = 1 /\ column = 1 /\ toks = <<>>
    BY <2>1 DEF Init, Tokenizer!Init
  <2>3. Texts /\ Len(source) \in Nat /\ Len(toks) = 0 /\ toks \in Seq(TokenRecords)
    BY <2>2, EnginesAssumption, LenProperties, EmptySeq DEF Texts
  <2>4. Stands(0, 1, 1)
    <3>1. Breaks(0) = {}
      BY DEF Breaks
    <3>2. Cardinality(Breaks(0)) = 0
      BY <3>1, FS_EmptySet
    <3>3. PICK zero : zero = {0}
      OBVIOUS
    <3>4. zero \in SUBSET (0 .. 0) /\ zero # {} /\ 0 \in zero /\ \A x \in zero : x <= 0
      BY <3>3
    <3>5. 0 \in Nat
      OBVIOUS
    <3>6. Max(zero) = 0
      BY <3>4, <3>5, MaxProperty
    <3>7. Max(Breaks(0) \union {0}) = 0
      BY <3>1, <3>3, <3>6
    <3>8. QED
      BY <3>2, <3>7 DEF Stands
  <2>5. Consumed = 0
    BY <2>2 DEF Consumed
  <2>6. QED
    BY <2>2, <2>3, <2>4, <2>5 DEF TokenizerInv, Begins, Ends
<1>2. Inv /\ [Next]_vars => Inv'
  <2>1. SUFFICES ASSUME TokenizerInv, which = "tokenizer", [Next]_vars PROVE TokenizerInv'
    BY DEF Next, vars
  <2>2. CASE Tokenizer!Next
    BY <2>1, <2>2, ReadNextKeeps, FinishKeeps DEF Tokenizer!Next
  <2>3. CASE UNCHANGED tokenizerVars
    <3>1. /\ source' = source /\ at' = at /\ line' = line /\ column' = column /\ toks' = toks
      BY <2>3 DEF tokenizerVars
    <3>2. Consumed' = Consumed /\ Texts'
      BY <2>1, <3>1 DEF Consumed, TokenizerInv, Texts, Tokenizer!Characters
    <3>3. Stands(at, line, column)' /\ Begins(Consumed, at)' /\ (Ends(Consumed, at) \/ source[at + 1] \in Tokenizer!White)'
      BY <2>1, <3>1, <3>2 DEF TokenizerInv, Stands, Breaks, Begins, Ends, Tokenizer!White
    <3>4. ASSUME NEW i \in 1 .. Len(toks) PROVE Tiles(IF i = 1 THEN 0 ELSE toks[i - 1].to, toks[i])'
      <4>1. Tiles(IF i = 1 THEN 0 ELSE toks[i - 1].to, toks[i])
        BY <2>1 DEF TokenizerInv
      <4>2. QED
        BY <3>1, <4>1 DEF Tiles, Stands, Breaks, Begins, Ends
    <3>5. QED
      BY <2>1, <3>1, <3>2, <3>3, <3>4 DEF TokenizerInv
  <2>4. QED
    BY <2>1, <2>2, <2>3 DEF Next, vars
<1>3. Inv => TextIsAccountedFor
  BY TokenizerShows DEF TextIsAccountedFor
<1>4. QED
  BY <1>1, <1>2, <1>3, PTL DEF Spec
================================================================================
