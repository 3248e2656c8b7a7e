--------------------------- MODULE KeyboardProofs ---------------------------
(***************************************************************************)
(* Proofs about Keyboard for every buffer size and every set of keys: the  *)
(* ring buffer that handler and keyboard_getchar share without a lock is   *)
(* the queue of CharQueue, and the shift flag cannot get stuck.            *)
(***************************************************************************)
EXTENDS Keyboard, TLAPS

(* Once keyboard_getchar has found the buffer non-empty, only it can empty *)
(* it again; the character it has fetched is still the oldest one.         *)
GetcharInv ==
  /\ pc \in {"fetch", "advance"} => buffer_read # buffer_write
  /\ pc = "advance" => c = keyboard_buffer[buffer_read]

(* No shift key is mentioned on the wire from position i on.               *)
NoShiftFrom(i) == \A j \in i .. Len(wire) : wire[j].key \notin Shifts

(* Shift is on, or is about to be switched on by the last shift scancode   *)
(* on the wire, only if a shift key is down.                               *)
ShiftInv ==
  /\ NoShiftFrom(1) /\ shift_pressed => held # {}
  /\ \A i \in 1 .. Len(wire) :
       wire[i].key \in Shifts /\ ~wire[i].up /\ NoShiftFrom(i + 1) => held # {}

IInv == TypeOK /\ GetcharInv /\ ShiftInv

-----------------------------------------------------------------------------
(* Indices are at most once round the ring.                                *)
LEMMA ModLemma ==
  ASSUME NEW n \in Nat, n > 0, NEW a \in 0 .. 2 * n - 1
  PROVE  a % n = IF a < n THEN a ELSE a - n
<1>1. CASE a < n
  BY <1>1
<1>2. CASE a >= n
  BY <1>2
<1> QED BY <1>1, <1>2

(* How many characters wait.                                               *)
Fill(r, w) == IF w >= r THEN w - r ELSE w - r + N

(* The number of waiting characters is the difference modulo the size.     *)
LEMMA FillLemma ==
  ASSUME NEW r \in 0 .. N - 1, NEW w \in 0 .. N - 1
  PROVE  /\ (w - r + N) % N = Fill(r, w) /\ Fill(r, w) \in 0 .. N - 1
         /\ Fill(r, w) = 0 <=> r = w
<1>1. w - r + N \in 0 .. 2 * N - 1 /\ N \in Nat /\ N > 0
  BY KeyboardAssumption DEF N
<1> QED BY <1>1, ModLemma DEF Fill

(* The cell after a.                                                       *)
LEMMA NextCell ==
  ASSUME NEW a \in 0 .. N - 1
  PROVE  (a + 1) % N = (IF a = N - 1 THEN 0 ELSE a + 1) /\ (a + 1) % N \in 0 .. N - 1
<1>1. a + 1 \in 0 .. 2 * N - 1 /\ N \in Nat /\ N > 1
  BY KeyboardAssumption DEF N
<1> QED BY <1>1, ModLemma

(* The cell of the i-th waiting character.                                 *)
Cell(r, i) == IF r + i - 1 < N THEN r + i - 1 ELSE r + i - 1 - N

(* The cells from buffer_read on hold them, wrapping at the end.           *)
LEMMA CellLemma ==
  ASSUME NEW r \in 0 .. N - 1, NEW i \in 1 .. N
  PROVE  (r + i - 1) % N = Cell(r, i) /\ Cell(r, i) \in 0 .. N - 1
<1>1. r + i - 1 \in 0 .. 2 * N - 1 /\ N \in Nat /\ N > 0
  BY KeyboardAssumption DEF N
<1> QED BY <1>1, ModLemma DEF Cell

(* The abstract queue without its modular arithmetic.                      *)
Queue(buf, r, w) == [i \in 1 .. (w - r + N) % N |-> buf[(r + i - 1) % N]]

(* The abstract queue has one element for each waiting character.          *)
LEMMA QueueShape ==
  ASSUME NEW r \in 0 .. N - 1, NEW w \in 0 .. N - 1,
         NEW buf \in [0 .. N - 1 -> Chars \cup {NoChar}]
  PROVE  /\ Queue(buf, r, w) = [i \in 1 .. Fill(r, w) |-> buf[Cell(r, i)]]
         /\ Queue(buf, r, w) \in Seq(Chars \cup {NoChar})
         /\ Len(Queue(buf, r, w)) = Fill(r, w)
<1> DEFINE L == Fill(r, w)
<1>1. N \in Nat
  BY KeyboardAssumption DEF N
<1>2. (w - r + N) % N = L /\ L \in 0 .. N - 1
  BY <1>1, FillLemma
<1>3. \A i \in 1 .. L : (r + i - 1) % N = Cell(r, i) /\ Cell(r, i) \in 0 .. N - 1
  BY <1>1, <1>2, CellLemma
<1> HIDE DEF L
<1>4. Queue(buf, r, w) = [i \in 1 .. L |-> buf[Cell(r, i)]]
  BY <1>2, <1>3 DEF Queue
<1>5. \A i \in 1 .. L : buf[Cell(r, i)] \in Chars \cup {NoChar}
  BY <1>3
<1>6. L \in Nat
  BY <1>1, <1>2
<1>7. Queue(buf, r, w) \in Seq(Chars \cup {NoChar}) /\ Len(Queue(buf, r, w)) = L
  BY <1>4, <1>5, <1>6
<1> QED BY <1>4, <1>7 DEF L

(* Waiting is such a queue.                                                *)
LEMMA WaitingLemma ==
  ASSUME TypeOK
  PROVE  /\ Waiting = [i \in 1 .. Fill(buffer_read, buffer_write) |->
                         keyboard_buffer[Cell(buffer_read, i)]]
         /\ Waiting \in Seq(Chars \cup {NoChar})
         /\ Len(Waiting) = Fill(buffer_read, buffer_write)
<1>1. Waiting = Queue(keyboard_buffer, buffer_read, buffer_write)
  BY DEF Waiting, Queue
<1> QED BY <1>1, QueueShape DEF TypeOK

(* So is its next value.                                                   *)
LEMMA NextWaitingLemma ==
  ASSUME TypeOK'
  PROVE  Waiting' = [i \in 1 .. Fill(buffer_read', buffer_write') |->
                       keyboard_buffer'[Cell(buffer_read', i)]]
<1>1. Waiting' = Queue(keyboard_buffer', buffer_read', buffer_write')
  BY DEF Waiting, Queue
<1> QED BY <1>1, QueueShape DEF TypeOK

(* The ring starts empty, with no shift held.                              *)
LEMMA InitIInv == Init => IInv
<1> SUFFICES ASSUME Init PROVE IInv
  OBVIOUS
<1>1. /\ keyboard_buffer \in [0 .. N - 1 -> Chars \cup {NoChar}]
      /\ buffer_read \in 0 .. N - 1 /\ buffer_write \in 0 .. N - 1
  BY KeyboardAssumption DEF Init, N
<1>2. wire \in Seq(Scancode) /\ Len(wire) = 0 /\ Len(wire) <= MaxWire
  BY KeyboardAssumption DEF Init
<1>3. /\ shift_pressed \in BOOLEAN /\ capslock_on \in BOOLEAN /\ lost \in BOOLEAN
      /\ ~shift_pressed
  BY DEF Init
<1>4. TypeOK
  BY <1>1, <1>2, <1>3 DEF Init, TypeOK
<1>5. ShiftInv
  BY <1>2, <1>3 DEF ShiftInv
<1> QED BY <1>4, <1>5 DEF Init, IInv, GetcharInv

(* What keyboard_push does to the ring.                                    *)
LEMMA PushLemma ==
  ASSUME IInv, NEW ch \in Chars, keyboard_push(ch)
  PROVE  /\ keyboard_buffer' \in [0 .. N - 1 -> Chars \cup {NoChar}]
         /\ buffer_read' = buffer_read /\ buffer_write' \in 0 .. N - 1
         /\ lost' \in BOOLEAN
         /\ buffer_read # buffer_write => buffer_read' # buffer_write'
         /\ buffer_read # buffer_write =>
              keyboard_buffer'[buffer_read] = keyboard_buffer[buffer_read]
<1>1. (buffer_write + 1) % N \in 0 .. N - 1
  BY NextCell DEF IInv, TypeOK
<1> QED BY <1>1 DEF keyboard_push, IInv, TypeOK, ring

(* A key that is not dead gives a character.                               *)
LEMMA TranslateLemma ==
  ASSUME TypeOK, NEW k \in Letters \cup Symbols
  PROVE  Translate(k) \in Chars
<1>1. k \notin Dead
  BY KeyboardAssumption
<1>2. ASSUME NEW b \in BOOLEAN PROVE keyboard_map(k, b) \in Chars
  BY <1>1 DEF keyboard_map, Chars
<1>3. shift_pressed \in BOOLEAN /\ (~shift_pressed) \in BOOLEAN
  BY DEF TypeOK
<1> QED BY <1>2, <1>3 DEF Translate

(* The head of the wire is consumed.                                       *)
LEMMA ReadLemma ==
  ASSUME TypeOK, NEW s \in Scancode, Read(s)
  PROVE  /\ wire' \in Seq(Scancode) /\ Len(wire') <= MaxWire
         /\ Len(wire) > 0 /\ Len(wire) \in Nat /\ Len(wire') = Len(wire) - 1
         /\ s = wire[1]
         /\ \A i \in 1 .. Len(wire') : wire'[i] = wire[i + 1]
         /\ pc' \in {"test", "hlt", "fetch", "advance"}
         /\ pc' \in {"fetch", "advance"} => pc' = pc
<1>1. wire \in Seq(Scancode) /\ wire # <<>> /\ s = Head(wire) /\ wire' = Tail(wire)
  BY DEF TypeOK, Read
<1>2. /\ Len(wire) \in Nat /\ Len(wire) > 0 /\ wire' \in Seq(Scancode)
      /\ Len(wire') = Len(wire) - 1 /\ s = wire[1]
      /\ \A i \in 1 .. Len(wire') : wire'[i] = wire[i + 1]
  BY <1>1
<1> QED BY <1>2, KeyboardAssumption DEF TypeOK, Read, Woken

(* The user presses or releases a key.                                     *)
LEMMA TypeStep ==
  ASSUME IInv, Type
  PROVE  IInv'
<1>1. PICK s \in Scancode :
        /\ Len(wire) < MaxWire
        /\ s.key \in Shifts => (s.up <=> s.key \in held)
        /\ held' = IF s.key \notin Shifts THEN held
                   ELSE IF s.up THEN held \ {s.key} ELSE held \cup {s.key}
        /\ wire' = Append(wire, s)
        /\ UNCHANGED <<ring, shift_pressed, capslock_on, pc, c, got, lost>>
  BY DEF Type
<1>2. /\ wire' \in Seq(Scancode) /\ Len(wire') = Len(wire) + 1 /\ Len(wire) \in Nat
      /\ wire'[Len(wire) + 1] = s
      /\ \A i \in 1 .. Len(wire) : wire'[i] = wire[i]
  BY <1>1 DEF IInv, TypeOK
<1>3. TypeOK'
  <2>1. held' \subseteq Shifts
    BY <1>1 DEF IInv, TypeOK
  <2>2. Len(wire') <= MaxWire
    BY <1>1, <1>2, KeyboardAssumption
  <2> QED BY <1>1, <1>2, <2>1, <2>2 DEF IInv, TypeOK, ring
<1>4. GetcharInv'
  BY <1>1 DEF IInv, GetcharInv, ring
<1>5. ShiftInv'
  <2>1. CASE s.key \in Shifts /\ ~s.up
    BY <2>1, <1>1 DEF ShiftInv
  <2>2. CASE s.key \in Shifts /\ s.up
    BY <2>2, <1>2 DEF ShiftInv, NoShiftFrom
  <2>3. CASE s.key \notin Shifts
    <3>1. \A i \in 1 .. Len(wire) + 1 : NoShiftFrom(i)' => NoShiftFrom(i)
      BY <1>2 DEF NoShiftFrom
    <3> QED BY <2>3, <3>1, <1>1, <1>2 DEF IInv, ShiftInv
  <2> QED BY <2>1, <2>2, <2>3
<1> QED BY <1>3, <1>4, <1>5 DEF IInv

(* keyboard_handler takes one scancode.                                    *)
LEMMA HandlerStep ==
  ASSUME IInv, keyboard_handler
  PROVE  IInv'
<1>1. PICK s \in Scancode :
        /\ Read(s)
        /\ \/ ShiftDown(s) \/ ShiftUp(s) \/ CapsLock(s) \/ KeyUp(s)
           \/ KeyDown(s) \/ KeyDownDead(s)
        /\ UNCHANGED <<c, got, held>>
  BY DEF keyboard_handler
<1>2. /\ wire' \in Seq(Scancode) /\ Len(wire') <= MaxWire
      /\ Len(wire) > 0 /\ Len(wire) \in Nat /\ Len(wire') = Len(wire) - 1
      /\ s = wire[1]
      /\ \A i \in 1 .. Len(wire') : wire'[i] = wire[i + 1]
      /\ pc' \in {"test", "hlt", "fetch", "advance"}
      /\ pc' \in {"fetch", "advance"} => pc' = pc
  BY <1>1, ReadLemma DEF IInv
<1>3. /\ keyboard_buffer' \in [0 .. N - 1 -> Chars \cup {NoChar}]
      /\ buffer_read' = buffer_read /\ buffer_write' \in 0 .. N - 1
      /\ lost' \in BOOLEAN
      /\ buffer_read # buffer_write => buffer_read' # buffer_write'
      /\ buffer_read # buffer_write =>
           keyboard_buffer'[buffer_read] = keyboard_buffer[buffer_read]
  <2>1. CASE KeyDown(s)
    BY <2>1, PushLemma, TranslateLemma DEF KeyDown, IInv
  <2>2. CASE ~KeyDown(s)
    BY <2>2, <1>1 DEF ShiftDown, ShiftUp, CapsLock, KeyUp, KeyDownDead, ring, IInv, TypeOK
  <2> QED BY <2>1, <2>2
<1>4. /\ shift_pressed' \in BOOLEAN /\ capslock_on' \in BOOLEAN
      /\ s.key \notin Shifts => shift_pressed' = shift_pressed
      /\ s.key \in Shifts /\ s.up => ~shift_pressed'
  <2>1. shift_pressed \in BOOLEAN /\ capslock_on \in BOOLEAN
    BY DEF IInv, TypeOK
  <2>2. s.key = "CAPSLOCK" => s.key \notin Shifts
    BY DEF Shifts
  <2> QED BY <2>1, <2>2, <1>1 DEF ShiftDown, ShiftUp, CapsLock, KeyUp, KeyDown, KeyDownDead
<1>5. TypeOK'
  BY <1>1, <1>2, <1>3, <1>4 DEF IInv, TypeOK
<1>6. GetcharInv'
  BY <1>1, <1>2, <1>3 DEF IInv, GetcharInv
<1>7. ShiftInv'
  <2>1. \A i \in 1 .. Len(wire) : NoShiftFrom(i)' => NoShiftFrom(i + 1)
    <3> SUFFICES ASSUME NEW i \in 1 .. Len(wire), NoShiftFrom(i)',
                        NEW j \in i + 1 .. Len(wire)
                 PROVE  wire[j].key \notin Shifts
      BY DEF NoShiftFrom
    <3>1. j - 1 \in i .. Len(wire') /\ j - 1 \in 1 .. Len(wire') /\ (j - 1) + 1 = j
      BY <1>2
    <3>2. wire'[j - 1] = wire[j]
      BY <3>1, <1>2
    <3> QED BY <3>1, <3>2 DEF NoShiftFrom
  <2>2. NoShiftFrom(1)' /\ shift_pressed' => held' # {}
    <3>1. CASE s.key \in Shifts
      BY <3>1, <2>1, <1>1, <1>2, <1>4 DEF IInv, ShiftInv
    <3>2. CASE s.key \notin Shifts
      <4>1. NoShiftFrom(1)' => NoShiftFrom(1)
        BY <3>2, <2>1, <1>2 DEF NoShiftFrom
      <4> QED BY <3>2, <4>1, <1>1, <1>4 DEF IInv, ShiftInv
    <3> QED BY <3>1, <3>2
  <2>3. ASSUME NEW i \in 1 .. Len(wire'), wire'[i].key \in Shifts, ~wire'[i].up,
               NoShiftFrom(i + 1)'
        PROVE  held' # {}
    <3>1. i + 1 \in 1 .. Len(wire) /\ wire'[i] = wire[i + 1] /\ i + 1 + 1 = i + 2
      BY <1>2
    <3>2. NoShiftFrom(i + 2)
      BY <3>1, <2>1, <2>3
    <3> QED BY <3>1, <3>2, <2>3, <1>1 DEF IInv, ShiftInv
  <2> QED BY <2>2, <2>3 DEF ShiftInv
<1> QED BY <1>5, <1>6, <1>7 DEF IInv

(* The steps of the timer and of keyboard_getchar.                         *)
LEMMA ReaderStep ==
  ASSUME IInv, Tick \/ keyboard_getchar
  PROVE  IInv'
<1>1. UNCHANGED Others /\ UNCHANGED <<keyboard_buffer, buffer_write>>
  BY DEF Tick, keyboard_getchar, TestEmpty, Hlt, TestReady, Fetch, Advance, Others, ring
<1>2. ShiftInv'
  BY <1>1 DEF IInv, ShiftInv, NoShiftFrom, Others
<1>3. (buffer_read + 1) % N \in 0 .. N - 1
  BY NextCell DEF IInv, TypeOK
<1>4. TypeOK' /\ GetcharInv'
  BY <1>1, <1>3 DEF IInv, TypeOK, GetcharInv, Tick, keyboard_getchar, TestEmpty, Hlt,
     TestReady, Fetch, Advance, Others, ring
<1> QED BY <1>2, <1>4 DEF IInv

(* IInv holds in every reachable state.                                    *)
THEOREM KeyboardInvariant == Spec => []IInv
<1>1. Init => IInv
  BY InitIInv
<1>2. ASSUME IInv, [Next]_vars PROVE IInv'
  <2>1. CASE UNCHANGED vars
    <3>1. TypeOK' /\ GetcharInv'
      BY <1>2, <2>1 DEF vars, ring, IInv, TypeOK, GetcharInv
    <3>2. ShiftInv'
      BY <1>2, <2>1 DEF vars, IInv, ShiftInv, NoShiftFrom
    <3> QED BY <3>1, <3>2 DEF IInv
  <2> QED BY <1>2, <2>1, TypeStep, HandlerStep, ReaderStep DEF Next
<1> QED BY <1>1, <1>2, PTL DEF Spec

(* The indices of the ring stay inside it and the locals of                *)
(* keyboard_getchar hold characters.                                       *)
THEOREM TypeCorrect == Spec => []TypeOK
BY KeyboardInvariant, PTL DEF IInv

(* With every key up and every scancode read, shift is off.                *)
THEOREM ShiftReleased == Spec => []ShiftNotStuck
<1>1. IInv => ShiftNotStuck
  BY DEF IInv, TypeOK, ShiftInv, NoShiftFrom, ShiftNotStuck
<1> QED BY <1>1, KeyboardInvariant, PTL

-----------------------------------------------------------------------------
(* The refinement.                                                         *)

(* A push appends to the queue, or finds it full and drops.                *)
LEMMA PushRefines ==
  ASSUME IInv, TypeOK', NEW ch \in Chars, keyboard_push(ch), UNCHANGED got
  PROVE  CQ!Put \/ CQ!Drop
<1> DEFINE r == buffer_read
           w == buffer_write
           L == Fill(r, w)
<1>1. r \in 0 .. N - 1 /\ w \in 0 .. N - 1 /\ N \in Nat /\ N >= 2
  BY KeyboardAssumption DEF IInv, TypeOK, N
<1>2. /\ Waiting = [i \in 1 .. L |-> keyboard_buffer[Cell(r, i)]]
      /\ Waiting \in Seq(Chars \cup {NoChar}) /\ Len(Waiting) = L
  BY WaitingLemma DEF IInv
<1>3. (w + 1) % N = (IF w = N - 1 THEN 0 ELSE w + 1)
  BY <1>1, NextCell
<1>4. CASE (w + 1) % N # r
  <2>1. /\ keyboard_buffer' = [keyboard_buffer EXCEPT ![w] = ch]
        /\ buffer_write' = (w + 1) % N
        /\ UNCHANGED <<buffer_read, lost>>
    BY <1>4 DEF keyboard_push
  <2>2. Fill(r, buffer_write') = L + 1 /\ L + 1 \in 1 .. N - 1 /\ L \in Nat
    BY <1>1, <1>3, <1>4, <2>1 DEF Fill
  <2>3. Waiting' = [i \in 1 .. L + 1 |-> keyboard_buffer'[Cell(r, i)]]
    BY NextWaitingLemma, <2>1, <2>2
  <2>4. \A i \in 1 .. L : /\ Cell(r, i) # w /\ Cell(r, i) \in 0 .. N - 1
    BY <1>1, <2>2 DEF Cell, Fill
  <2>5. Cell(r, L + 1) = w
    BY <1>1, <2>2 DEF Cell, Fill
  <2>6. \A i \in 1 .. L : keyboard_buffer'[Cell(r, i)] = keyboard_buffer[Cell(r, i)]
    BY <2>1, <2>4 DEF IInv, TypeOK
  <2>7. keyboard_buffer'[w] = ch
    BY <2>1, <1>1 DEF IInv, TypeOK
  <2> HIDE DEF L
  <2>8. Waiting' = Append(Waiting, ch)
    <3>1. Append(Waiting, ch) = [i \in 1 .. L + 1 |-> IF i <= L THEN Waiting[i] ELSE ch]
      BY <1>2, <2>2
    <3>2. \A i \in 1 .. L + 1 :
            keyboard_buffer'[Cell(r, i)] = IF i <= L THEN Waiting[i] ELSE ch
      BY <1>2, <2>2, <2>5, <2>6, <2>7
    <3> QED BY <2>3, <3>1, <3>2
  <2>9. Len(Waiting) < N - 1
    BY <1>1, <1>2, <2>2
  <2> QED BY <2>1, <2>8, <2>9 DEF CQ!Put
<1>5. CASE (w + 1) % N = r
  <2>1. lost' = TRUE /\ UNCHANGED ring
    BY <1>5 DEF keyboard_push
  <2>2. L = N - 1
    BY <1>1, <1>3, <1>5 DEF Fill
  <2>3. Waiting' = Waiting
    BY <2>1 DEF Waiting, ring
  <2> QED BY <1>2, <2>1, <2>2, <2>3 DEF CQ!Drop
<1> QED BY <1>4, <1>5

(* keyboard_getchar takes the oldest character.                            *)
LEMMA AdvanceRefines ==
  ASSUME IInv, TypeOK', Advance
  PROVE  CQ!Get
<1> DEFINE r == buffer_read
           w == buffer_write
           L == Fill(r, w)
<1>1. r \in 0 .. N - 1 /\ w \in 0 .. N - 1 /\ N \in Nat /\ N >= 2
  BY KeyboardAssumption DEF IInv, TypeOK, N
<1>2. /\ Waiting = [i \in 1 .. L |-> keyboard_buffer[Cell(r, i)]]
      /\ Waiting \in Seq(Chars \cup {NoChar}) /\ Len(Waiting) = L
  BY WaitingLemma DEF IInv
<1>3. buffer_read' = (IF r = N - 1 THEN 0 ELSE r + 1)
  BY <1>1, NextCell DEF Advance
<1>4. /\ r # w /\ got' = keyboard_buffer[r]
      /\ UNCHANGED <<keyboard_buffer, buffer_write, lost>>
  BY DEF Advance, IInv, GetcharInv, Others
<1>5. Fill(buffer_read', w) = L - 1 /\ L \in 1 .. N - 1
  BY <1>1, <1>3, <1>4 DEF Fill
<1>6. Waiting' = [i \in 1 .. L - 1 |-> keyboard_buffer[Cell(buffer_read', i)]]
  BY NextWaitingLemma, <1>4, <1>5
<1>7. \A i \in 1 .. L - 1 : Cell(buffer_read', i) = Cell(r, i + 1)
  BY <1>1, <1>3, <1>5 DEF Cell
<1>8. Cell(r, 1) = r
  BY <1>1 DEF Cell
<1> HIDE DEF L
<1>9. Waiting # <<>> /\ Head(Waiting) = keyboard_buffer[r]
  BY <1>1, <1>2, <1>5, <1>8
<1>10. Waiting' = Tail(Waiting)
  <2>1. Tail(Waiting) = [i \in 1 .. L - 1 |-> Waiting[i + 1]]
    BY <1>1, <1>2, <1>5
  <2>2. \A i \in 1 .. L - 1 : Waiting[i + 1] = keyboard_buffer[Cell(r, i + 1)]
    BY <1>1, <1>2, <1>5
  <2> QED BY <2>1, <2>2, <1>6, <1>7
<1> QED BY <1>4, <1>9, <1>10 DEF CQ!Get

(* The ring buffer of handler and keyboard_getchar implements the bounded  *)
(* first-in first-out queue, for every buffer size.                        *)
THEOREM RingIsQueue == Spec => ImplementsCharQueue
<1>1. Init => CQ!Init
  <2> SUFFICES ASSUME Init PROVE CQ!Init
    OBVIOUS
  <2>1. TypeOK /\ buffer_read = 0 /\ buffer_write = 0
    BY InitIInv DEF IInv, Init
  <2>2. Waiting = [i \in 1 .. 0 |-> keyboard_buffer[Cell(0, i)]]
    <3>1. Fill(0, 0) = 0
      BY DEF Fill
    <3> QED BY <2>1, <3>1, WaitingLemma
  <2>3. Waiting = <<>>
    BY <2>2
  <2> QED BY <2>3 DEF Init, CQ!Init
<1>2. ASSUME IInv, TypeOK', [Next]_vars
      PROVE  [CQ!Put \/ CQ!Drop \/ CQ!Get]_<<Waiting, got, lost>>
  <2>1. ASSUME UNCHANGED <<ring, got, lost>>
        PROVE  UNCHANGED <<Waiting, got, lost>>
    BY <2>1 DEF Waiting, ring
  <2>2. CASE keyboard_handler
    <3>1. PICK s \in Scancode :
            /\ \/ ShiftDown(s) \/ ShiftUp(s) \/ CapsLock(s) \/ KeyUp(s)
               \/ KeyDown(s) \/ KeyDownDead(s)
            /\ UNCHANGED got
      BY <2>2 DEF keyboard_handler
    <3>2. CASE KeyDown(s)
      <4>1. Translate(s.key) \in Chars /\ keyboard_push(Translate(s.key))
        BY <1>2, <3>2, TranslateLemma DEF KeyDown, IInv
      <4> QED BY <1>2, <3>1, <4>1, PushRefines
    <3>3. CASE ~KeyDown(s)
      BY <3>1, <3>3, <2>1 DEF ShiftDown, ShiftUp, CapsLock, KeyUp, KeyDownDead
    <3> QED BY <3>2, <3>3
  <2>3. CASE Advance
    BY <1>2, <2>3, AdvanceRefines
  <2>4. CASE Type \/ Tick \/ TestEmpty \/ Hlt \/ TestReady \/ Fetch \/ UNCHANGED vars
    BY <2>1, <2>4 DEF Type, Tick, TestEmpty, Hlt, TestReady, Fetch, vars, Others
  <2> QED BY <1>2, <2>2, <2>3, <2>4 DEF Next, keyboard_getchar
<1>3. IInv /\ IInv' /\ [Next]_vars => [CQ!Put \/ CQ!Drop \/ CQ!Get]_<<Waiting, got, lost>>
  BY <1>2 DEF IInv
<1> QED BY <1>1, <1>3, KeyboardInvariant, PTL DEF Spec, ImplementsCharQueue, CQ!Spec
=============================================================================
