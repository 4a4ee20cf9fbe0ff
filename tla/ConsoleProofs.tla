---------------------------- MODULE ConsoleProofs ----------------------------
(***************************************************************************)
(* Proofs about Console, for every size of the ring buffer and the screen, *)
(* every prompt and whatever the commands print.                           *)
(*                                                                         *)
(* The first part shows that the ring buffer is a queue: head and tail     *)
(* stay inside the array (RingInv), and every step of the loop is a step   *)
(* of KeyQueue or leaves the queue alone.  The second shows PromptSafe:    *)
(* the cursor's column stays inside its row, and the cursor stays behind   *)
(* the prompt, which scrolls with it, by what the line holds (LineInv).    *)
(***************************************************************************)
EXTENDS Console, SequenceTheorems, WellFoundedInduction, TLAPS

-----------------------------------------------------------------------------
(* The ring buffer. *)

LEMMA RingSize == RINGBUFFER_SIZE \in Nat /\ RINGBUFFER_SIZE > 1
BY ConsoleAssumption

(* Counting round the ring, at most once. *)
LEMMA RoundTheRing ==
  ASSUME NEW N \in Nat, N > 1, NEW a \in Int
  PROVE  /\ 0 <= a /\ a < N => a % N = a
         /\ N <= a /\ a < N + N => a % N = a - N
         /\ a < 0 /\ 0 <= a + N => a % N = a + N
OBVIOUS

N == RINGBUFFER_SIZE
Index == 0 .. N - 1

(* The characters from tail to head, and the slot of the i-th of them. *)
Count(h, t) == (h - t) % N
Slot(t, i) == (t + i - 1) % N

LEMMA Counted ==
  ASSUME NEW h \in Index, NEW t \in Index
  PROVE  /\ Count(h, t) = IF t <= h THEN h - t ELSE h - t + N
         /\ Count(h, t) \in 0 .. N - 1
         /\ After(h) = IF h = N - 1 THEN 0 ELSE h + 1
         /\ After(h) \in Index
         /\ \A i \in 1 .. N : Slot(t, i) = IF t + i - 1 < N THEN t + i - 1 ELSE t + i - 1 - N
<1> USE RingSize DEF N, Index
<1>1. Count(h, t) = IF t <= h THEN h - t ELSE h - t + N
  BY RoundTheRing DEF Count
<1>2. After(h) = IF h = N - 1 THEN 0 ELSE h + 1
  <2>1. h + 1 \in Int /\ 0 <= h + 1 /\ h + 1 <= N
    OBVIOUS
  <2>2. CASE h + 1 < N
    BY <2>1, <2>2, RoundTheRing DEF After
  <2>3. CASE h + 1 = N
    <3>1. (h + 1) % N = (h + 1) - N
      BY <2>1, <2>3, RoundTheRing
    <3> QED
      BY <2>3, <3>1 DEF After
  <2> QED
    BY <2>1, <2>2, <2>3
<1>3. ASSUME NEW i \in 1 .. N PROVE Slot(t, i) = IF t + i - 1 < N THEN t + i - 1 ELSE t + i - 1 - N
  BY RoundTheRing DEF Slot
<1> QED
  BY <1>1, <1>2, <1>3

(* rb_put: the buffer has room unless head would meet tail; the slot it    *)
(* writes is none of those in use and comes behind them.                   *)
LEMMA PutCounts ==
  ASSUME NEW h \in Index, NEW t \in Index
  PROVE  /\ After(h) # t <=> Count(h, t) < N - 1
         /\ After(h) # t => Count(After(h), t) = Count(h, t) + 1
         /\ Slot(t, Count(h, t) + 1) = h
         /\ \A i \in 1 .. Count(h, t) : Slot(t, i) # h /\ Slot(t, i) \in Index
<1>0. N \in Nat /\ N > 1 /\ h \in 0 .. N - 1 /\ t \in 0 .. N - 1
  BY RingSize DEF N, Index
<1>c. /\ Count(h, t) = IF t <= h THEN h - t ELSE h - t + N
      /\ After(h) = IF h = N - 1 THEN 0 ELSE h + 1
  BY Counted
<1>1. After(h) # t <=> Count(h, t) < N - 1
  BY <1>0, <1>c
<1>2. After(h) # t => Count(After(h), t) = Count(h, t) + 1
  <2>1. CASE h = N - 1
    BY <1>0, <2>1, Counted
  <2>2. CASE h # N - 1
    BY <1>0, <2>2, Counted
  <2> QED
    BY <2>1, <2>2
<1>3. Slot(t, Count(h, t) + 1) = h
  <2>1. Count(h, t) + 1 \in 1 .. N
    BY <1>0, Counted
  <2> QED
    BY <1>0, <2>1, Counted
<1>4. ASSUME NEW i \in 1 .. Count(h, t) PROVE Slot(t, i) # h /\ Slot(t, i) \in Index
  <2>1. i \in 1 .. N
    BY <1>0, Counted
  <2>2. Slot(t, i) = IF t + i - 1 < N THEN t + i - 1 ELSE t + i - 1 - N
    BY <2>1, Counted
  <2> QED
    BY <1>0, <1>c, <2>1, <2>2 DEF Index
<1> QED
  BY <1>1, <1>2, <1>3, <1>4

(* rb_get: the slots behind the first move up by one. *)
LEMMA GetCounts ==
  ASSUME NEW h \in Index, NEW t \in Index, h # t
  PROVE  /\ Count(h, t) > 0
         /\ Count(h, After(t)) = Count(h, t) - 1
         /\ \A i \in 1 .. Count(h, t) - 1 : Slot(After(t), i) = Slot(t, i + 1)
<1>0. N \in Nat /\ N > 1 /\ h \in 0 .. N - 1 /\ t \in 0 .. N - 1
  BY RingSize DEF N, Index
<1>1. Count(h, t) > 0
  BY <1>0, Counted
<1>2. Count(h, After(t)) = Count(h, t) - 1
  <2>1. CASE t = N - 1
    BY <1>0, <2>1, Counted
  <2>2. CASE t # N - 1
    BY <1>0, <2>2, Counted
  <2> QED
    BY <2>1, <2>2
<1>3. ASSUME NEW i \in 1 .. Count(h, t) - 1 PROVE Slot(After(t), i) = Slot(t, i + 1)
  <2>1. i \in 1 .. N /\ i + 1 \in 1 .. N /\ After(t) \in Index /\ After(t) = IF t = N - 1 THEN 0 ELSE t + 1
    BY <1>0, Counted
  <2>2. /\ Slot(After(t), i) = IF After(t) + i - 1 < N THEN After(t) + i - 1 ELSE After(t) + i - 1 - N
        /\ Slot(t, i + 1) = IF t + (i + 1) - 1 < N THEN t + (i + 1) - 1 ELSE t + (i + 1) - 1 - N
    BY <2>1, Counted
  <2> QED
    BY <1>0, <2>1, <2>2
<1> QED
  BY <1>1, <1>2, <1>3

Slots == Chars \cup {EmptySlot}

(* head and tail stay in the array. *)
Rings == [buffer : [Index -> Slots], head : Index, tail : Index]
RingInv == rb \in Rings

(* The characters in the buffer, as the refinement maps them. *)
ContentsOf(r) == [i \in 1 .. Count(r.head, r.tail) |-> r.buffer[Slot(r.tail, i)]]
Contents == ContentsOf(rb)

LEMMA RingFields ==
  ASSUME NEW r \in Rings
  PROVE  /\ r.head \in Index /\ r.tail \in Index
         /\ r.buffer \in [Index -> Slots]
         /\ Count(r.head, r.tail) \in Nat
         /\ Len(ContentsOf(r)) = Count(r.head, r.tail)
         /\ ContentsOf(r) \in Seq(Slots)
<1> DEFINE n == Count(r.head, r.tail)
<1>1. r.head \in Index /\ r.tail \in Index /\ r.buffer \in [Index -> Slots]
  BY DEF Rings
<1>2. n \in Nat
  <2>1. n \in 0 .. N - 1 /\ N \in Nat
    BY <1>1, Counted, RingSize DEF N
  <2> QED
    BY <2>1
<1>3. \A i \in 1 .. n : r.buffer[Slot(r.tail, i)] \in Slots
  BY <1>1, PutCounts
<1> HIDE DEF n
<1>4. ContentsOf(r) = [i \in 1 .. n |-> r.buffer[Slot(r.tail, i)]]
  BY DEF ContentsOf, n
<1>5. ContentsOf(r) \in Seq(Slots)
  BY <1>2, <1>3, <1>4
<1>6. Len(ContentsOf(r)) = n
  BY <1>2, <1>4, <1>5
<1> QED
  BY <1>1, <1>2, <1>5, <1>6 DEF n

LEMMA InitRing == Init => RingInv /\ Queue!Init
<1> SUFFICES ASSUME Init PROVE RingInv /\ Queue!Init
  OBVIOUS
<1>0. N \in Nat /\ N > 1 /\ 0 \in Index
  BY RingSize DEF N, Index
<1>1. rb = [buffer |-> [i \in Index |-> EmptySlot], head |-> 0, tail |-> 0] /\ kept = TRUE
  BY DEF Init, rb_init, Index, N
<1>2. RingInv
  BY <1>0, <1>1 DEF RingInv, Rings, Slots
<1>3. Count(rb.head, rb.tail) = 0
  BY <1>0, <1>1, Counted
<1>4. Contents = <<>>
  BY <1>3 DEF Contents, ContentsOf
<1> QED
  BY <1>1, <1>2, <1>4 DEF Queue!Init, Contents, ContentsOf, Used, Count, Slot, N

(* rb_put is the queue's Put. *)
LEMMA PutStep ==
  ASSUME RingInv, NEW c \in Chars, rb_put(c)
  PROVE  RingInv' /\ Queue!Put(c)
<1> DEFINE h == rb.head
           t == rb.tail
           n == Count(h, t)
<1>1. /\ h \in Index /\ t \in Index /\ rb.buffer \in [Index -> Slots]
      /\ n \in Nat /\ Len(Contents) = n /\ Contents \in Seq(Slots)
  BY RingFields DEF RingInv, Contents
<1>2. After(h) \in Index
  BY <1>1, Counted
<1>3. /\ After(h) # t <=> n < N - 1
      /\ After(h) # t => Count(After(h), t) = n + 1
      /\ Slot(t, n + 1) = h
      /\ \A i \in 1 .. n : Slot(t, i) # h /\ Slot(t, i) \in Index
  BY <1>1, PutCounts
<1>4. kept' = (Len(Contents) < RINGBUFFER_SIZE - 1)
  <2>1. kept' = (After(h) # t)
    BY Zenon DEF rb_put
  <2>2. (After(h) # t) = (Len(Contents) < RINGBUFFER_SIZE - 1)
    BY <1>1, <1>3 DEF N
  <2> QED
    BY <2>1, <2>2, Zenon
<1>5. CASE After(h) # t
  <2>1. kept' = TRUE
    BY <1>5, Zenon DEF rb_put
  <2>2. rb' = [rb EXCEPT !.buffer[rb.head] = c, !.head = After(rb.head)]
    BY <2>1 DEF rb_put
  <2>3. /\ rb'.head = After(h) /\ rb'.tail = t /\ rb'.buffer = [rb.buffer EXCEPT ![h] = c]
        /\ RingInv'
    BY <1>1, <1>2, <2>2 DEF RingInv, Rings, Slots
  <2> HIDE DEF h, t
  <2>4. Contents' = [i \in 1 .. n + 1 |-> rb'.buffer[Slot(t, i)]]
    BY <1>3, <1>5, <2>3 DEF Contents, ContentsOf
  <2>5. \A i \in 1 .. n + 1 : rb'.buffer[Slot(t, i)] = IF i = n + 1 THEN c ELSE rb.buffer[Slot(t, i)]
    BY <1>1, <1>3, <2>3
  <2>6. Contents = [i \in 1 .. n |-> rb.buffer[Slot(t, i)]]
    BY DEF Contents, ContentsOf, h, t
  <2> HIDE DEF n
  <2>7. Contents' \in Seq(Slots) /\ Len(Contents') = n + 1
    BY <1>1, <2>3, <2>4, RingFields DEF RingInv, Contents
  <2>8. Contents' = Append(Contents, c)
    <3>1. /\ c \in Slots /\ Append(Contents, c) \in Seq(Slots) /\ Len(Append(Contents, c)) = n + 1
          /\ \A i \in 1 .. n : Append(Contents, c)[i] = Contents[i]
          /\ Append(Contents, c)[n + 1] = c
      BY <1>1, AppendProperties DEF Slots
    <3>2. \A i \in 1 .. n + 1 : Contents'[i] = Append(Contents, c)[i]
      <4> TAKE i \in 1 .. n + 1
      <4>1. CASE i = n + 1
        BY <2>4, <2>5, <3>1, <4>1
      <4>2. CASE i # n + 1
        <5>1. i \in 1 .. n
          BY <1>1, <4>2
        <5> QED
          BY <2>4, <2>5, <2>6, <3>1, <4>2, <5>1
      <4> QED
        BY <4>1, <4>2
    <3> QED
      BY <2>7, <3>1, <3>2, SeqEqual
  <2> QED
    BY <1>4, <2>1, <2>3, <2>8 DEF Queue!Put, Contents, ContentsOf, Used, Count, Slot, N
<1>6. CASE After(h) = t
  <2>1. kept' = FALSE
    BY <1>6, Zenon DEF rb_put
  <2>2. rb' = rb
    BY <2>1 DEF rb_put
  <2>3. Contents' = Contents /\ RingInv'
    BY <2>2 DEF Contents, RingInv
  <2> QED
    BY <1>4, <2>1, <2>3 DEF Queue!Put, Contents, ContentsOf, Used, Count, Slot, N
<1> QED
  BY <1>5, <1>6

(* rb_get is the queue's Get, whatever character it finds. *)
LEMMA GetStep ==
  ASSUME RingInv, NEW c, rb_get(c), kept' = kept
  PROVE  RingInv' /\ Queue!Get
<1> DEFINE h == rb.head
           t == rb.tail
           n == Count(h, t)
<1>1. /\ h \in Index /\ t \in Index
      /\ n \in Nat /\ Len(Contents) = n /\ Contents \in Seq(Slots)
  BY RingFields DEF RingInv, Contents
<1>2. After(t) \in Index
  BY <1>1, Counted
<1>3. /\ n > 0 /\ Count(h, After(t)) = n - 1
      /\ \A i \in 1 .. n - 1 : Slot(After(t), i) = Slot(t, i + 1)
  BY <1>1, GetCounts DEF rb_get, rb_empty
<1>4. rb'.head = h /\ rb'.tail = After(t) /\ rb'.buffer = rb.buffer /\ RingInv'
  BY <1>2 DEF rb_get, RingInv, Rings
<1> HIDE DEF h, t
<1>5. Contents' = [i \in 1 .. n - 1 |-> rb.buffer[Slot(t, i + 1)]]
  BY <1>3, <1>4 DEF Contents, ContentsOf
<1>6. Contents = [i \in 1 .. n |-> rb.buffer[Slot(t, i)]]
  BY DEF Contents, ContentsOf, h, t
<1> HIDE DEF n
<1>7. Contents # <<>>
  BY <1>1, <1>3
<1>8. Contents' \in Seq(Slots) /\ Len(Contents') = n - 1
  BY <1>1, <1>3, <1>4, <1>5, RingFields DEF RingInv, Contents
<1>9. Contents' = Tail(Contents)
  <2>1. /\ Tail(Contents) \in Seq(Slots) /\ Len(Tail(Contents)) = n - 1
        /\ \A i \in 1 .. n - 1 : Tail(Contents)[i] = Contents[i + 1]
    BY <1>1, <1>7, HeadTailProperties
  <2>2. \A i \in 1 .. n - 1 : i + 1 \in 1 .. n
    BY <1>1
  <2>3. \A i \in 1 .. n - 1 : Contents'[i] = Tail(Contents)[i]
    BY <1>5, <1>6, <2>1, <2>2
  <2> QED
    BY <1>8, <2>1, <2>3, SeqEqual
<1> QED
  BY <1>4, <1>7, <1>9 DEF Queue!Get, Contents, ContentsOf, Used, Count, Slot, N

LEMMA NextRing ==
  ASSUME RingInv, [Next]_vars
  PROVE  RingInv' /\ (Queue!Next \/ UNCHANGED <<Contents, kept>>)
<1>1. ASSUME UNCHANGED <<rb, kept>> PROVE RingInv' /\ UNCHANGED <<Contents, kept>>
  BY <1>1 DEF RingInv, Contents
<1>2. ASSUME NEW c, rb_get(c), kept' = kept PROVE RingInv' /\ Queue!Next
  BY <1>2, GetStep DEF Queue!Next
<1>3. CASE PollKey
  <2> DEFINE k == Head(kbc)
  <2>1. UNCHANGED <<rb, kept>> \/ (k \in {"letter", "enter", "back", "tab"} /\ rb_put(Decoded(k)))
    BY <1>3 DEF PollKey
  <2>2. k \in {"letter", "enter", "back", "tab"} => Decoded(k) \in Chars
    BY DEF Decoded, Chars, scancode_ascii, scancode_ascii_shift
  <2>3. CASE k \in {"letter", "enter", "back", "tab"} /\ rb_put(Decoded(k))
    <3> DEFINE c == Decoded(k)
    <3>1. c \in Chars /\ rb_put(c)
      BY <2>2, <2>3
    <3> HIDE DEF c
    <3> QED
      BY <3>1, PutStep DEF Queue!Next
  <2> QED
    BY <1>1, <2>1, <2>3
<1>4. CASE Enter
  BY <1>2, <1>4 DEF Enter, Handled
<1>5. CASE LeaveShell
  BY <1>2, <1>5 DEF LeaveShell
<1>6. CASE Backspace
  BY <1>2, <1>6 DEF Backspace, Handled
<1>7. CASE Letter \/ Ignored
  BY <1>2, <1>7 DEF Letter, Ignored, Handled
<1>8. CASE Boot \/ PollDone \/ Blink \/ Wake \/ \E k \in Scancodes : KeyArrives(k)
  BY <1>1, <1>8 DEF Boot, PollDone, Blink, Wake, KeyArrives
<1>9. CASE UNCHANGED vars
  BY <1>1, <1>9 DEF vars
<1> QED
  BY <1>3, <1>4, <1>5, <1>6, <1>7, <1>8, <1>9 DEF Next, Loop

(* The ring buffer of ringbuffer.c is a queue of RINGBUFFER_SIZE - 1       *)
(* characters, for every size: what keyboard_poll puts in comes out in     *)
(* order, once, and is dropped only when the queue is full.                *)
THEOREM RingBufferIsQueue == Spec => RefinesQueue
<1>1. Init => RingInv /\ Queue!Init
  BY InitRing
<1>2. RingInv /\ [Next]_vars => RingInv'
  BY NextRing
<1> DEFINE q == [i \in 1 .. Used |-> rb.buffer[(rb.tail + i - 1) % RINGBUFFER_SIZE]]
<1>3. RingInv /\ [Next]_vars => [Queue!Next]_<<q, kept>>
  BY NextRing DEF Contents, ContentsOf, Used, Count, Slot, N
<1> QED
  BY <1>1, <1>2, <1>3, PTL DEF Spec, RefinesQueue, Queue!Spec

-----------------------------------------------------------------------------
(* The screen. *)

(* A set of numbers that is not empty has a least one. *)
LEMMA LeastNumber ==
  ASSUME NEW S \in SUBSET Nat, S # {}
  PROVE  \E x \in S : \A y \in S : x <= y
<1> DEFINE R == OpToRel(<, Nat)
<1>1. IsWellFoundedOn(R, Nat)
  BY NatLessThanWellFounded
<1>2. PICK x \in S : \A y \in S : ~ (<<y, x>> \in R)
  <2> HIDE DEF R
  <2> QED
    BY <1>1, WFMin
<1>3. \A y \in S : ~(y < x)
  BY <1>2 DEF OpToRel
<1> QED
  BY <1>3

(* Screens whose cursor stands in a column; it may be below the last row. *)
Columns == 0 .. COLS - 1
Blocks == SUBSET (Int \X Int)
Screens == [x : Columns, y : Int, home : Int, painted : Blocks]

(* The characters between the prompt and the cursor. *)
Typed(s) == Place(s) - s.home

LEMMA Rows ==
  ASSUME NEW y \in Int
  PROVE  /\ y * COLS \in Int
         /\ (y + 1) * COLS = y * COLS + COLS
         /\ (y - 1) * COLS = y * COLS - COLS
BY ConsoleAssumption

LEMMA ScreenFields ==
  ASSUME NEW s \in Screens
  PROVE  /\ COLS \in Nat /\ COLS > 1
         /\ s.x \in 0 .. COLS - 1 /\ s.y \in Int /\ s.home \in Int
         /\ Place(s) \in Int /\ Typed(s) \in Int
<1>1. COLS \in Nat /\ COLS > 1
  BY ConsoleAssumption
<1>2. s.x \in 0 .. COLS - 1 /\ s.y \in Int /\ s.home \in Int
  BY DEF Screens, Columns
<1>3. s.y * COLS \in Int
  BY <1>2, Rows
<1> QED
  BY <1>1, <1>2, <1>3 DEF Place, Typed

LEMMA NewLineFacts ==
  ASSUME NEW s \in Screens
  PROVE  /\ NewLine(s) \in Screens
         /\ NewLine(s).x = 0 /\ NewLine(s).y = s.y + 1 /\ NewLine(s).home = s.home
<1>1. 0 \in Columns /\ s.y + 1 \in Int
  BY ScreenFields DEF Columns
<1> QED
  BY <1>1 DEF Screens, NewLine

LEMMA ScrollFacts ==
  ASSUME NEW s \in Screens
  PROVE  Scroll(s) \in Screens /\ Typed(Scroll(s)) = Typed(s)
<1> DEFINE moved == {<<p[1], p[2] - 1>> : p \in {q \in s.painted : q[2] > 0}}
<1>1. moved \in Blocks
  BY DEF Screens, Blocks
<1>2. s.y - 1 \in Int /\ s.home - COLS \in Int
  BY ScreenFields
<1>4. Scroll(s) = [s EXCEPT !.y = @ - 1, !.home = @ - COLS, !.painted = moved]
  BY DEF Scroll, Screens
<1> HIDE DEF moved
<1>5. /\ Scroll(s) \in Screens
      /\ Scroll(s).x = s.x /\ Scroll(s).y = s.y - 1 /\ Scroll(s).home = s.home - COLS
  BY <1>1, <1>2, <1>4 DEF Screens
<1>3. (s.y - 1) * COLS = s.y * COLS - COLS /\ s.y * COLS \in Int
  BY ScreenFields, Rows
<1> QED
  BY <1>5, <1>3, ScreenFields DEF Typed, Place

(* A character moves the cursor by one place, also round the end of a row  *)
(* and when the screen scrolls under it.                                   *)
LEMMA PutCharFacts ==
  ASSUME NEW s \in Screens
  PROVE  /\ put_char_with_cursor_lim(s) \in Screens
         /\ Typed(put_char_with_cursor_lim(s)) = Typed(s) + 1
<1> DEFINE n == IF s.x + 2 > COLS THEN NewLine(s) ELSE [s EXCEPT !.x = @ + 1]
<1>1. n \in Screens /\ Typed(n) = Typed(s) + 1
  <2>1. CASE s.x + 2 > COLS
    <3>1. n \in Screens /\ n.x = 0 /\ n.y = s.y + 1 /\ n.home = s.home
      BY <2>1, NewLineFacts
    <3>2. s.x = COLS - 1
      BY <2>1, ScreenFields
    <3>3. (s.y + 1) * COLS = s.y * COLS + COLS /\ s.y * COLS \in Int
      BY ScreenFields, Rows
    <3> QED
      BY <3>1, <3>2, <3>3, ScreenFields DEF Typed, Place
  <2>2. CASE ~(s.x + 2 > COLS)
    <3>1. n \in Screens /\ n.x = s.x + 1 /\ n.y = s.y /\ n.home = s.home
      <4>1. s.x + 1 \in Columns
        BY <2>2, ScreenFields DEF Columns
      <4> QED
        BY <2>2, <4>1 DEF Screens
    <3>3. s.y * COLS \in Int
      BY ScreenFields, Rows
    <3> QED
      BY <3>1, <3>3, ScreenFields DEF Typed, Place
  <2> QED
    BY <2>1, <2>2
<1> HIDE DEF n
<1>2. put_char_with_cursor_lim(s) = IF n.y + 1 > ROWS THEN Scroll(n) ELSE n
  BY DEF put_char_with_cursor_lim, n
<1> QED
  BY <1>1, <1>2, ScrollFacts

(* The cursor moves back by one place at most. *)
LEMMA CursorLeftFacts ==
  ASSUME NEW s \in Screens
  PROVE  CursorLeft(s) \in Screens /\ Typed(CursorLeft(s)) >= Typed(s) - 1
<1>1. CASE s.x >= 1
  <2>1. /\ CursorLeft(s) \in Screens /\ CursorLeft(s).x = s.x - 1
        /\ CursorLeft(s).y = s.y /\ CursorLeft(s).home = s.home
    <3>1. s.x - 1 \in Columns
      BY <1>1, ScreenFields DEF Columns
    <3> QED
      BY <1>1, <3>1 DEF Screens, CursorLeft
  <2>2. s.y * COLS \in Int
    BY ScreenFields, Rows
  <2> QED
    BY <2>1, <2>2, ScreenFields DEF Typed, Place
<1>2. CASE ~(s.x >= 1) /\ s.y > 0
  <2>1. /\ CursorLeft(s) \in Screens /\ CursorLeft(s).x = COLS - 1
        /\ CursorLeft(s).y = s.y - 1 /\ CursorLeft(s).home = s.home
    <3>1. COLS - 1 \in Columns /\ s.y - 1 \in Int
      BY ScreenFields DEF Columns
    <3> QED
      BY <1>2, <3>1 DEF Screens, CursorLeft
  <2>2. s.x = 0
    BY <1>2, ScreenFields
  <2>3. (s.y - 1) * COLS = s.y * COLS - COLS /\ s.y * COLS \in Int
    BY ScreenFields, Rows
  <2> QED
    BY <2>1, <2>2, <2>3, ScreenFields DEF Typed, Place
<1>3. CASE ~(s.x >= 1) /\ ~(s.y > 0)
  BY <1>3, ScreenFields DEF CursorLeft
<1> QED
  BY <1>1, <1>2, <1>3

LEMMA BlockFacts ==
  ASSUME NEW s \in Screens
  PROVE  /\ render_cursor_lim(s) \in Screens /\ Typed(render_cursor_lim(s)) = Typed(s)
         /\ clear_cursor_lim(s) \in Screens /\ Typed(clear_cursor_lim(s)) = Typed(s)
<1>1. At(s) \in Int \X Int
  BY ScreenFields DEF At
<1> QED
  BY <1>1 DEF Screens, Blocks, render_cursor_lim, clear_cursor_lim, Typed, Place

(* kprint prints one character after the other. *)
PrintChar(t, c) == IF c = "n" THEN NewLine(t) ELSE put_char_with_cursor_lim(t)

LEMMA PrintCharFacts ==
  ASSUME NEW t \in Screens, NEW c
  PROVE  PrintChar(t, c) \in Screens
BY NewLineFacts, PutCharFacts DEF PrintChar

LEMMA MaxOfPrefix ==
  ASSUME NEW k \in Nat, NEW S \in SUBSET (1 .. k), k \in S
  PROVE  Max(S) = k /\ S \ {k} \in SUBSET (1 .. k - 1)
<1>1. \E x \in S : \A y \in S : x >= y
  OBVIOUS
<1>2. Max(S) \in S /\ \A y \in S : Max(S) >= y
  BY <1>1, Zenon DEF Max
<1>3. Max(S) \in 1 .. k /\ Max(S) >= k
  BY <1>2
<1>4. Max(S) = k
  BY <1>3
<1>5. S \ {k} \in SUBSET (1 .. k - 1)
  OBVIOUS
<1> QED
  BY <1>4, <1>5

(* The fold that defines kprint, and why there is a function that          *)
(* satisfies its equation: one for the first k characters extends to one   *)
(* for the first k + 1.                                                    *)
LEMMA KprintScreens ==
  ASSUME NEW s \in Screens, NEW C, NEW text \in Seq(C)
  PROVE  kprint(s, text) \in Screens
<1> DEFINE Eq(g, D) == g = [S \in SUBSET D |->
                              IF S = {} THEN s ELSE PrintChar(g[S \ {Max(S)}], text[Max(S)])]
           It == CHOOSE g : Eq(g, DOMAIN text)
           n == Len(text)
           T == {k \in 0 .. n : ~ \E g : Eq(g, 1 .. k)}
           U == {k \in 0 .. n : ~ \A S \in SUBSET (1 .. k) : It[S] \in Screens}
<1>1. kprint(s, text) = It[DOMAIN text]
  BY Zenon DEF kprint, FoldLeft, MapThenFoldSet, PrintChar
<1>2. n \in Nat /\ DOMAIN text = 1 .. n
  BY LenProperties
<1> HIDE DEF n
<1>3. T = {}
  <2> SUFFICES ASSUME T # {} PROVE FALSE
    OBVIOUS
  <2>1. PICK k \in T : \A j \in T : k <= j
    <3>1. T \in SUBSET Nat
      BY <1>2
    <3> HIDE DEF T
    <3> QED
      BY <3>1, LeastNumber
  <2>2. k \in 0 .. n /\ ~ \E g : Eq(g, 1 .. k)
    OBVIOUS
  <2>3. k # 0
    <3>1. Eq([S \in SUBSET (1 .. 0) |-> s], 1 .. 0)
      <4>1. \A S \in SUBSET (1 .. 0) : S = {}
        OBVIOUS
      <4> QED
        BY <4>1
    <3> QED
      BY <2>2, <3>1
  <2>4. k - 1 \in 0 .. n /\ k \in Nat /\ ~(k <= k - 1)
    BY <1>2, <2>2, <2>3
  <2>5. PICK g : Eq(g, 1 .. k - 1)
    BY <2>1, <2>4
  <2> DEFINE h == [S \in SUBSET (1 .. k) |->
                     IF k \in S THEN PrintChar(g[S \ {k}], text[k]) ELSE g[S]]
  <2>6. ASSUME NEW S \in SUBSET (1 .. k)
        PROVE  h[S] = IF S = {} THEN s ELSE PrintChar(h[S \ {Max(S)}], text[Max(S)])
    <3>1. CASE k \in S
      <4>1. Max(S) = k /\ S \ {k} \in SUBSET (1 .. k)
        BY <2>4, <3>1, MaxOfPrefix
      <4>2. h[S \ {k}] = g[S \ {k}]
        BY <4>1
      <4> QED
        BY <3>1, <4>1, <4>2
    <3>2. CASE k \notin S
      <4>1. S \in SUBSET (1 .. k - 1)
        BY <2>4, <3>2
      <4>2. h[S] = g[S] /\ h[S \ {Max(S)}] = g[S \ {Max(S)}]
        <5>1. S \ {Max(S)} \in SUBSET (1 .. k) /\ k \notin S \ {Max(S)}
          BY <3>2
        <5> QED
          BY <3>2, <5>1
      <4>3. g[S] = IF S = {} THEN s ELSE PrintChar(g[S \ {Max(S)}], text[Max(S)])
        BY <2>5, <4>1
      <4> QED
        BY <4>2, <4>3
    <3> QED
      BY <3>1, <3>2
  <2>7. Eq(h, 1 .. k)
    <3>1. h = [S \in SUBSET (1 .. k) |-> h[S]]
      OBVIOUS
    <3> HIDE DEF h
    <3> QED
      BY <2>6, <3>1
  <2> QED
    BY <2>2, <2>7
<1>4. Eq(It, 1 .. n)
  <2>1. \E g : Eq(g, DOMAIN text)
    <3>1. n \in 0 .. n
      BY <1>2
    <3>2. \E g : Eq(g, 1 .. n)
      BY <1>3, <3>1, Zenon
    <3> HIDE DEF Eq
    <3> QED
      BY <1>2, <3>2
  <2>2. Eq(It, DOMAIN text)
    BY <2>1, Zenon
  <2> QED
    BY <1>2, <2>2
<1> HIDE DEF It
<1>5. U = {}
  <2> SUFFICES ASSUME U # {} PROVE FALSE
    OBVIOUS
  <2>1. PICK k \in U : \A j \in U : k <= j
    <3>1. U \in SUBSET Nat
      BY <1>2
    <3> HIDE DEF U
    <3> QED
      BY <3>1, LeastNumber
  <2>2. PICK S \in SUBSET (1 .. k) : It[S] \notin Screens
    OBVIOUS
  <2>3. k \in 0 .. n /\ S \in SUBSET (1 .. n)
    BY <1>2
  <2>4. It[S] = IF S = {} THEN s ELSE PrintChar(It[S \ {Max(S)}], text[Max(S)])
    BY <1>4, <2>3
  <2>5. S # {} /\ k # 0
    BY <2>2, <2>4
  <2>6. k - 1 \in 0 .. n /\ k \in Nat /\ ~(k <= k - 1)
    BY <1>2, <2>3, <2>5
  <2>7. \A R \in SUBSET (1 .. k - 1) : It[R] \in Screens
    BY <2>1, <2>6
  <2>8. k \in S
    BY <2>2, <2>6, <2>7
  <2>9. Max(S) = k /\ S \ {k} \in SUBSET (1 .. k - 1)
    BY <2>6, <2>8, MaxOfPrefix
  <2> QED
    BY <2>2, <2>4, <2>5, <2>7, <2>9, PrintCharFacts
<1>6. It[1 .. n] \in Screens
  <2>1. n \in 0 .. n
    BY <1>2
  <2>2. \A S \in SUBSET (1 .. n) : It[S] \in Screens
    BY <1>5, <2>1, Zenon
  <2> QED
    BY <2>2
<1> QED
  BY <1>1, <1>2, <1>6

(* The prompt, whatever was printed before it, leaves nothing typed. *)
LEMMA PromptFacts ==
  ASSUME NEW s \in Screens
  PROVE  shell_print_prompt(s) \in Screens /\ Typed(shell_print_prompt(s)) = 0
<1> DEFINE text == [i \in 1 .. PROMPT |-> "c"]
           t == kprint(s, text)
<1>1. text \in Seq({"c"})
  BY ConsoleAssumption
<1> HIDE DEF text
<1>2. t \in Screens
  BY <1>1, KprintScreens
<1>3. shell_print_prompt(s) = [t EXCEPT !.home = Place(t)]
  BY DEF shell_print_prompt, text
<1> HIDE DEF t
<1>4. Place(t) \in Int
  BY <1>2, ScreenFields
<1>5. /\ shell_print_prompt(s) \in Screens
      /\ shell_print_prompt(s).x = t.x /\ shell_print_prompt(s).y = t.y
      /\ shell_print_prompt(s).home = Place(t)
  BY <1>2, <1>3, <1>4 DEF Screens
<1> QED
  BY <1>4, <1>5 DEF Typed, Place

LEMMA FreshFacts == FreshScreen \in Screens /\ Typed(FreshScreen) = 0
<1>1. 0 \in Columns /\ COLS \in Nat /\ {} \in Blocks
  BY ConsoleAssumption DEF Columns, Blocks
<1> QED
  BY <1>1 DEF FreshScreen, Screens, Typed, Place

-----------------------------------------------------------------------------
(* The line. *)

(* The shell counts at most what stands behind the prompt; once a command  *)
(* has left it, the count is not read again.                               *)
LineInv ==
  /\ scr \in Screens
  /\ input_len \in Nat /\ input_len < SHELL_MAX_INPUT
  /\ pc # "gone" => Typed(scr) >= input_len
  /\ pc = "boot" => input_len = 0

LEMMA InitLine == Init => LineInv
BY FreshFacts, ConsoleAssumption DEF Init, LineInv

LEMMA UnpaintedFacts ==
  ASSUME LineInv
  PROVE  Unpainted \in Screens /\ Typed(Unpainted) = Typed(scr)
BY BlockFacts DEF LineInv, Unpainted

(* shell_handle_key ends with a screen on which len characters are typed. *)
LEMMA HandledLine ==
  ASSUME NEW s \in Screens, NEW len \in Nat, len < SHELL_MAX_INPUT, Typed(s) >= len,
         Handled(s, len)
  PROVE  LineInv'
<1>1. render_cursor_lim(s) \in Screens /\ Typed(render_cursor_lim(s)) >= len
  BY BlockFacts
<1>2. scr' = render_cursor_lim(s) /\ input_len' = len /\ pc' = "blink"
  BY DEF Handled
<1>3. Typed(scr)' = Typed(scr')
  BY DEF Typed, Place
<1> QED
  BY <1>1, <1>2, <1>3 DEF LineInv

LEMMA NextLine ==
  ASSUME LineInv, [Next]_vars
  PROVE  LineInv'
<1>0. SHELL_MAX_INPUT \in Nat /\ 0 < SHELL_MAX_INPUT
  BY ConsoleAssumption
<1>1. ASSUME UNCHANGED <<scr, input_len>>, pc' = pc \/ (pc # "gone" /\ pc' # "boot") PROVE LineInv'
  <2>1. Typed(scr)' = Typed(scr)
    BY <1>1 DEF Typed, Place
  <2> QED
    BY <1>1, <2>1 DEF LineInv
<1>u. Unpainted \in Screens /\ Typed(Unpainted) = Typed(scr)
  BY UnpaintedFacts
<1>t. Typed(scr) \in Int /\ input_len \in Nat /\ input_len < SHELL_MAX_INPUT
  BY ScreenFields DEF LineInv
<1>k. pc = "key" => Typed(Unpainted) >= input_len
  BY <1>u DEF LineInv
<1>2. CASE Boot
  <2>1. PICK o \in Outputs : scr' = shell_print_prompt(kprint(FreshScreen, <<"c", "n">> \o o))
    BY <1>2 DEF Boot
  <2> DEFINE text == <<"c", "n">> \o o
  <2>2. text \in Seq({"c", "n"})
    <3>1. o \in Seq({"c", "n"}) /\ <<"c", "n">> \in Seq({"c", "n"})
      BY ConsoleAssumption
    <3> QED
      BY <3>1, ConcatProperties
  <2> HIDE DEF text
  <2>3. kprint(FreshScreen, text) \in Screens
    BY <2>2, FreshFacts, KprintScreens
  <2>4. scr' \in Screens /\ Typed(scr') = 0
    BY <2>1, <2>3, PromptFacts DEF text
  <2>5. input_len' = 0 /\ pc' = "first"
    BY <1>2 DEF Boot, LineInv
  <2>6. Typed(scr)' = Typed(scr')
    BY DEF Typed, Place
  <2> QED
    BY <1>0, <2>4, <2>5, <2>6 DEF LineInv
<1>3. CASE Enter
  <2>1. CASE input_len = 0 /\ Handled(shell_print_prompt(NewLine(Unpainted)), 0)
    <3> DEFINE s == shell_print_prompt(NewLine(Unpainted))
    <3>1. s \in Screens /\ Typed(s) = 0
      BY <1>u, NewLineFacts, PromptFacts
    <3> HIDE DEF s
    <3>2. Handled(s, 0)
      BY <2>1 DEF s
    <3> QED
      BY <1>0, <3>1, <3>2, HandledLine
  <2>2. ASSUME NEW o \in Outputs, NEW s \in {NewLine(Unpainted), FreshScreen},
               Handled(shell_print_prompt(kprint(s, o)), 0)
        PROVE  LineInv'
    <3> DEFINE t == shell_print_prompt(kprint(s, o))
    <3>1. s \in Screens /\ o \in Seq({"c", "n"})
      BY <1>u, NewLineFacts, FreshFacts, ConsoleAssumption
    <3>2. t \in Screens /\ Typed(t) = 0
      BY <3>1, KprintScreens, PromptFacts
    <3> HIDE DEF t
    <3>3. Handled(t, 0)
      BY <2>2 DEF t
    <3> QED
      BY <1>0, <3>2, <3>3, HandledLine
  <2> QED
    BY <1>3, <2>1, <2>2 DEF Enter
<1>4. CASE LeaveShell
  <2>1. scr' = NewLine(Unpainted) /\ pc' = "gone" /\ input_len' = input_len
    BY <1>4 DEF LeaveShell
  <2>2. scr' \in Screens
    BY <1>u, <2>1, NewLineFacts
  <2> QED
    BY <1>t, <2>1, <2>2 DEF LineInv
<1>5. CASE Backspace
  <2>1. Typed(Unpainted) >= input_len
    BY <1>5, <1>k DEF Backspace
  <2>2. CASE input_len \in {0, 1} /\ Handled(Unpainted, 0)
    BY <1>0, <1>t, <1>u, <2>1, <2>2, HandledLine
  <2>3. CASE input_len > 1 /\ Handled(CursorLeft(Unpainted), input_len - 2)
    <3> DEFINE s == CursorLeft(Unpainted)
               len == input_len - 2
    <3>1. s \in Screens /\ Typed(s) \in Int /\ Typed(s) >= Typed(Unpainted) - 1
      BY <1>u, CursorLeftFacts, ScreenFields
    <3>2. len \in Nat /\ len < SHELL_MAX_INPUT /\ Handled(s, len)
      BY <1>0, <1>t, <2>3
    <3>3. Typed(s) >= len
      BY <1>t, <1>u, <2>1, <3>1
    <3> HIDE DEF s, len
    <3> QED
      BY <3>1, <3>2, <3>3, HandledLine
  <2> QED
    BY <1>5, <2>2, <2>3 DEF Backspace
<1>6. CASE Letter
  <2>1. Typed(Unpainted) >= input_len
    BY <1>6, <1>k DEF Letter
  <2>2. CASE input_len < SHELL_MAX_INPUT - 1
               /\ Handled(put_char_with_cursor_lim(Unpainted), input_len + 1)
    <3> DEFINE s == put_char_with_cursor_lim(Unpainted)
               len == input_len + 1
    <3>1. s \in Screens /\ Typed(s) = Typed(Unpainted) + 1
      BY <1>u, PutCharFacts
    <3>2. len \in Nat /\ len < SHELL_MAX_INPUT /\ Handled(s, len)
      BY <1>0, <1>t, <2>2
    <3>3. Typed(s) >= len
      BY <1>t, <1>u, <2>1, <3>1
    <3> HIDE DEF s, len
    <3> QED
      BY <3>1, <3>2, <3>3, HandledLine
  <2>3. CASE Handled(Unpainted, input_len)
    BY <1>t, <1>u, <2>1, <2>3, HandledLine
  <2> QED
    BY <1>6, <2>2, <2>3 DEF Letter
<1>i. CASE Ignored
  <2>1. Typed(Unpainted) >= input_len /\ Handled(Unpainted, input_len)
    BY <1>i, <1>k DEF Ignored
  <2> QED
    BY <1>t, <1>u, <2>1, HandledLine
<1>7. CASE Blink
  <2>1. input_len' = input_len /\ pc # "gone" /\ pc' # "boot"
    BY <1>7 DEF Blink
  <2>2. scr' \in {scr, clear_cursor_lim(scr), render_cursor_lim(scr)}
    BY <1>7 DEF Blink
  <2>3. scr' \in Screens /\ Typed(scr') = Typed(scr)
    BY <2>2, BlockFacts DEF LineInv
  <2>4. Typed(scr)' = Typed(scr')
    BY DEF Typed, Place
  <2> QED
    BY <2>1, <2>3, <2>4 DEF LineInv
<1>8. CASE PollKey \/ PollDone \/ Wake \/ \E k \in Scancodes : KeyArrives(k)
  BY <1>1, <1>8 DEF PollKey, PollDone, Wake, KeyArrives
<1>9. CASE UNCHANGED vars
  BY <1>1, <1>9 DEF vars
<1> QED
  BY <1>2, <1>3, <1>4, <1>5, <1>6, <1>i, <1>7, <1>8, <1>9 DEF Next, Loop

(* For every screen, prompt and line length, and whatever commands print:  *)
(* backspace, which takes two characters from the line and one from the    *)
(* screen, never reaches the prompt, and the line stays in its array.      *)
THEOREM PromptIsSafe == Spec => []PromptSafe
<1>1. LineInv => PromptSafe
  BY DEF LineInv, PromptSafe, Typed
<1> QED
  BY InitLine, NextLine, <1>1, PTL DEF Spec
=============================================================================
