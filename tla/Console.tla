------------------------------- MODULE Console -------------------------------
(***************************************************************************)
(* kmain's loop: keyboard_poll empties the keyboard controller into a ring *)
(* buffer, the shell takes one character out of it on every turn, the text *)
(* cursor blinks, and the CPU halts until the next interrupt.  Keys are    *)
(* pressed at any time.                                                    *)
(*                                                                         *)
(* The screen is its text cursor, the place behind the prompt, and where   *)
(* the cursor's block is painted.  Of the line that is typed its length is *)
(* kept; which command it is, is chosen when it is executed.  A command is *)
(* what it prints, a sequence of characters ("c") and newlines ("n").      *)
(***************************************************************************)
EXTENDS Integers, Sequences, SequencesExt

CONSTANTS
  RINGBUFFER_SIZE,   \* 256 in the code
  SHELL_MAX_INPUT,   \* 128 in the code
  COLS, ROWS,        \* characters in a row and rows of the screen
  PROMPT,            \* the prompt's length, 11 in the code
  Outputs,           \* what commands print
  KBC_SIZE,          \* scancodes the keyboard controller holds (external)
  MaxKeys            \* bound on the scancodes that arrive

ASSUME ConsoleAssumption ==
  /\ RINGBUFFER_SIZE \in Nat /\ RINGBUFFER_SIZE > 1
  /\ SHELL_MAX_INPUT \in Nat \ {0} /\ KBC_SIZE \in Nat /\ MaxKeys \in Nat
  /\ COLS \in Nat /\ COLS > 1 /\ ROWS \in Nat /\ ROWS > 2
  /\ PROMPT \in Nat /\ PROMPT > 1
  /\ \A o \in Outputs : o \in Seq({"c", "n"})

VARIABLES
  kbc,             \* scancodes in the keyboard controller
  keys,            \* scancodes that have arrived so far
  shift_pressed,
  rb,              \* the ring buffer
  kept,            \* what the last rb_put returned
  input_len,
  scr,             \* the screen
  cursor_visible,
  pc               \* what kmain does next

vars == <<kbc, keys, shift_pressed, rb, kept, input_len, scr, cursor_visible, pc>>

-----------------------------------------------------------------------------
(* The ring buffer. *)
EmptySlot == "none"
rb_init == [buffer |-> [i \in 0 .. RINGBUFFER_SIZE - 1 |-> EmptySlot], head |-> 0, tail |-> 0]
After(i) == (i + 1) % RINGBUFFER_SIZE
rb_empty == rb.head = rb.tail

(* Mutant: full is noticed one character too late.                         *)
rb_put_late(c) ==
  /\ kept' = TRUE
  /\ rb' = [rb EXCEPT !.buffer[rb.head] = c, !.head = After(rb.head)]

rb_put(c) ==
  /\ kept' = (After(rb.head) # rb.tail)
  /\ rb' = IF kept' THEN [rb EXCEPT !.buffer[rb.head] = c, !.head = After(rb.head)] ELSE rb

rb_get(c) ==
  /\ ~rb_empty /\ c = rb.buffer[rb.tail]
  /\ rb' = [rb EXCEPT !.tail = After(rb.tail)]

-----------------------------------------------------------------------------
(* The screen.  Rows and columns count characters from 0; home is the      *)
(* place behind the prompt, counted along the rows; painted are the places *)
(* that show the cursor's block.                                           *)
Place(s) == s.y * COLS + s.x
At(s) == <<s.x, s.y>>
FreshScreen == [x |-> 0, y |-> 0, home |-> 0, painted |-> {}]

NewLine(s) == [s EXCEPT !.x = 0, !.y = @ + 1]

(* Mutant: the rows move up but the cursor stays.                          *)
ScrollStays(s) ==
  [s EXCEPT !.home = @ - COLS,
            !.painted = {<<p[1], p[2] - 1>> : p \in {q \in @ : q[2] > 0}}]

(* All rows move up by one, also when the cursor is further down. *)
Scroll(s) ==
  [s EXCEPT !.y = @ - 1, !.home = @ - COLS,
            !.painted = {<<p[1], p[2] - 1>> : p \in {q \in @ : q[2] > 0}}]

put_char_with_cursor_lim(s) ==
  LET next == IF s.x + 2 > COLS THEN NewLine(s) ELSE [s EXCEPT !.x = @ + 1]
  IN  IF next.y + 1 > ROWS THEN Scroll(next) ELSE next

(* kprint: a newline never scrolls. *)
kprint(s, text) ==
  FoldLeft(LAMBDA t, c : IF c = "n" THEN NewLine(t) ELSE put_char_with_cursor_lim(t), s, text)

render_cursor_lim(s) == [s EXCEPT !.painted = @ \cup {At(s)}]
clear_cursor_lim(s) == [s EXCEPT !.painted = @ \ {At(s)}]

shell_print_prompt(s) ==
  LET t == kprint(s, [i \in 1 .. PROMPT |-> "c"]) IN [t EXCEPT !.home = Place(t)]

CursorLeft(s) ==
  IF s.x >= 1 THEN [s EXCEPT !.x = @ - 1]
  ELSE IF s.y > 0 THEN [s EXCEPT !.y = @ - 1, !.x = COLS - 1] ELSE s

-----------------------------------------------------------------------------
(* keyboard_poll, one scancode at a time.  A key that is released, and one *)
(* without a character, leaves nothing in the buffer.                      *)
Scancodes == {"shift", "unshift", "letter", "enter", "back", "tab", "release"}
Chars == {"a", "A", "NL", "BS", "TAB"}

scancode_ascii == [letter |-> "a", enter |-> "NL", back |-> "BS", tab |-> "TAB"]
scancode_ascii_shift == [letter |-> "A", enter |-> "NL", back |-> "BS", tab |-> "TAB"]
Decoded(k) == IF shift_pressed THEN scancode_ascii_shift[k] ELSE scancode_ascii[k]

Init ==
  /\ kbc = <<>> /\ keys = 0
  /\ shift_pressed = FALSE
  /\ rb = rb_init /\ kept = TRUE
  /\ input_len = 0
  /\ scr = FreshScreen /\ cursor_visible = TRUE
  /\ pc = "boot"

(* The controller takes a scancode, unless it is full. *)
KeyArrives(k) ==
  /\ keys < MaxKeys /\ keys' = keys + 1
  /\ kbc' = IF Len(kbc) < KBC_SIZE THEN Append(kbc, k) ELSE kbc
  /\ UNCHANGED <<shift_pressed, rb, kept, input_len, scr, cursor_visible, pc>>

(* kmain up to its loop: a welcome, what load_user_space prints, and the   *)
(* first prompt.                                                           *)
Boot ==
  /\ pc = "boot" /\ pc' = "first"
  /\ \E o \in Outputs :
       scr' = shell_print_prompt(kprint(FreshScreen, <<"c", "n">> \o o))
  /\ UNCHANGED <<kbc, keys, shift_pressed, rb, kept, input_len, cursor_visible>>

PollKey ==
  /\ pc = "poll" /\ kbc # <<>>
  /\ kbc' = Tail(kbc)
  /\ LET k == Head(kbc) IN
     \/ /\ k \in {"shift", "unshift"}
        /\ shift_pressed' = (k = "shift")
        /\ UNCHANGED <<rb, kept>>
     \/ /\ k \in {"letter", "enter", "back", "tab"}
        /\ rb_put(Decoded(k))
        /\ UNCHANGED shift_pressed
     \/ /\ k = "release"
        /\ UNCHANGED <<shift_pressed, rb, kept>>
  /\ UNCHANGED <<keys, input_len, scr, cursor_visible, pc>>

PollDone ==
  /\ pc = "poll" /\ kbc = <<>>
  /\ pc' = IF rb_empty THEN "blink" ELSE "key"
  /\ UNCHANGED <<kbc, keys, shift_pressed, rb, kept, input_len, scr, cursor_visible>>

-----------------------------------------------------------------------------
(* shell_handle_key takes the block away first. *)
Unpainted == IF cursor_visible THEN clear_cursor_lim(scr) ELSE scr

(* shell_handle_key ends with the cursor painted. *)
Handled(s, len) ==
  /\ scr' = render_cursor_lim(s)
  /\ input_len' = len
  /\ cursor_visible' = TRUE
  /\ pc' = "blink"
  /\ UNCHANGED <<kbc, keys, shift_pressed, kept>>

(* Enter: the command, if there is one, prints, or clears the screen and   *)
(* prints; then a new prompt. *)
Enter ==
  /\ pc = "key" /\ rb_get("NL")
  /\ \/ /\ input_len = 0
        /\ Handled(shell_print_prompt(NewLine(Unpainted)), 0)
     \/ /\ input_len > 0
        /\ \E o \in Outputs, s \in {NewLine(Unpainted), FreshScreen} :
             Handled(shell_print_prompt(kprint(s, o)), 0)

(* thread_test switches to threads that never come back to kmain, reboot   *)
(* ends in power_reboot.                                                   *)
LeaveShell ==
  /\ pc = "key" /\ rb_get("NL") /\ input_len > 0
  /\ pc' = "gone"
  /\ scr' = NewLine(Unpainted)
  /\ UNCHANGED <<kbc, keys, shift_pressed, kept, input_len, cursor_visible>>

(* Mutant: shell_backspace does not look at what is left.                  *)
BackspaceAlways ==
  /\ pc = "key" /\ rb_get("BS")
  /\ \/ input_len = 0 /\ Handled(CursorLeft(Unpainted), 0)
     \/ input_len = 1 /\ Handled(CursorLeft(Unpainted), 0)
     \/ input_len > 1 /\ Handled(CursorLeft(Unpainted), input_len - 2)

(* Backspace: the length drops here and again in shell_backspace, which    *)
(* returns at once if nothing is left.                                     *)
Backspace ==
  /\ pc = "key" /\ rb_get("BS")
  /\ \/ input_len = 0 /\ Handled(Unpainted, 0)
     \/ input_len = 1 /\ Handled(Unpainted, 0)
     \/ input_len > 1 /\ Handled(CursorLeft(Unpainted), input_len - 2)

Letter ==
  /\ pc = "key" /\ (rb_get("a") \/ rb_get("A"))
  /\ \/ /\ input_len < SHELL_MAX_INPUT - 1
        /\ Handled(put_char_with_cursor_lim(Unpainted), input_len + 1)
     \/ /\ input_len >= SHELL_MAX_INPUT - 1
        /\ Handled(Unpainted, input_len)

(* Characters outside 32 .. 126, tab and escape among them, are taken from *)
(* the buffer and change nothing else.                                     *)
Ignored ==
  /\ pc = "key" /\ rb_get("TAB")
  /\ Handled(Unpainted, input_len)

(* update_cursor_blink: every twenty ticks the block comes or goes. *)
Blink ==
  /\ pc \in {"first", "blink"}
  /\ pc' = IF pc = "first" THEN "poll" ELSE "hlt"
  /\ \/ UNCHANGED <<scr, cursor_visible>>
     \/ /\ scr' = IF cursor_visible THEN clear_cursor_lim(scr) ELSE render_cursor_lim(scr)
        /\ cursor_visible' = ~cursor_visible
  /\ UNCHANGED <<kbc, keys, shift_pressed, rb, kept, input_len>>

(* Mutant: the loop waits for a key instead of an interrupt.               *)
WakeOnKey ==
  /\ pc = "hlt" /\ kbc # <<>> /\ pc' = "poll"
  /\ UNCHANGED <<kbc, keys, shift_pressed, rb, kept, input_len, scr, cursor_visible>>

(* hlt, until the next interrupt: the timer's if no other. *)
Wake ==
  /\ pc = "hlt" /\ pc' = "poll"
  /\ UNCHANGED <<kbc, keys, shift_pressed, rb, kept, input_len, scr, cursor_visible>>

Loop ==
  \/ Boot \/ PollKey \/ PollDone \/ Enter \/ LeaveShell \/ Backspace \/ Letter
  \/ Ignored \/ Blink \/ Wake

Next == Loop \/ \E k \in Scancodes : KeyArrives(k)

Spec == Init /\ [][Next]_vars

(* The CPU goes on, and the timer ends every hlt (Clock's SleepEnds). *)
FairSpec == Spec /\ WF_vars(Loop)

-----------------------------------------------------------------------------
(* The ring buffer is a queue of RINGBUFFER_SIZE - 1 characters: no        *)
(* character is overwritten, repeated or taken out of order when head and  *)
(* tail wrap round, and one is dropped only when it is full.               *)
Used == (rb.head - rb.tail) % RINGBUFFER_SIZE
Queue ==
  INSTANCE KeyQueue WITH
    queue <- [i \in 1 .. Used |-> rb.buffer[(rb.tail + i - 1) % RINGBUFFER_SIZE]],
    Cap <- RINGBUFFER_SIZE - 1
RefinesQueue == Queue!Spec

(* The shell counts no more characters than stand behind the prompt, so    *)
(* that backspace, which takes two from the line and one from the screen,  *)
(* never reaches the prompt; the line fits its array.                      *)
PromptSafe ==
  pc # "gone" => Place(scr) - scr.home >= input_len /\ input_len < SHELL_MAX_INPUT

(* The block is painted on the screen only: render_cursor_lim writes to    *)
(* the frame buffer without a test, and kprint's newlines move the cursor  *)
(* below the last row.                                                     *)
PaintedOnScreen == \A p \in scr.painted : p[1] \in 0 .. COLS - 1 /\ p[2] \in 0 .. ROWS - 1

(* All keys that arrive are handled in the end, although the loop takes    *)
(* one character per interrupt, unless a command has left the shell.       *)
KeysHandled == <>[](pc = "gone" \/ (kbc = <<>> /\ rb_empty))
=============================================================================
