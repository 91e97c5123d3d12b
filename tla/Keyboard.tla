------------------------------ MODULE Keyboard ------------------------------
(***************************************************************************)
(* From a key stroke to the shell: the keyboard controller's bytes, the    *)
(* interrupts (idt.c, isr_stub.S), the scan code decoder (scancode.c), the *)
(* ring of N keys (keyboard.c), and the reader, terminal_getline's loop    *)
(* around keyboard_poll and hlt (shell.cpp).                               *)
(*                                                                         *)
(* The gates are interrupt gates, so a handler runs to its iretq with      *)
(* interrupts off: one action.  The reader's steps are actions of their    *)
(* own wherever an interrupt may fall between them.                        *)
(***************************************************************************)
EXTENDS Integers, Sequences

CONSTANTS N,            \* keys of the ring, a power of two in the code
          Base, Shifted,\* the two tables, scan code -> character or 0
          Keys,         \* physical keys
          ShiftKeys,    \* the two shift keys
          Make, Break,  \* what a key sends when it goes down and up
          Types,        \* what a key types, alone and with shift held
          MaxStrokes    \* bound on key presses

KeyEnter     == 10
KeyBackspace == 8
KeyTab       == 9
KeyUp        == 256
KeyDown      == 257

\* The keys the decoder can return.
Chars  == {Base[i] : i \in 0 .. 127} \cup {Shifted[i] : i \in 0 .. 127}
Values == (Chars \ {0}) \cup {KeyEnter, KeyBackspace, KeyTab, KeyUp, KeyDown}

ASSUME RingAssumption  == N \in Nat /\ N >= 2
ASSUME TableAssumption == /\ Base \in [0 .. 127 -> 0 .. 127]
                          /\ Shifted \in [0 .. 127 -> 0 .. 127]
                          /\ \A i \in 0 .. 127 : Base[i] = 0 <=> Shifted[i] = 0
ASSUME BoundAssumption == MaxStrokes \in Nat
ASSUME KeyAssumption ==
  /\ ShiftKeys \subseteq Keys
  /\ Make \in [Keys -> Seq(0 .. 255)] /\ Break \in [Keys -> Seq(0 .. 255)]
  /\ Types \in [Keys -> [BOOLEAN -> Values \cup {0}]]

\* What a key that is pressed, without a prefix, returns with the shift flag sh.
PlainKey(sh, code) ==
  CASE code = 28 -> KeyEnter
    [] code = 14 -> KeyBackspace
    [] code = 15 -> KeyTab
    [] code = 72 -> KeyUp
    [] code = 80 -> KeyDown
    [] OTHER -> IF sh THEN Shifted[code] ELSE Base[code]

\* What the code behind the prefix returns.
ExtendedKey(code) ==
  CASE code = 72 -> KeyUp [] code = 80 -> KeyDown [] OTHER -> 0

\* A keyboard in its first translated scan code set.  A key sends a code, bare or
\* behind the prefix 224, some of them with a fake shift before it; when it goes
\* up the code plus 128.  The code of no key gives the prefix then.
Sends(k, code) ==
  \/ /\ k \in ShiftKeys /\ code \in {42, 54}
     /\ Make[k] = <<code>> /\ Break[k] = <<code + 128>>
     /\ Types[k] = [b \in BOOLEAN |-> 0]
  \/ /\ k \notin ShiftKeys /\ code \notin {42, 54}
     /\ Make[k] = <<code>> /\ Break[k] = <<code + 128>>
     /\ Types[k] = [b \in BOOLEAN |-> PlainKey(b, code)]
  \/ /\ k \notin ShiftKeys
     /\ \/ Make[k] = <<224, code>> /\ Break[k] = <<224, code + 128>>
        \/ Make[k] = <<224, 42, 224, code>> /\ Break[k] = <<224, code + 128, 224, 170>>
     /\ Types[k] = [b \in BOOLEAN |-> ExtendedKey(code)]

ASSUME LayoutAssumption == \A k \in Keys : \E code \in 0 .. 127 : code # 96 /\ Sends(k, code)

VARIABLES held,             \* the keys that are down
          wire,             \* bytes sent and not yet read at port 0x60
          shift, extended,  \* the decoder's flags
          buffer, head, tail,
          intf,             \* the processor's interrupt flag
          pc, c,            \* the reader: where it is, the key it has
          strokes,          \* presses so far
          meant, got,       \* what was typed, what the reader has seen
          lost, both        \* keys were lost; both shifts were down

device == <<held, wire, strokes, meant, both>>
driver == <<shift, extended, buffer, head, tail, lost>>
reader == <<intf, pc, c, got>>
vars   == <<device, driver, reader>>

Ring   == 0 .. N - 1
PCs    == {"poll", "locked", "unlock", "test", "hlt", "busy"}

Inc(i) == (i + 1) % N

\* The keys in the ring, oldest first.
Count  == IF head >= tail THEN head - tail ELSE head + N - tail
Unread == [i \in 1 .. Count |-> buffer[(tail + i - 1) % N]]

----------------------------------------------------------------------------
\* scancode_decode with the flags sh and ext: the value it returns and the flags
\* it leaves.

\* Mutant: a release is recognised before the prefix is looked at.
DecodeReleaseFirst(sh, ext, code) ==
  IF code = 224 THEN [key |-> 0, shift |-> sh, extended |-> TRUE]
  ELSE IF code >= 128
  THEN [key |-> 0, shift |-> sh /\ code - 128 \notin {42, 54}, extended |-> ext]
  ELSE IF code \in {42, 54} THEN [key |-> 0, shift |-> TRUE, extended |-> FALSE]
  ELSE [key |-> PlainKey(sh, code), shift |-> sh, extended |-> FALSE]

Decode(sh, ext, code) ==
  IF code = 224                                            \* 0xE0
  THEN [key |-> 0, shift |-> sh, extended |-> TRUE]
  ELSE IF ext
  THEN [key |-> ExtendedKey(code), shift |-> sh, extended |-> FALSE]
  ELSE IF code >= 128                                      \* a release
  THEN [key |-> 0, shift |-> sh /\ code - 128 \notin {42, 54}, extended |-> FALSE]
  ELSE IF code \in {42, 54}                                \* 0x2A, 0x36
  THEN [key |-> 0, shift |-> TRUE, extended |-> FALSE]
  ELSE [key |-> PlainKey(sh, code), shift |-> sh, extended |-> FALSE]

----------------------------------------------------------------------------
Init ==
  /\ held = {} /\ wire = <<>> /\ strokes = 0 /\ meant = <<>> /\ both = FALSE
  /\ shift = FALSE /\ extended = FALSE
  /\ buffer = [i \in Ring |-> 0] /\ head = 0 /\ tail = 0 /\ lost = FALSE
  /\ intf = TRUE /\ pc = "poll" /\ c = -1 /\ got = <<>>

\* The user presses a key, or the keyboard repeats one that is held.
Press(k) ==
  LET typed == Types[k][held \cap ShiftKeys # {}]
  IN  /\ strokes < MaxStrokes
      /\ strokes' = strokes + 1
      /\ held' = held \cup {k}
      /\ wire' = wire \o Make[k]
      /\ meant' = IF typed > 0 THEN Append(meant, typed) ELSE meant
      /\ both' = (both \/ \E i, j \in ShiftKeys \cap held' : i # j)
      /\ UNCHANGED <<driver, reader>>

Release(k) ==
  /\ k \in held
  /\ held' = held \ {k}
  /\ wire' = wire \o Break[k]
  /\ UNCHANGED <<strokes, meant, both, driver, reader>>

\* An interrupt ends hlt; elsewhere the reader goes on where it was.
Resumed == IF pc = "hlt" THEN "poll" ELSE pc

\* Mutant: the slot is written after the index has moved on.
StoredNext(key) ==
  IF key > 0
  THEN /\ buffer' = [buffer EXCEPT ![Inc(head)] = key]
       /\ head' = Inc(head)
       /\ lost' = (lost \/ Inc(head) = tail)
  ELSE UNCHANGED <<buffer, head, lost>>

\* Mutant: codes that type nothing are stored as well.
StoredAlways(key) ==
  /\ buffer' = [buffer EXCEPT ![head] = key]
  /\ head' = Inc(head)
  /\ lost' = (lost \/ Inc(head) = tail)

\* keyboard_handle_scancode.  There is no check for a full ring: when the
\* head catches up with the tail the ring reads as empty.
Stored(key) ==
  IF key > 0
  THEN /\ buffer' = [buffer EXCEPT ![head] = key]
       /\ head' = Inc(head)
       /\ lost' = (lost \/ Inc(head) = tail)
  ELSE UNCHANGED <<buffer, head, lost>>

\* Vector 33: one byte is read, decoded and stored.
KeyboardIRQ ==
  /\ intf /\ wire # <<>>
  /\ wire' = Tail(wire)
  /\ shift' = Decode(shift, extended, Head(wire)).shift
  /\ extended' = Decode(shift, extended, Head(wire)).extended
  /\ Stored(Decode(shift, extended, Head(wire)).key)
  /\ pc' = Resumed
  /\ UNCHANGED <<held, strokes, meant, both, tail, intf, c, got>>

\* Mutant: the interrupt mask leaves the timer's line closed.
TimerMasked == FALSE /\ UNCHANGED vars

\* Vector 32: the tick count is all the handler changes.
TimerIRQ ==
  /\ intf
  /\ pc' = Resumed
  /\ UNCHANGED <<device, driver, intf, c, got>>

\* keyboard_poll: cli, the ring, sti.
Lock ==
  /\ pc = "poll"
  /\ intf' = FALSE /\ pc' = "locked"
  /\ UNCHANGED <<device, driver, c, got>>

Poll ==
  /\ pc = "locked"
  /\ \/ tail # head /\ c' = buffer[tail] /\ tail' = Inc(tail)
     \/ tail = head /\ c' = -1 /\ UNCHANGED tail
  /\ pc' = "unlock"
  /\ UNCHANGED <<device, shift, extended, buffer, head, lost, intf, got>>

\* Mutant: keyboard_poll returns without sti.
UnlockNoSti ==
  /\ pc = "unlock" /\ pc' = "test"
  /\ UNCHANGED <<device, driver, intf, c, got>>

Unlock ==
  /\ pc = "unlock"
  /\ intf' = TRUE /\ pc' = "test"
  /\ UNCHANGED <<device, driver, c, got>>

\* terminal_getline: no key puts the processor to sleep, Enter hands the line
\* to shell_run, which polls again once the command is done.
Test ==
  /\ pc = "test"
  /\ pc' = IF c < 0 THEN "hlt" ELSE IF c = KeyEnter THEN "busy" ELSE "poll"
  /\ got' = IF c < 0 THEN got ELSE Append(got, c)
  /\ UNCHANGED <<device, driver, intf, c>>

Finish ==
  /\ pc = "busy" /\ pc' = "poll"
  /\ UNCHANGED <<device, driver, intf, c, got>>

Reader == Lock \/ Poll \/ Unlock \/ Test \/ Finish

Next ==
  \/ \E k \in Keys : Press(k) \/ Release(k)
  \/ KeyboardIRQ \/ TimerIRQ
  \/ Reader

\* The processor runs the reader's next instruction; the timer keeps
\* ticking; a byte at the port keeps its interrupt requested until taken.
Fairness == WF_vars(Reader) /\ WF_vars(TimerIRQ) /\ SF_vars(KeyboardIRQ)

Spec == Init /\ [][Next]_vars /\ Fairness

----------------------------------------------------------------------------
\* The slots from the tail up to the head, around the end if need be.
Occupied(i) ==
  IF tail <= head THEN tail <= i /\ i < head ELSE tail <= i \/ i < head

TypeOK ==
  /\ held \subseteq Keys /\ wire \in Seq(0 .. 255) /\ strokes \in 0 .. MaxStrokes
  /\ shift \in BOOLEAN /\ extended \in BOOLEAN
  /\ buffer \in [Ring -> Values \cup {0}] /\ head \in Ring /\ tail \in Ring
  /\ \A i \in Ring : Occupied(i) => buffer[i] \in Values
  /\ intf \in BOOLEAN /\ pc \in PCs /\ c \in Values \cup {-1}
  /\ meant \in Seq(Values) /\ got \in Seq(Values)
  /\ lost \in BOOLEAN /\ both \in BOOLEAN

\* The processor never sleeps with interrupts off, which nothing would end.
SleepsInterruptible == pc = "hlt" => intf

\* The keys on their way to the reader: the one it holds, and the ring's.
InHand == IF pc \in {"unlock", "test"} /\ c > 0 THEN <<c>> ELSE <<>>

\* The reader gets what was typed, in order, once each, with the characters
\* the shift keys meant, however strokes, interrupts and polls interleave.
\* Two exceptions: a full ring loses keys, and with both shift keys down the
\* release of one turns the letters that follow small.
TypedIsRead ==
  wire = <<>> /\ ~lost =>
    LET seen == got \o InHand \o Unread
    IN  /\ Len(seen) = Len(meant)
        /\ ~both => seen = meant

\* The ring behaves as the queue it stands for.
Q == INSTANCE KeyQueue WITH Capacity <- N - 1, Values <- Values, q <- Unread

RingIsQueue == Q!Safe

\* Every byte the keyboard sends is read and every key stored is taken: the
\* reader ends asleep beside an empty ring, even if the key came between its
\* last look at the ring and hlt.
Drains == []<>(wire = <<>> /\ Unread = <<>>)
=============================================================================
