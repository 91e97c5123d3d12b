--------------------------- MODULE KeyboardProofs ---------------------------
(***************************************************************************)
(* Proofs about Keyboard for every ring size, table and set of keys: the   *)
(* types, that the processor never sleeps with interrupts off, that the    *)
(* ring implements KeyQueue, wrapping included, and that what is typed is  *)
(* read.                                                                   *)
(***************************************************************************)
EXTENDS Keyboard, BasicFacts

----------------------------------------------------------------------------
\* Indices of the ring.

\* Going once around the ring subtracts its size.
LEMMA Wrap ==
  ASSUME NEW x \in Nat, x < 2 * N
  PROVE  /\ x % N = IF x < N THEN x ELSE x - N
         /\ x % N \in Ring
BY RingAssumption DEF Ring

\* The index behind an index of the ring.
LEMMA IncFacts ==
  ASSUME NEW i \in Ring
  PROVE  Inc(i) \in Ring /\ Inc(i) = IF i = N - 1 THEN 0 ELSE i + 1
<1>1. i + 1 \in Nat /\ i + 1 < 2 * N
  BY RingAssumption DEF Ring
<1>. QED BY <1>1, Wrap, RingAssumption DEF Ring, Inc

\* The number of unread keys, and when there are none.
LEMMA CountFacts ==
  ASSUME head \in Ring, tail \in Ring
  PROVE  /\ Count \in 0 .. N - 1
         /\ Count = 0 <=> head = tail
BY RingAssumption DEF Ring, Count

\* The slot of the i-th unread key.
LEMMA SlotFacts ==
  ASSUME tail \in Ring, NEW i \in 1 .. N
  PROVE  /\ (tail + i - 1) % N \in Ring
         /\ (tail + i - 1) % N = IF tail + i - 1 < N THEN tail + i - 1
                                 ELSE tail + i - 1 - N
<1> DEFINE x == tail + i - 1
<1>1. x \in Nat /\ x < 2 * N
  BY RingAssumption DEF Ring
<1> HIDE DEF x
<1>2. x % N \in Ring /\ x % N = IF x < N THEN x ELSE x - N
  BY <1>1, Wrap
<1>. QED BY <1>1, <1>2, RingAssumption DEF x, Ring

\* The unread keys as a sequence.
LEMMA UnreadFacts ==
  ASSUME TypeOK
  PROVE  /\ Unread \in Seq(Values \cup {0})
         /\ Len(Unread) = Count
         /\ \A i \in 1 .. Count : Unread[i] = buffer[(tail + i - 1) % N]
<1>1. Count \in 0 .. N - 1 /\ N \in Nat
  BY CountFacts, RingAssumption DEF TypeOK
<1>2. \A i \in 1 .. Count : buffer[(tail + i - 1) % N] \in Values \cup {0}
  BY <1>1, SlotFacts DEF TypeOK
<1>. QED BY <1>1, <1>2 DEF Unread

----------------------------------------------------------------------------
\* The two operations of the ring, seen as operations of the queue.

\* Storing a key is the queue's Put: appended, or all keys gone.
LEMMA StoreIsPut ==
  ASSUME TypeOK, TypeOK', NEW key \in Values,
         buffer' = [buffer EXCEPT ![head] = key],
         head' = Inc(head), tail' = tail
  PROVE  Unread' = IF Len(Unread) < N - 1 THEN Append(Unread, key) ELSE <<>>
<1>1. /\ head \in Ring /\ tail \in Ring /\ N \in Nat /\ N >= 2
      /\ head' = IF head = N - 1 THEN 0 ELSE head + 1
  BY IncFacts, RingAssumption DEF TypeOK
<1>2. Count \in 0 .. N - 1
  BY CountFacts DEF TypeOK
<1>3. Count' = IF Count < N - 1 THEN Count + 1 ELSE 0
  BY <1>1 DEF Count, Ring
<1>4. /\ Len(Unread) = Count /\ Unread \in Seq(Values \cup {0})
      /\ \A i \in 1 .. Count : Unread[i] = buffer[(tail + i - 1) % N]
  BY UnreadFacts
<1>5. /\ Len(Unread') = Count' /\ Unread' \in Seq(Values \cup {0})
      /\ \A i \in 1 .. Count' : Unread'[i] = buffer'[(tail + i - 1) % N]
  <2>1. /\ Count' \in 0 .. N - 1
        /\ \A i \in 1 .. Count' : buffer'[(tail + i - 1) % N] \in Values \cup {0}
    <3>1. Count' \in 0 .. N - 1
      BY <1>1, <1>2, <1>3
    <3>2. \A i \in 1 .. Count' : (tail + i - 1) % N \in Ring
      BY <1>1, <3>1, SlotFacts
    <3>. QED BY <3>1, <3>2 DEF TypeOK
  <2>2. Unread' = [i \in 1 .. Count' |-> buffer'[(tail + i - 1) % N]]
    BY DEF Unread
  <2>. QED BY <2>1, <2>2
<1>6. CASE Count < N - 1
  <2>1. \A i \in 1 .. Count : /\ (tail + i - 1) % N # head
                              /\ (tail + i - 1) % N \in Ring
    BY <1>1, <1>2, SlotFacts DEF Count, Ring
  <2>2. (tail + (Count + 1) - 1) % N = head
    BY <1>1, <1>2, <1>6, SlotFacts DEF Count, Ring
  <2>3. buffer \in [Ring -> Values \cup {0}]
    BY DEF TypeOK
  <2>4. \A i \in 1 .. Count : Unread'[i] = Unread[i]
    BY <1>2, <1>3, <1>4, <1>5, <1>6, <2>1, <2>3
  <2>5. Unread'[Count + 1] = key
    BY <1>1, <1>2, <1>3, <1>5, <1>6, <2>2, <2>3
  <2> DEFINE s == Append(Unread, key)
  <2>6. /\ s \in Seq(Values \cup {0}) /\ Len(s) = Count + 1
        /\ \A i \in 1 .. Count : s[i] = Unread[i]
        /\ s[Count + 1] = key
    BY <1>2, <1>4, AppendProperties
  <2> HIDE DEF s
  <2>7. Len(Unread') = Len(s)
    BY <1>3, <1>5, <1>6, <2>6
  <2>8. \A i \in 1 .. Len(s) : Unread'[i] = s[i]
    BY <1>2, <2>4, <2>5, <2>6
  <2>9. Unread' = s
    BY <1>5, <2>6, <2>7, <2>8, SeqEqual
  <2>. QED BY <1>4, <1>6, <2>9 DEF s
<1>7. CASE Count = N - 1
  BY <1>1, <1>3, <1>4, <1>5, <1>7, EmptySeq
<1>. QED BY <1>1, <1>2, <1>6, <1>7

\* Moving the tail on is the queue's Take.
LEMMA PollIsTake ==
  ASSUME TypeOK, TypeOK', tail # head, tail' = Inc(tail), UNCHANGED <<buffer, head>>
  PROVE  Unread # <<>> /\ Unread' = Tail(Unread)
<1>1. /\ head \in Ring /\ tail \in Ring /\ N \in Nat /\ N >= 2
      /\ tail' = IF tail = N - 1 THEN 0 ELSE tail + 1
      /\ tail' \in Ring
  BY IncFacts, RingAssumption DEF TypeOK
<1>2. Count \in 1 .. N - 1
  BY <1>1, CountFacts
<1>3. Count' = Count - 1
  BY <1>1 DEF Count, Ring
<1>4. /\ Len(Unread) = Count /\ Unread \in Seq(Values \cup {0})
      /\ \A i \in 1 .. Count : Unread[i] = buffer[(tail + i - 1) % N]
  BY UnreadFacts
<1>5. \A i \in 1 .. Count - 1 : (tail' + i - 1) % N = (tail + (i + 1) - 1) % N
  <2> SUFFICES ASSUME NEW i \in 1 .. Count - 1
               PROVE  (tail' + i - 1) % N = (tail + (i + 1) - 1) % N
    OBVIOUS
  <2> DEFINE x == tail' + i - 1
             y == tail + (i + 1) - 1
  <2>1. /\ x \in Nat /\ x < 2 * N /\ y \in Nat /\ y < 2 * N
        /\ x = y \/ (x = y - N /\ y >= N)
    BY <1>1, <1>2 DEF Ring
  <2> HIDE DEF x, y
  <2>2. /\ x % N = IF x < N THEN x ELSE x - N
        /\ y % N = IF y < N THEN y ELSE y - N
    BY <2>1, Wrap
  <2>3. x % N = y % N
    BY <1>1, <2>1, <2>2
  <2>. QED BY <2>3 DEF x, y
<1>6. Unread' = [i \in 1 .. Count - 1 |-> buffer[(tail' + i - 1) % N]]
  BY <1>3 DEF Unread
<1>7. \A i \in 1 .. Count - 1 : buffer[(tail' + i - 1) % N] = Unread[i + 1]
  BY <1>2, <1>4, <1>5
<1>8. Unread' = [i \in 1 .. Count - 1 |-> Unread[i + 1]]
  BY <1>6, <1>7
<1>9. Unread # <<>>
  BY <1>2, <1>4, EmptySeq
<1> DEFINE t == Tail(Unread)
<1>10. /\ t \in Seq(Values \cup {0}) /\ Len(t) = Count - 1
       /\ \A i \in 1 .. Count - 1 : t[i] = Unread[i + 1]
  BY <1>4, <1>9, HeadTailProperties
<1> HIDE DEF t
<1>11. t = [i \in 1 .. Count - 1 |-> t[i]]
  BY <1>2, <1>10
<1>12. t = [i \in 1 .. Count - 1 |-> Unread[i + 1]]
  BY <1>10, <1>11
<1>. QED BY <1>8, <1>9, <1>12 DEF t

----------------------------------------------------------------------------
\* Types.

\* The decoder returns a key or nothing.
LEMMA DecodeFacts ==
  ASSUME NEW sh \in BOOLEAN, NEW ext \in BOOLEAN, NEW code \in 0 .. 255
  PROVE  /\ Decode(sh, ext, code).key \in Values \cup {0}
         /\ Decode(sh, ext, code).shift \in BOOLEAN
         /\ Decode(sh, ext, code).extended \in BOOLEAN
<1>1. code < 128 => Base[code] \in Values \cup {0} /\ Shifted[code] \in Values \cup {0}
  <2>1. code < 128 => code \in 0 .. 127
    OBVIOUS
  <2>. QED BY <2>1 DEF Values, Chars
<1>2. {KeyEnter, KeyBackspace, KeyTab, KeyUp, KeyDown} \subseteq Values
  BY DEF Values
<1>3. code < 128 => PlainKey(sh, code) \in Values \cup {0}
  BY <1>1, <1>2 DEF PlainKey
<1>4. ExtendedKey(code) \in Values \cup {0}
  BY <1>2 DEF ExtendedKey
<1>5. ASSUME NEW k \in Values \cup {0}, NEW s \in BOOLEAN, NEW e \in BOOLEAN,
             Decode(sh, ext, code) = [key |-> k, shift |-> s, extended |-> e]
      PROVE  /\ Decode(sh, ext, code).key \in Values \cup {0}
             /\ Decode(sh, ext, code).shift \in BOOLEAN
             /\ Decode(sh, ext, code).extended \in BOOLEAN
  BY <1>5
<1>6. CASE code = 224
  BY <1>5, <1>6 DEF Decode
<1>7. CASE code # 224 /\ ext
  BY <1>4, <1>5, <1>7 DEF Decode
<1>8. CASE code # 224 /\ ~ext /\ code >= 128
  <2> DEFINE s == sh /\ code - 128 \notin {42, 54}
  <2>1. s \in BOOLEAN
    OBVIOUS
  <2>2. Decode(sh, ext, code) = [key |-> 0, shift |-> s, extended |-> FALSE]
    BY <1>8 DEF Decode
  <2> HIDE DEF s
  <2>. QED BY <1>5, <2>1, <2>2
<1>9. CASE code # 224 /\ ~ext /\ ~(code >= 128) /\ code \in {42, 54}
  BY <1>5, <1>9 DEF Decode
<1>10. CASE code # 224 /\ ~ext /\ ~(code >= 128) /\ code \notin {42, 54}
  <2>1. PlainKey(sh, code) \in Values \cup {0}
    BY <1>3, <1>10
  <2>2. Decode(sh, ext, code) = [key |-> PlainKey(sh, code), shift |-> sh, extended |-> FALSE]
    BY <1>10 DEF Decode
  <2>. QED BY <1>5, <2>1, <2>2
<1>. QED BY <1>6, <1>7, <1>8, <1>9, <1>10

\* No key is 0, the value of an unused slot.
LEMMA ValuesArePositive == Values \subseteq Nat \ {0}
<1>1. Chars \subseteq Nat
  <2>1. \A i \in 0 .. 127 : Base[i] \in 0 .. 127 /\ Shifted[i] \in 0 .. 127
    BY TableAssumption
  <2> DEFINE D == 0 .. 127
  <2>2. D \subseteq Nat
    OBVIOUS
  <2> HIDE DEF D
  <2>3. Chars \subseteq D
    BY <2>1, Zenon DEF Chars, D
  <2>. QED BY <2>2, <2>3
<1>. QED BY <1>1 DEF Values, KeyEnter, KeyBackspace, KeyTab, KeyUp, KeyDown

\* keyboard_init leaves an empty ring.
LEMMA InitTypes == Init => TypeOK
<1> SUFFICES ASSUME Init PROVE TypeOK
  OBVIOUS
<1>1. /\ held \subseteq Keys /\ wire \in Seq(0 .. 255)
      /\ strokes \in 0 .. MaxStrokes /\ meant \in Seq(Values) /\ got \in Seq(Values)
  BY BoundAssumption, EmptySeq DEF Init
<1>2. /\ buffer \in [Ring -> Values \cup {0}] /\ head \in Ring /\ tail \in Ring
      /\ \A i \in Ring : ~Occupied(i)
  BY RingAssumption DEF Init, Ring, Occupied
<1>. QED BY <1>1, <1>2 DEF Init, TypeOK, PCs

\* keyboard_handle_scancode keeps the ring's types.
LEMMA StoredTypes ==
  ASSUME TypeOK, NEW key \in Values \cup {0}, Stored(key)
  PROVE  /\ buffer' \in [Ring -> Values \cup {0}]
         /\ head' \in Ring /\ lost' \in BOOLEAN
         /\ tail' = tail => \A i \in Ring : Occupied(i)' => buffer'[i] \in Values
<1>1. CASE key > 0
  <2>1. /\ buffer' = [buffer EXCEPT ![head] = key] /\ head' = Inc(head)
        /\ lost' = (lost \/ Inc(head) = tail) /\ key \in Values
    BY <1>1 DEF Stored
  <2>2. /\ head \in Ring /\ tail \in Ring /\ head' \in Ring
        /\ head' = IF head = N - 1 THEN 0 ELSE head + 1
    BY <2>1, IncFacts DEF TypeOK
  <2>3. ASSUME NEW i \in Ring, tail' = tail, Occupied(i)'
        PROVE  i = head \/ Occupied(i)
    BY <2>2, <2>3, RingAssumption DEF Occupied, Ring
  <2>. QED BY <2>1, <2>2, <2>3 DEF TypeOK
<1>2. CASE ~(key > 0)
  BY <1>2 DEF Stored, TypeOK, Occupied
<1>. QED BY <1>1, <1>2

\* Every step keeps the types.
LEMMA NextTypes == TypeOK /\ [Next]_vars => TypeOK'
<1> SUFFICES ASSUME TypeOK, [Next]_vars PROVE TypeOK'
  OBVIOUS
<1> USE DEF device, driver, reader, Occupied
<1>1. ASSUME NEW k \in Keys, Press(k) PROVE TypeOK'
  <2> DEFINE typed == Types[k][held \cap ShiftKeys # {}]
  <2>1. typed \in Values \cup {0}
    BY KeyAssumption
  <2>2. wire' \in Seq(0 .. 255)
    BY <1>1, KeyAssumption, ConcatProperties DEF Press, TypeOK
  <2>3. typed > 0 => typed \in Values
    BY <2>1
  <2> HIDE DEF typed
  <2>4. meant' = IF typed > 0 THEN Append(meant, typed) ELSE meant
    BY <1>1 DEF Press, typed
  <2>5. meant' \in Seq(Values)
    BY <2>3, <2>4, AppendProperties DEF TypeOK
  <2>6. both' \in BOOLEAN
    BY <1>1 DEF Press
  <2>7. strokes' \in 0 .. MaxStrokes
    BY <1>1, BoundAssumption DEF Press, TypeOK
  <2>. QED BY <1>1, <2>2, <2>5, <2>6, <2>7 DEF Press, TypeOK
<1>2. ASSUME NEW k \in Keys, Release(k) PROVE TypeOK'
  <2>1. wire' \in Seq(0 .. 255)
    BY <1>2, KeyAssumption, ConcatProperties DEF Release, TypeOK
  <2>. QED BY <1>2, <2>1 DEF Release, TypeOK
<1>3. CASE KeyboardIRQ
  <2>1. /\ Head(wire) \in 0 .. 255 /\ wire' \in Seq(0 .. 255)
    BY <1>3, HeadTailProperties DEF KeyboardIRQ, TypeOK
  <2>2. /\ Decode(shift, extended, Head(wire)).key \in Values \cup {0}
        /\ shift' \in BOOLEAN /\ extended' \in BOOLEAN
    <3> DEFINE code == Head(wire)
    <3>1. code \in 0 .. 255 /\ shift \in BOOLEAN /\ extended \in BOOLEAN
      BY <2>1 DEF TypeOK
    <3> HIDE DEF code
    <3>2. /\ Decode(shift, extended, code).key \in Values \cup {0}
          /\ Decode(shift, extended, code).shift \in BOOLEAN
          /\ Decode(shift, extended, code).extended \in BOOLEAN
      BY <3>1, DecodeFacts
    <3>3. /\ shift' = Decode(shift, extended, code).shift
          /\ extended' = Decode(shift, extended, code).extended
      BY <1>3 DEF KeyboardIRQ, code
    <3>. QED BY <3>2, <3>3 DEF code
  <2>3. /\ buffer' \in [Ring -> Values \cup {0}]
        /\ head' \in Ring /\ lost' \in BOOLEAN
        /\ \A i \in Ring : Occupied(i)' => buffer'[i] \in Values
    BY <1>3, <2>2, StoredTypes DEF KeyboardIRQ
  <2>4. pc' \in PCs
    BY <1>3 DEF KeyboardIRQ, Resumed, PCs, TypeOK
  <2>. QED BY <1>3, <2>1, <2>2, <2>3, <2>4 DEF KeyboardIRQ, TypeOK
<1>4. CASE TimerIRQ
  BY <1>4 DEF TimerIRQ, Resumed, PCs, TypeOK
<1>5. CASE Lock
  BY <1>5 DEF Lock, PCs, TypeOK
<1>6. CASE Poll
  <2>1. /\ head \in Ring /\ tail \in Ring
        /\ Inc(tail) \in Ring /\ Inc(tail) = IF tail = N - 1 THEN 0 ELSE tail + 1
    BY IncFacts DEF TypeOK
  <2>2. CASE tail # head /\ c' = buffer[tail] /\ tail' = Inc(tail)
    <3>1. c' \in Values
      BY <2>1, <2>2, RingAssumption DEF TypeOK, Ring
    <3>2. ASSUME NEW i \in Ring, Occupied(i)' PROVE Occupied(i)
      BY <1>6, <2>1, <2>2, <3>2, RingAssumption DEF Poll, Ring
    <3>. QED BY <1>6, <2>1, <2>2, <3>1, <3>2 DEF Poll, PCs, TypeOK
  <2>3. CASE tail = head /\ c' = -1 /\ UNCHANGED tail
    BY <1>6, <2>3 DEF Poll, PCs, TypeOK
  <2>. QED BY <1>6, <2>2, <2>3 DEF Poll
<1>7. CASE Unlock
  BY <1>7 DEF Unlock, PCs, TypeOK
<1>8. CASE Test
  BY <1>8, AppendProperties DEF Test, PCs, TypeOK
<1>9. CASE Finish
  BY <1>9 DEF Finish, PCs, TypeOK
<1>10. CASE UNCHANGED vars
  BY <1>10 DEF vars, TypeOK
<1>. QED BY <1>1, <1>2, <1>3, <1>4, <1>5, <1>6, <1>7, <1>8, <1>9, <1>10
         DEF Next, Reader

\* Every reachable state is well typed: the indices stay in the ring and the
\* decoder returns nothing but keys.
THEOREM KeyboardTyped == Spec => []TypeOK
BY InitTypes, NextTypes, PTL DEF Spec

----------------------------------------------------------------------------
\* Interrupts are off exactly between cli and sti.
MaskedInPoll == intf <=> pc \notin {"locked", "unlock"}

\* Every step keeps interrupts off between cli and sti only.
LEMMA NextMasked == TypeOK /\ MaskedInPoll /\ [Next]_vars => MaskedInPoll'
<1> SUFFICES ASSUME TypeOK, MaskedInPoll, [Next]_vars PROVE MaskedInPoll'
  OBVIOUS
<1> USE DEF MaskedInPoll, Resumed, TypeOK, PCs
<1>1. CASE \E k \in Keys : Press(k) \/ Release(k)
  BY <1>1 DEF Press, Release, reader
<1>2. CASE KeyboardIRQ \/ TimerIRQ
  BY <1>2 DEF KeyboardIRQ, TimerIRQ
<1>3. CASE Reader
  BY <1>3 DEF Reader, Lock, Poll, Unlock, Test, Finish
<1>4. CASE UNCHANGED vars
  BY <1>4 DEF vars, reader
<1>. QED BY <1>1, <1>2, <1>3, <1>4 DEF Next

\* The processor never executes hlt with interrupts off.
THEOREM SleepIsInterruptible == Spec => []SleepsInterruptible
<1>1. Init => MaskedInPoll
  BY DEF Init, MaskedInPoll
<1>2. MaskedInPoll => SleepsInterruptible
  BY DEF MaskedInPoll, SleepsInterruptible
<1>. QED BY <1>1, <1>2, InitTypes, NextTypes, NextMasked, PTL DEF Spec

----------------------------------------------------------------------------
\* The ring implements the queue: an interrupt's key is a Put, a successful
\* poll a Take, and no other step of any actor changes the unread keys.
LEMMA SameRing ==
  ASSUME UNCHANGED <<buffer, head, tail>>
  PROVE  Unread' = Unread
BY DEF Unread, Count

\* The queue is empty at first.
LEMMA InitQueue == Init => Q!Init
<1> SUFFICES ASSUME Init PROVE Unread = <<>>
  BY DEF Q!Init
<1>1. Count = 0
  BY DEF Init, Count
<1>2. Len(Unread) = 0 /\ Unread \in Seq(Values \cup {0})
  BY <1>1, InitTypes, UnreadFacts
<1>. QED BY <1>2, EmptySeq

\* Every step of the keyboard is a step of the queue or leaves it alone.
LEMMA NextQueue == TypeOK /\ TypeOK' /\ [Next]_vars => [Q!Next]_Unread
<1> SUFFICES ASSUME TypeOK, TypeOK', [Next]_vars PROVE [Q!Next]_Unread
  OBVIOUS
<1>1. CASE KeyboardIRQ
  <2> DEFINE key == Decode(shift, extended, Head(wire)).key
  <2>1. key \in Values \cup {0}
    BY <1>1, HeadTailProperties, DecodeFacts DEF KeyboardIRQ, TypeOK
  <2>2. Stored(key) /\ tail' = tail
    BY <1>1 DEF KeyboardIRQ
  <2> HIDE DEF key
  <2>3. CASE key > 0
    <3>1. key \in Values
      BY <2>1, <2>3
    <3>2. Unread' = IF Len(Unread) < N - 1 THEN Append(Unread, key) ELSE <<>>
      BY <2>2, <2>3, <3>1, StoreIsPut DEF Stored
    <3>. QED BY <3>1, <3>2 DEF Q!Next, Q!Put
  <2>4. CASE ~(key > 0)
    BY <2>2, <2>4, SameRing DEF Stored
  <2>. QED BY <2>3, <2>4
<1>2. CASE Poll
  <2>1. CASE tail # head /\ tail' = Inc(tail)
    BY <1>2, <2>1, PollIsTake DEF Poll, Q!Next, Q!Take
  <2>2. CASE UNCHANGED tail
    BY <1>2, <2>2, SameRing DEF Poll
  <2>. QED BY <1>2, <2>1, <2>2 DEF Poll
<1>3. CASE \E k \in Keys : Press(k) \/ Release(k)
  BY <1>3, SameRing DEF Press, Release, driver
<1>4. CASE TimerIRQ \/ Lock \/ Unlock \/ Test \/ Finish \/ UNCHANGED vars
  BY <1>4, SameRing DEF TimerIRQ, Lock, Unlock, Test, Finish, vars, driver
<1>. QED BY <1>1, <1>2, <1>3, <1>4 DEF Next, Reader

\* The ring behaves as the queue of KeyQueue: keys come out in the order they
\* went in, none twice, and keys are lost only all together on a full ring.
THEOREM RingImplementsQueue == Spec => RingIsQueue
<1>1. Init /\ [][Next]_vars => []TypeOK
  BY InitTypes, NextTypes, PTL
<1>. QED BY <1>1, InitQueue, NextQueue, PTL DEF Spec, RingIsQueue, Q!Safe
----------------------------------------------------------------------------
\* What is typed is read.  The keyboard's bytes lead the decoder and the keys it
\* has stored so far from one state to another.
Code    == 0 .. 255
Flag    == 0 .. 1
Reading == [shift : Flag, extended : Flag, keys : Seq(Nat)]
Bytes   == Seq(Code)

Bit(b)  == IF b THEN 1 ELSE 0

At(sh, ext, ks) == [shift |-> sh, extended |-> ext, keys |-> ks]

\* A key or none behind others.
Typed(ks, key) == IF key > 0 THEN Append(ks, key) ELSE ks

\* One byte decoded and its key stored.
Decoded(sh, ext, code) == Decode(sh = 1, ext = 1, code)
KeyOf(sh, ext, code)   == Decoded(sh, ext, code).key
ShiftOf(sh, ext, code) == Bit(Decoded(sh, ext, code).shift)
ExtOf(sh, ext, code)   == Bit(Decoded(sh, ext, code).extended)

After(x, code) ==
  At(ShiftOf(x.shift, x.extended, code), ExtOf(x.shift, x.extended, code),
     Typed(x.keys, KeyOf(x.shift, x.extended, code)))

\* K goes through the bytes s, one state after each.
Trace(K, x, s) ==
  /\ K \in [0 .. Len(s) -> Reading] /\ K[0] = x
  /\ \A i \in 1 .. Len(s) : K[i] = After(K[i - 1], s[i])

\* The bytes s lead from x to y.
Leads(x, s, y) == \E K \in [0 .. Len(s) -> Reading] : Trace(K, x, s) /\ K[Len(s)] = y

\* What a byte leads to is a state again.
LEMMA AfterFacts ==
  ASSUME NEW x \in Reading, NEW code \in Code
  PROVE  After(x, code) \in Reading
<1> DEFINE sh == x.shift = 1
           ext == x.extended = 1
           key == KeyOf(x.shift, x.extended, code)
           s == ShiftOf(x.shift, x.extended, code)
           e == ExtOf(x.shift, x.extended, code)
           ks == Typed(x.keys, key)
<1>1. x.keys \in Seq(Nat) /\ sh \in BOOLEAN /\ ext \in BOOLEAN /\ code \in 0 .. 255
  BY DEF Reading, Code
<1>2. After(x, code) = At(s, e, ks)
  BY DEF After
<1>3. key = Decode(sh, ext, code).key
  BY DEF KeyOf, Decoded
<1> HIDE DEF sh, ext
<1>4. Decode(sh, ext, code).key \in Values \cup {0}
  BY <1>1, DecodeFacts
<1> HIDE DEF key
<1>5. key \in Values \cup {0}
  BY <1>3, <1>4
<1>6. key \in Nat
  BY <1>5, ValuesArePositive
<1>7. ks \in Seq(Nat)
  BY <1>1, <1>6, AppendProperties DEF Typed
<1>8. s \in Flag /\ e \in Flag
  BY DEF ShiftOf, ExtOf, Bit, Flag
<1> HIDE DEF ks, s, e
<1>. QED BY <1>2, <1>7, <1>8 DEF Reading, At

\* No bytes lead nowhere.
LEMMA LeadsNone ==
  ASSUME NEW x \in Reading
  PROVE  Leads(x, <<>>, x)
<1> DEFINE K == [i \in 0 .. 0 |-> x]
<1>1. Len(<<>>) = 0
  OBVIOUS
<1>2. K \in [0 .. 0 -> Reading] /\ K[0] = x
  OBVIOUS
<1> HIDE DEF K
<1>3. \A i \in 1 .. 0 : FALSE
  OBVIOUS
<1>. QED BY <1>1, <1>2, <1>3 DEF Leads, Trace

\* And from nowhere else.
LEMMA LeadsNoneOnly ==
  ASSUME NEW x, NEW y, Leads(x, <<>>, y)
  PROVE  y = x
BY DEF Leads, Trace

\* One byte leads to the state behind it.
LEMMA LeadsOne ==
  ASSUME NEW x \in Reading, NEW code \in Code
  PROVE  Leads(x, <<code>>, After(x, code))
<1> DEFINE y == After(x, code)
           K == [i \in 0 .. 1 |-> IF i = 0 THEN x ELSE y]
<1>1. y \in Reading
  BY AfterFacts
<1>2. Len(<<code>>) = 1 /\ <<code>>[1] = code
  OBVIOUS
<1> HIDE DEF y
<1>3. K \in [0 .. 1 -> Reading] /\ K[0] = x /\ K[1] = y
  BY <1>1
<1> HIDE DEF K
<1>4. \A i \in 1 .. 1 : K[i] = After(K[i - 1], <<code>>[i])
  <2>1. K[1] = After(K[0], <<code>>[1])
    BY <1>2, <1>3 DEF y
  <2>2. \A i \in 1 .. 1 : i = 1 /\ i - 1 = 0
    OBVIOUS
  <2>. QED BY <2>1, <2>2
<1>. QED BY <1>2, <1>3, <1>4 DEF Leads, Trace, y

\* What leads from x to y and what leads on from there, one behind the other.
LEMMA LeadsOn ==
  ASSUME NEW x, NEW y, NEW z, NEW s \in Bytes, NEW t \in Bytes,
         Leads(x, s, y), Leads(y, t, z)
  PROVE  Leads(x, s \o t, z)
<1>1. PICK K \in [0 .. Len(s) -> Reading] : Trace(K, x, s) /\ K[Len(s)] = y
  BY DEF Leads
<1>2. PICK L \in [0 .. Len(t) -> Reading] : Trace(L, y, t) /\ L[Len(t)] = z
  BY DEF Leads
<1> DEFINE m == Len(s)
           n == Len(t)
           st == s \o t
           M == [i \in 0 .. m + n |-> IF i <= m THEN K[i] ELSE L[i - m]]
<1>3. m \in Nat /\ n \in Nat
  BY DEF Bytes
<1>4. /\ Len(st) = m + n
      /\ \A j \in 1 .. m : st[j] = s[j]
      /\ \A j \in 1 .. n : st[m + j] = t[j]
  BY ConcatFacts DEF Bytes
<1>5. /\ K \in [0 .. m -> Reading] /\ K[0] = x /\ K[m] = y
      /\ \A i \in 1 .. m : K[i] = After(K[i - 1], s[i])
  BY <1>1 DEF Trace
<1>6. /\ L \in [0 .. n -> Reading] /\ L[0] = y /\ L[n] = z
      /\ \A i \in 1 .. n : L[i] = After(L[i - 1], t[i])
  BY <1>2 DEF Trace
<1> HIDE DEF m, n, st
<1>7. M \in [0 .. m + n -> Reading]
  BY <1>3, <1>5, <1>6
<1>8. M[0] = x
  BY <1>3, <1>5
<1>9. \A j \in 0 .. n : M[m + j] = L[j]
  <2> SUFFICES ASSUME NEW j \in 0 .. n PROVE M[m + j] = L[j]
    OBVIOUS
  <2>1. CASE j = 0
    BY <1>3, <1>5, <1>6, <2>1
  <2>2. CASE j > 0
    <3>1. m + j \in 0 .. m + n /\ ~(m + j <= m) /\ (m + j) - m = j
      BY <1>3, <2>2
    <3>. QED BY <3>1
  <2>. QED BY <2>1, <2>2
<1>10. M[m + n] = z
  BY <1>3, <1>6, <1>9
<1>11. ASSUME NEW i \in 1 .. m + n
       PROVE  M[i] = After(M[i - 1], st[i])
  <2>1. CASE i <= m
    <3>1. i \in 1 .. m /\ i - 1 \in 0 .. m + n /\ i - 1 <= m
      BY <1>3, <2>1
    <3>2. M[i] = K[i] /\ M[i - 1] = K[i - 1]
      BY <1>3, <2>1, <3>1
    <3>. QED BY <1>4, <1>5, <3>1, <3>2
  <2>2. CASE ~(i <= m)
    <3> DEFINE j == i - m
    <3>1. j \in 1 .. n /\ i = m + j /\ j - 1 \in 0 .. n /\ j \in 0 .. n /\ i - 1 = m + (j - 1)
      BY <1>3, <2>2
    <3> HIDE DEF j
    <3>2. M[m + j] = L[j] /\ M[m + (j - 1)] = L[j - 1]
      BY <1>9, <3>1
    <3> HIDE DEF M
    <3>. QED BY <1>4, <1>6, <3>1, <3>2
  <2>. QED BY <2>1, <2>2
<1> HIDE DEF M
<1>12. Trace(M, x, st) /\ M[Len(st)] = z
  BY <1>4, <1>7, <1>8, <1>10, <1>11 DEF Trace
<1>. QED BY <1>4, <1>7, <1>12 DEF Leads, st

\* The first byte of several.
LEMMA LeadsBehind ==
  ASSUME NEW x, NEW y, NEW s \in Bytes, s # <<>>, Leads(x, s, y)
  PROVE  Leads(After(x, Head(s)), Tail(s), y)
<1>1. PICK K \in [0 .. Len(s) -> Reading] : Trace(K, x, s) /\ K[Len(s)] = y
  BY DEF Leads
<1> DEFINE n == Len(s)
           t == Tail(s)
           L == [i \in 0 .. n - 1 |-> K[i + 1]]
<1>2. n \in Nat /\ n >= 1 /\ Head(s) = s[1]
  BY EmptySeq DEF Bytes
<1>3. Len(t) = n - 1 /\ \A i \in 1 .. n - 1 : t[i] = s[i + 1]
  BY HeadTailProperties DEF Bytes
<1>4. /\ K \in [0 .. n -> Reading] /\ K[0] = x /\ K[n] = y
      /\ \A i \in 1 .. n : K[i] = After(K[i - 1], s[i])
  BY <1>1 DEF Trace
<1> HIDE DEF n, t
<1>5. L \in [0 .. n - 1 -> Reading] /\ L[n - 1] = y
  BY <1>2, <1>4
<1>6. L[0] = After(x, Head(s))
  <2>1. L[0] = K[1] /\ K[1] = After(K[0], s[1])
    <3>1. 0 + 1 = 1 /\ 1 - 1 = 0 /\ 0 \in 0 .. n - 1 /\ 1 \in 1 .. n
      BY <1>2
    <3>2. L[0] = K[0 + 1]
      BY <3>1
    <3>3. K[1] = After(K[1 - 1], s[1])
      BY <1>4, <3>1
    <3>. QED BY <3>1, <3>2, <3>3
  <2>. QED BY <1>2, <1>4, <2>1
<1>7. ASSUME NEW i \in 1 .. n - 1
      PROVE  L[i] = After(L[i - 1], t[i])
  <2>1. i \in 0 .. n - 1 /\ i - 1 \in 0 .. n - 1 /\ i + 1 \in 1 .. n /\ (i + 1) - 1 = i /\ (i - 1) + 1 = i
    BY <1>2
  <2>2. L[i] = K[i + 1] /\ L[i - 1] = K[i]
    BY <2>1
  <2>3. K[i + 1] = After(K[i], s[i + 1])
    BY <1>4, <2>1
  <2>. QED BY <1>3, <2>2, <2>3
<1> HIDE DEF L
<1>. QED BY <1>3, <1>5, <1>6, <1>7 DEF Leads, Trace, t

\* A state of the decoder and its parts.
LEMMA AtFacts ==
  ASSUME NEW sh \in Flag, NEW ext \in Flag, NEW ks \in Seq(Nat)
  PROVE  /\ At(sh, ext, ks) \in Reading
         /\ At(sh, ext, ks).shift = sh /\ At(sh, ext, ks).extended = ext
         /\ At(sh, ext, ks).keys = ks
BY DEF At, Reading

\* Where the decoder stands behind a byte it has decoded.
LEMMA AfterDecode ==
  ASSUME NEW sh \in Flag, NEW ext \in Flag, NEW ks \in Seq(Nat), NEW code
  PROVE  After(At(sh, ext, ks), code)
           = At(ShiftOf(sh, ext, code), ExtOf(sh, ext, code), Typed(ks, KeyOf(sh, ext, code)))
<1> DEFINE x == At(sh, ext, ks)
<1>1. x.shift = sh /\ x.extended = ext /\ x.keys = ks
  BY AtFacts
<1> HIDE DEF x
<1>2. After(x, code)
        = At(ShiftOf(sh, ext, code), ExtOf(sh, ext, code), Typed(ks, KeyOf(sh, ext, code)))
  BY <1>1 DEF After
<1>. QED BY <1>2 DEF x

\* What the decoder makes of each kind of byte.
LEMMA DecodedFacts ==
  ASSUME NEW sh \in Flag, NEW ext \in Flag, NEW code \in Code
  PROVE  /\ KeyOf(sh, ext, code) = IF code = 224 THEN 0
                                   ELSE IF ext = 1 THEN ExtendedKey(code)
                                   ELSE IF code >= 128 \/ code \in {42, 54} THEN 0
                                   ELSE PlainKey(sh = 1, code)
         /\ ShiftOf(sh, ext, code) = IF code = 224 \/ ext = 1 THEN sh
                                     ELSE IF code \in {170, 182} THEN 0
                                     ELSE IF code \in {42, 54} THEN 1 ELSE sh
         /\ ExtOf(sh, ext, code) = IF code = 224 THEN 1 ELSE 0
<1> DEFINE a == sh = 1
           p == PlainKey(a, code)
<1>a. code \in Nat /\ (ext = 0 \/ ext = 1)
  BY DEF Code, Flag
<1>1. Bit(a) = sh
  BY DEF Flag, Bit
<1>b. Bit(TRUE) = 1 /\ Bit(FALSE) = 0
  BY DEF Bit
<1>2. CASE code = 224
  <2>1. Decoded(sh, ext, code) = [key |-> 0, shift |-> a, extended |-> TRUE]
    BY <1>2 DEF Decoded, Decode
  <2> HIDE DEF a
  <2>2. /\ KeyOf(sh, ext, code) = 0 /\ ShiftOf(sh, ext, code) = Bit(a)
        /\ ExtOf(sh, ext, code) = Bit(TRUE)
    BY <2>1 DEF KeyOf, ShiftOf, ExtOf
  <2>. QED BY <1>b, <1>1, <1>2, <2>2
<1>3. CASE code # 224 /\ ext = 1
  <2>1. Decoded(sh, ext, code) = [key |-> ExtendedKey(code), shift |-> a, extended |-> FALSE]
    BY <1>3 DEF Decoded, Decode
  <2> HIDE DEF a
  <2>2. /\ KeyOf(sh, ext, code) = ExtendedKey(code) /\ ShiftOf(sh, ext, code) = Bit(a)
        /\ ExtOf(sh, ext, code) = Bit(FALSE)
    BY <2>1 DEF KeyOf, ShiftOf, ExtOf
  <2>. QED BY <1>b, <1>1, <1>3, <2>2
<1>4. CASE code # 224 /\ ext # 1 /\ code >= 128
  <2> DEFINE b == a /\ code - 128 \notin {42, 54}
  <2>1. Decoded(sh, ext, code) = [key |-> 0, shift |-> b, extended |-> FALSE]
    BY <1>4 DEF Decoded, Decode
  <2>2. Bit(b) = IF code \in {170, 182} THEN 0 ELSE sh
    <3>1. code - 128 \in {42, 54} <=> code \in {170, 182}
      BY <1>a
    <3>. QED BY <1>1, <3>1 DEF Bit
  <2> HIDE DEF b
  <2>3. /\ KeyOf(sh, ext, code) = 0 /\ ShiftOf(sh, ext, code) = Bit(b)
        /\ ExtOf(sh, ext, code) = Bit(FALSE)
    BY <2>1 DEF KeyOf, ShiftOf, ExtOf
  <2>4. code \notin {42, 54}
    BY <1>4
  <2>. QED BY <1>b, <1>4, <2>2, <2>3, <2>4
<1>5. CASE code # 224 /\ ext # 1 /\ ~(code >= 128) /\ code \in {42, 54}
  <2>1. Decoded(sh, ext, code) = [key |-> 0, shift |-> TRUE, extended |-> FALSE]
    BY <1>5 DEF Decoded, Decode
  <2>2. /\ KeyOf(sh, ext, code) = 0 /\ ShiftOf(sh, ext, code) = Bit(TRUE)
        /\ ExtOf(sh, ext, code) = Bit(FALSE)
    BY <2>1 DEF KeyOf, ShiftOf, ExtOf
  <2>3. code \notin {170, 182}
    BY <1>5
  <2>4. KeyOf(sh, ext, code) = 0 /\ ShiftOf(sh, ext, code) = 1 /\ ExtOf(sh, ext, code) = 0
    BY <1>b, <2>2
  <2>. QED BY <1>5, <2>3, <2>4
<1>6. CASE code # 224 /\ ext # 1 /\ ~(code >= 128) /\ code \notin {42, 54}
  <2>1. Decoded(sh, ext, code) = [key |-> p, shift |-> a, extended |-> FALSE]
    BY <1>6 DEF Decoded, Decode
  <2>2. p = PlainKey(sh = 1, code)
    OBVIOUS
  <2> HIDE DEF a, p
  <2>3. /\ KeyOf(sh, ext, code) = p /\ ShiftOf(sh, ext, code) = Bit(a)
        /\ ExtOf(sh, ext, code) = Bit(FALSE)
    BY <2>1 DEF KeyOf, ShiftOf, ExtOf
  <2>4. code \notin {170, 182}
    BY <1>6
  <2>. QED BY <1>b, <1>1, <1>6, <2>2, <2>3, <2>4
<1>. QED BY <1>2, <1>3, <1>4, <1>5, <1>6

\* So the prefix only sets its flag,
LEMMA AfterPrefix ==
  ASSUME NEW sh \in Flag, NEW ext \in Flag, NEW ks \in Seq(Nat)
  PROVE  After(At(sh, ext, ks), 224) = At(sh, 1, ks)
<1>a. 224 \in Code
  BY DEF Code
<1>1. /\ KeyOf(sh, ext, 224) = 0 /\ ShiftOf(sh, ext, 224) = sh /\ ExtOf(sh, ext, 224) = 1
  BY <1>a, DecodedFacts
<1>2. Typed(ks, 0) = ks
  BY DEF Typed
<1>. QED BY <1>1, <1>2, AfterDecode

\* the byte behind it types what it types and clears the flag,
LEMMA AfterExtended ==
  ASSUME NEW sh \in Flag, NEW ks \in Seq(Nat), NEW code \in Code, code # 224
  PROVE  After(At(sh, 1, ks), code) = At(sh, 0, Typed(ks, ExtendedKey(code)))
<1>a. 1 \in Flag
  BY DEF Flag
<1>1. /\ KeyOf(sh, 1, code) = ExtendedKey(code) /\ ShiftOf(sh, 1, code) = sh
      /\ ExtOf(sh, 1, code) = 0
  BY <1>a, DecodedFacts
<1>. QED BY <1>a, <1>1, AfterDecode

\* a code that is no shift key's types what it types,
LEMMA AfterPlain ==
  ASSUME NEW sh \in Flag, NEW ks \in Seq(Nat),
         NEW code \in Code, code < 128, code \notin {42, 54}
  PROVE  After(At(sh, 0, ks), code) = At(sh, 0, Typed(ks, PlainKey(sh = 1, code)))
<1> DEFINE p == PlainKey(sh = 1, code)
<1>1. code \in Code /\ code # 224 /\ code \notin {170, 182} /\ ~(code >= 128) /\ 0 \in Flag
  BY DEF Code, Flag
<1>2. /\ KeyOf(sh, 0, code) = p /\ ShiftOf(sh, 0, code) = sh /\ ExtOf(sh, 0, code) = 0
  BY <1>1, DecodedFacts
<1> HIDE DEF p
<1>3. After(At(sh, 0, ks), code) = At(sh, 0, Typed(ks, p))
  BY <1>1, <1>2, AfterDecode
<1>. QED BY <1>3 DEF p

\* that of a shift key sets its flag,
LEMMA AfterShift ==
  ASSUME NEW sh \in Flag, NEW ks \in Seq(Nat), NEW code \in Code, code \in {42, 54}
  PROVE  After(At(sh, 0, ks), code) = At(1, 0, ks)
<1>1. code # 224 /\ code \notin {170, 182} /\ ~(code >= 128) /\ 0 \in Flag
  BY DEF Flag
<1>2. /\ KeyOf(sh, 0, code) = 0 /\ ShiftOf(sh, 0, code) = 1 /\ ExtOf(sh, 0, code) = 0
  BY <1>1, DecodedFacts
<1>3. Typed(ks, 0) = ks
  BY DEF Typed
<1>. QED BY <1>1, <1>2, <1>3, AfterDecode

\* and a release clears it if it is a shift key's.
LEMMA AfterRelease ==
  ASSUME NEW sh \in Flag, NEW ks \in Seq(Nat), NEW code \in Code, code >= 128, code # 224
  PROVE  After(At(sh, 0, ks), code) = At(IF code \in {170, 182} THEN 0 ELSE sh, 0, ks)
<1> DEFINE s == IF code \in {170, 182} THEN 0 ELSE sh
<1>1. code \in Nat /\ code \notin {42, 54} /\ 0 \in Flag
  BY DEF Code, Flag
<1>2. /\ KeyOf(sh, 0, code) = 0 /\ ShiftOf(sh, 0, code) = s /\ ExtOf(sh, 0, code) = 0
  BY <1>1, DecodedFacts
<1> HIDE DEF s
<1>3. Typed(ks, 0) = ks
  BY DEF Typed
<1>4. After(At(sh, 0, ks), code) = At(s, 0, ks)
  BY <1>1, <1>2, <1>3, AfterDecode
<1>. QED BY <1>4 DEF s

\* Two bytes, the first of them the prefix.
LEMMA Prefixed ==
  ASSUME NEW sh \in Flag, NEW ks \in Seq(Nat), NEW code \in Code, code # 224
  PROVE  /\ Leads(At(sh, 0, ks), <<224, code>>, At(sh, 0, Typed(ks, ExtendedKey(code))))
         /\ <<224, code>> \in Bytes
<1>1. /\ 224 \in Code /\ <<224>> \in Bytes /\ <<code>> \in Bytes
      /\ <<224>> \o <<code>> = <<224, code>> /\ <<224, code>> \in Bytes
  <2>1. 224 \in Code
    BY DEF Code
  <2>2. <<224>> \o <<code>> = <<224, code>>
    <3> DEFINE p == <<224>>
               q == <<code>>
               pq == <<224, code>>
    <3>1. code \in Nat
      BY DEF Code
    <3>2. /\ p \in Seq(Nat) /\ Len(p) = 1 /\ p[1] = 224
          /\ q \in Seq(Nat) /\ Len(q) = 1 /\ q[1] = code
          /\ pq \in Seq(Nat) /\ Len(pq) = 2 /\ pq[1] = 224 /\ pq[2] = code
      BY <3>1
    <3> HIDE DEF p, q, pq
    <3>3. p \in Seq(Nat) /\ q \in Seq(Nat)
      BY <3>2
    <3>4. /\ p \o q \in Seq(Nat) /\ Len(p \o q) = Len(p) + Len(q)
          /\ \A j \in 1 .. Len(p) : (p \o q)[j] = p[j]
          /\ \A j \in 1 .. Len(q) : (p \o q)[Len(p) + j] = q[j]
      BY <3>3, ConcatFacts
    <3> DEFINE v == p \o q
    <3>5. v \in Seq(Nat) /\ pq \in Seq(Nat) /\ Len(v) = Len(pq) /\ \A i \in 1 .. Len(v) : v[i] = pq[i]
      <4>1. v[1] = 224 /\ v[1 + 1] = code /\ Len(v) = 2
        BY <3>2, <3>4
      <4>. QED BY <3>2, <3>4, <4>1
    <3> HIDE DEF v
    <3>6. v = pq
      BY <3>5, SeqEqual
    <3>. QED BY <3>6 DEF v, p, q, pq
  <2>3. <<224>> \in Seq(Code) /\ <<code>> \in Seq(Code) /\ <<224, code>> \in Seq(Code)
    BY <2>1
  <2>. QED BY <2>1, <2>2, <2>3 DEF Bytes
<1>a. 0 \in Flag /\ 1 \in Flag
  BY DEF Flag
<1>2. /\ At(sh, 0, ks) \in Reading /\ At(sh, 1, ks) \in Reading
      /\ After(At(sh, 0, ks), 224) = At(sh, 1, ks)
      /\ After(At(sh, 1, ks), code) = At(sh, 0, Typed(ks, ExtendedKey(code)))
  BY <1>a, AtFacts, AfterPrefix, AfterExtended
<1>3. /\ Leads(At(sh, 0, ks), <<224>>, At(sh, 1, ks))
      /\ Leads(At(sh, 1, ks), <<code>>, At(sh, 0, Typed(ks, ExtendedKey(code))))
  <2>1. Leads(At(sh, 0, ks), <<224>>, After(At(sh, 0, ks), 224))
    BY <1>1, <1>2, LeadsOne
  <2>2. Leads(At(sh, 1, ks), <<code>>, After(At(sh, 1, ks), code))
    BY <1>2, LeadsOne
  <2>. QED BY <1>2, <2>1, <2>2
<1>4. Leads(At(sh, 0, ks), <<224>> \o <<code>>, At(sh, 0, Typed(ks, ExtendedKey(code))))
  BY <1>1, <1>3, LeadsOn
<1>. QED BY <1>1, <1>4

\* Two such pairs, one behind the other.
LEMMA PairOfPrefixed ==
  ASSUME NEW a \in Code, NEW b \in Code
  PROVE  <<224, a>> \o <<224, b>> = <<224, a, 224, b>>
<1> DEFINE s == <<224, a>>
           u == <<224, b>>
           w == <<224, a, 224, b>>
<1>1. /\ s \in Seq(Nat) /\ Len(s) = 2 /\ s[1] = 224 /\ s[2] = a
      /\ u \in Seq(Nat) /\ Len(u) = 2 /\ u[1] = 224 /\ u[2] = b
      /\ w \in Seq(Nat) /\ Len(w) = 4 /\ w[1] = 224 /\ w[2] = a /\ w[3] = 224 /\ w[4] = b
  BY DEF Code
<1> HIDE DEF s, u, w
<1>2. /\ s \o u \in Seq(Nat) /\ Len(s \o u) = 4
      /\ (s \o u)[1] = 224 /\ (s \o u)[2] = a /\ (s \o u)[2 + 1] = 224 /\ (s \o u)[2 + 2] = b
  <2>1. /\ s \o u \in Seq(Nat) /\ Len(s \o u) = Len(s) + Len(u)
        /\ \A j \in 1 .. Len(s) : (s \o u)[j] = s[j]
        /\ \A j \in 1 .. Len(u) : (s \o u)[Len(s) + j] = u[j]
    <3>1. s \in Seq(Nat) /\ u \in Seq(Nat)
      BY <1>1
    <3>. QED BY <3>1, ConcatFacts
  <2>. QED BY <1>1, <2>1
<1>3. \A i \in 1 .. 4 : (s \o u)[i] = w[i]
  BY <1>1, <1>2
<1>4. s \o u = w
  <2> DEFINE v == s \o u
  <2>1. v \in Seq(Nat) /\ w \in Seq(Nat) /\ Len(v) = Len(w) /\ \A i \in 1 .. Len(v) : v[i] = w[i]
    BY <1>1, <1>2, <1>3
  <2> HIDE DEF v
  <2>2. v = w
    BY <2>1, SeqEqual
  <2>. QED BY <2>2 DEF v
<1>. QED BY <1>4 DEF s, u, w

\* A key going down sets the shift flag if it is a shift key, and types what it
\* should with the flag as it was.
LEMMA PressLeads ==
  ASSUME NEW k \in Keys, NEW sh \in Flag, NEW ks \in Seq(Nat)
  PROVE  Leads(At(sh, 0, ks), Make[k],
               At(IF k \in ShiftKeys THEN 1 ELSE sh, 0, Typed(ks, Types[k][sh = 1])))
<1>1. PICK code \in 0 .. 127 : code # 96 /\ Sends(k, code)
  BY LayoutAssumption
<1>2. code \in Code /\ code # 224 /\ code < 128 /\ 0 \in Flag
  BY DEF Code, Flag
<1>b. At(sh, 0, ks) \in Reading
  BY <1>2, AtFacts
<1>3. CASE /\ k \in ShiftKeys /\ code \in {42, 54} /\ Make[k] = <<code>>
           /\ Types[k] = [b \in BOOLEAN |-> 0]
  <2>1. Types[k][sh = 1] = 0 /\ Typed(ks, 0) = ks
    BY <1>3 DEF Typed
  <2>2. After(At(sh, 0, ks), code) = At(1, 0, ks)
    BY <1>2, <1>3, AfterShift
  <2>3. Leads(At(sh, 0, ks), <<code>>, After(At(sh, 0, ks), code))
    BY <1>2, <1>b, LeadsOne
  <2>. QED BY <1>3, <2>1, <2>2, <2>3
<1>4. CASE /\ k \notin ShiftKeys /\ code \notin {42, 54} /\ Make[k] = <<code>>
           /\ Types[k] = [b \in BOOLEAN |-> PlainKey(b, code)]
  <2>1. Types[k][sh = 1] = PlainKey(sh = 1, code)
    BY <1>4
  <2>2. After(At(sh, 0, ks), code) = At(sh, 0, Typed(ks, PlainKey(sh = 1, code)))
    BY <1>2, <1>4, AfterPlain
  <2>3. Leads(At(sh, 0, ks), <<code>>, After(At(sh, 0, ks), code))
    BY <1>2, <1>b, LeadsOne
  <2>. QED BY <1>4, <2>1, <2>2, <2>3
<1>5. CASE /\ k \notin ShiftKeys /\ Make[k] = <<224, code>>
           /\ Types[k] = [b \in BOOLEAN |-> ExtendedKey(code)]
  <2>1. Types[k][sh = 1] = ExtendedKey(code)
    BY <1>5
  <2>. QED BY <1>2, <1>5, <2>1, Prefixed
<1>6. CASE /\ k \notin ShiftKeys /\ Make[k] = <<224, 42, 224, code>>
           /\ Types[k] = [b \in BOOLEAN |-> ExtendedKey(code)]
  <2>1. Types[k][sh = 1] = ExtendedKey(code) /\ ExtendedKey(42) = 0 /\ Typed(ks, 0) = ks
    BY <1>6 DEF ExtendedKey, Typed
  <2>2. 42 \in Code /\ 42 # 224
    BY DEF Code
  <2>3. /\ Leads(At(sh, 0, ks), <<224, 42>>, At(sh, 0, Typed(ks, ExtendedKey(42))))
        /\ <<224, 42>> \in Bytes
    BY <2>2, Prefixed
  <2>4. /\ Leads(At(sh, 0, ks), <<224, code>>, At(sh, 0, Typed(ks, ExtendedKey(code))))
        /\ <<224, code>> \in Bytes
    BY <1>2, Prefixed
  <2>5. <<224, 42>> \o <<224, code>> = <<224, 42, 224, code>>
    BY <1>2, <2>2, PairOfPrefixed
  <2>6. Leads(At(sh, 0, ks), <<224, 42>>, At(sh, 0, ks))
    BY <2>1, <2>3
  <2>7. Leads(At(sh, 0, ks), <<224, 42>> \o <<224, code>>, At(sh, 0, Typed(ks, ExtendedKey(code))))
    BY <2>3, <2>4, <2>6, LeadsOn
  <2>. QED BY <1>6, <2>1, <2>5, <2>7
<1>. QED BY <1>1, <1>3, <1>4, <1>5, <1>6 DEF Sends

\* A key going up types nothing and clears the shift flag if it is a shift key.
LEMMA ReleaseLeads ==
  ASSUME NEW k \in Keys, NEW sh \in Flag, NEW ks \in Seq(Nat)
  PROVE  Leads(At(sh, 0, ks), Break[k],
               At(IF k \in ShiftKeys THEN 0 ELSE sh, 0, ks))
<1>1. PICK code \in 0 .. 127 : code # 96 /\ Sends(k, code)
  BY LayoutAssumption
<1>a. PICK up \in Code : up = code + 128
  BY DEF Code
<1>b. code # 96
  BY <1>1
<1>2. /\ up >= 128 /\ up # 224 /\ 0 \in Flag
      /\ up \in {170, 182} <=> code \in {42, 54}
  BY <1>a, <1>b DEF Flag
<1>c. Typed(ks, 0) = ks
  BY DEF Typed
<1>d. up # 72 /\ up # 80
  BY <1>2
<1>e. ExtendedKey(up) = 0
  BY <1>d DEF ExtendedKey
<1>f. ExtendedKey(170) = 0
  BY DEF ExtendedKey
<1>3. /\ ExtendedKey(up) = 0 /\ ExtendedKey(170) = 0 /\ Typed(ks, 0) = ks
      /\ At(sh, 0, ks) \in Reading
  BY <1>2, <1>c, <1>e, <1>f, AtFacts
<1>4. /\ Leads(At(sh, 0, ks), <<224, up>>, At(sh, 0, ks))
      /\ <<224, up>> \in Bytes
  <2>1. /\ Leads(At(sh, 0, ks), <<224, up>>, At(sh, 0, Typed(ks, ExtendedKey(up))))
        /\ <<224, up>> \in Bytes
    BY <1>2, Prefixed
  <2>. QED BY <1>3, <2>1
<1>5. CASE Break[k] = <<up>> /\ (k \in ShiftKeys <=> code \in {42, 54})
  <2>1. After(At(sh, 0, ks), up) = At(IF up \in {170, 182} THEN 0 ELSE sh, 0, ks)
    BY <1>2, AfterRelease
  <2>2. Leads(At(sh, 0, ks), <<up>>, After(At(sh, 0, ks), up))
    BY <1>2, <1>3, LeadsOne
  <2>3. (up \in {170, 182}) = (k \in ShiftKeys)
    BY <1>2, <1>5
  <2>. QED BY <1>5, <2>1, <2>2, <2>3
<1>6. CASE k \notin ShiftKeys /\ Break[k] = <<224, up>>
  BY <1>4, <1>6
<1>7. CASE k \notin ShiftKeys /\ Break[k] = <<224, up, 224, 170>>
  <2>1. 170 \in Code /\ 170 # 224
    BY DEF Code
  <2>a. <<224, up>> \o <<224, 170>> = <<224, up, 224, 170>>
    BY <2>1, PairOfPrefixed
  <2>2. /\ Leads(At(sh, 0, ks), <<224, 170>>, At(sh, 0, Typed(ks, ExtendedKey(170))))
        /\ <<224, 170>> \in Bytes
    BY <2>1, Prefixed
  <2>3. Leads(At(sh, 0, ks), <<224, up>> \o <<224, 170>>, At(sh, 0, ks))
    BY <1>3, <1>4, <2>2, LeadsOn
  <2>. QED BY <1>7, <2>a, <2>3
<1>. QED BY <1>1, <1>a, <1>5, <1>6, <1>7 DEF Sends

\* A key that types with shift held types without it.
LEMMA TypesEitherWay ==
  ASSUME NEW k \in Keys, NEW a \in BOOLEAN, NEW b \in BOOLEAN
  PROVE  Types[k][a] > 0 <=> Types[k][b] > 0
<1>1. PICK code \in 0 .. 127 : code # 96 /\ Sends(k, code)
  BY LayoutAssumption
<1>2. /\ Base[code] \in 0 .. 127 /\ Shifted[code] \in 0 .. 127
      /\ Base[code] = 0 <=> Shifted[code] = 0
  BY TableAssumption
<1>3. PlainKey(a, code) > 0 <=> PlainKey(b, code) > 0
  BY <1>2 DEF PlainKey
<1>. QED BY <1>1, <1>3 DEF Sends

----------------------------------------------------------------------------
\* With the bytes still on the wire read, the reader has seen, or will see,
\* what was typed, and the shift flag stands as the shift keys do.
Seen == got \o InHand \o Unread

Faithful(y) ==
  /\ y.extended = 0 /\ Len(y.keys) = Len(meant)
  /\ ~both => /\ y.keys = meant
              /\ y.shift = Bit(held \cap ShiftKeys # {})

WillBeRead ==
  ~lost => \E y \in Reading : Leads(At(Bit(shift), Bit(extended), Seen), wire, y) /\ Faithful(y)

\* Two shift keys that are down together have been noted.
OneShift == ~both => \A i, j \in held \cap ShiftKeys : i = j

ReadInv == TypeOK /\ OneShift /\ WillBeRead

\* What is seen consists of keys.
LEMMA SeenFacts ==
  ASSUME TypeOK
  PROVE  Seen \in Seq(Nat) /\ got \in Seq(Nat) /\ InHand \in Seq(Nat) /\ Unread \in Seq(Nat)
<1>1. Values \subseteq Nat /\ Values \cup {0} \subseteq Nat
  BY ValuesArePositive
<1>2. Unread \in Seq(Nat)
  <2> DEFINE S == Values \cup {0}
  <2>1. S \subseteq Nat /\ Unread \in Seq(S)
    BY <1>1, UnreadFacts
  <2> HIDE DEF S
  <2>. QED BY <2>1, SeqMonotonic
<1>3. got \in Seq(Nat)
  <2>1. got \in Seq(Values)
    BY DEF TypeOK
  <2>. QED BY <1>1, <2>1, SeqMonotonic
<1>4. InHand \in Seq(Nat)
  BY <1>1 DEF TypeOK, InHand
<1>5. got \o InHand \in Seq(Nat)
  BY <1>3, <1>4, ConcatProperties
<1>6. Seen \in Seq(Nat)
  BY <1>2, <1>5, ConcatProperties DEF Seen
<1>. QED BY <1>2, <1>3, <1>4, <1>6

\* A press adds what the key types to what is meant, and its codes to the wire.
LEMMA PressRead ==
  ASSUME ReadInv, NEW k \in Keys, Press(k)
  PROVE  OneShift' /\ WillBeRead'
<1> DEFINE h == held \cap ShiftKeys # {}
           typed == Types[k][h]
<1>1. /\ held' = held \cup {k} /\ wire' = wire \o Make[k]
      /\ meant' = IF typed > 0 THEN Append(meant, typed) ELSE meant
      /\ UNCHANGED <<shift, extended, buffer, head, tail, lost, pc, c, got>>
  BY DEF Press, driver, reader
<1>2. both' = (both \/ \E i, j \in ShiftKeys \cap held' : i # j)
  BY DEF Press
<1>3. OneShift'
  BY <1>2 DEF OneShift
<1>4. Seen' = Seen
  BY <1>1, SameRing DEF Seen, InHand
<1>5. ASSUME ~lost
      PROVE  \E z \in Reading : Leads(At(Bit(shift), Bit(extended), Seen), wire', z) /\ Faithful(z)'
  <2>1. PICK y \in Reading : Leads(At(Bit(shift), Bit(extended), Seen), wire, y) /\ Faithful(y)
    BY <1>5 DEF ReadInv, WillBeRead
  <2>2. PICK sh \in Flag, ks \in Seq(Nat) : y = At(sh, 0, ks) /\ sh = y.shift /\ ks = y.keys
    BY <2>1 DEF Faithful, Reading, At
  <2>3. wire \in Bytes /\ Make[k] \in Bytes
    BY KeyAssumption DEF ReadInv, TypeOK, Bytes, Code
  <2> DEFINE key == Types[k][sh = 1]
             s == IF k \in ShiftKeys THEN 1 ELSE sh
             z == At(s, 0, Typed(ks, key))
  <2>4. Leads(y, Make[k], z)
    BY <2>2, PressLeads
  <2>5. Leads(At(Bit(shift), Bit(extended), Seen), wire', z)
    BY <1>1, <2>1, <2>3, <2>4, LeadsOn
  <2>6. typed > 0 <=> key > 0
    <3>1. h \in BOOLEAN /\ (sh = 1) \in BOOLEAN
      OBVIOUS
    <3>. QED BY <3>1, TypesEitherWay
  <2>7. key \in Nat /\ typed \in Nat
    <3>1. Types[k] \in [BOOLEAN -> Values \cup {0}] /\ Values \cup {0} \subseteq Nat
      BY KeyAssumption, ValuesArePositive
    <3>. QED BY <3>1
  <2>8. ~both' => ((sh = 1) = h)
    <3>1. ~both' => sh = Bit(h)
      BY <1>2, <2>1, <2>2 DEF Faithful
    <3>2. Bit(h) = 1 <=> h
      BY DEF Bit
    <3>. QED BY <3>1, <3>2
  <2>9. ~both' => key = typed
    BY <2>8
  <2> HIDE DEF key
  <2>10. meant \in Seq(Nat) /\ Len(ks) = Len(meant) /\ (~both => ks = meant)
    <3>1. meant \in Seq(Nat)
      <4>1. meant \in Seq(Values) /\ Values \subseteq Nat
        BY ValuesArePositive DEF ReadInv, TypeOK
      <4>. QED BY <4>1, SeqMonotonic
    <3>. QED BY <2>1, <2>2, <3>1 DEF Faithful
  <2> HIDE DEF typed
  <2>11. /\ Typed(ks, key) \in Seq(Nat) /\ Len(Typed(ks, key)) = Len(meant')
         /\ ~both' => Typed(ks, key) = meant'
    <3>1. CASE key > 0
      <4>1. Typed(ks, key) = Append(ks, key) /\ meant' = Append(meant, typed)
        BY <1>1, <2>6, <3>1 DEF Typed
      <4>2. Append(ks, key) \in Seq(Nat) /\ Len(Append(ks, key)) = Len(ks) + 1
            /\ Len(Append(meant, typed)) = Len(meant) + 1
        BY <2>7, <2>10, AppendProperties
      <4>3. ~both' => ~both
        BY <1>2
      <4>. QED BY <2>9, <2>10, <4>1, <4>2, <4>3
    <3>2. CASE ~(key > 0)
      <4>1. ~both' => ~both
        BY <1>2
      <4>. QED BY <1>1, <2>6, <2>10, <3>2, <4>1 DEF Typed
    <3>. QED BY <3>1, <3>2
  <2>12. s \in Flag /\ (~both' => s = Bit(held' \cap ShiftKeys # {}))
    <3>1. CASE k \in ShiftKeys
      <4>1. held' \cap ShiftKeys # {} /\ s = 1
        BY <1>1, <3>1
      <4>. QED BY <4>1 DEF Bit, Flag
    <3>2. CASE k \notin ShiftKeys
      <4>1. held' \cap ShiftKeys = held \cap ShiftKeys /\ s = sh /\ (~both' => ~both)
        BY <1>1, <1>2, <3>2
      <4>. QED BY <2>1, <2>2, <4>1 DEF Faithful
    <3>. QED BY <3>1, <3>2
  <2> DEFINE ts == Typed(ks, key)
  <2> HIDE DEF s, ts
  <2>13. 0 \in Flag
    BY DEF Flag
  <2>14. /\ z \in Reading /\ z.extended = 0 /\ z.shift = s /\ z.keys = ts
    BY <2>11, <2>12, <2>13, AtFacts DEF ts
  <2> HIDE DEF z
  <2>15. Faithful(z)'
    BY <2>11, <2>12, <2>14 DEF Faithful, ts
  <2>. QED BY <2>5, <2>14, <2>15
<1>. QED BY <1>1, <1>3, <1>4, <1>5 DEF WillBeRead

\* A release adds the codes that type nothing.
LEMMA ReleaseRead ==
  ASSUME ReadInv, NEW k \in Keys, Release(k)
  PROVE  OneShift' /\ WillBeRead'
<1>1. /\ held' = held \ {k} /\ k \in held /\ wire' = wire \o Break[k]
      /\ UNCHANGED <<shift, extended, buffer, head, tail, lost, pc, c, got, meant, both>>
  BY DEF Release, driver, reader
<1>3. OneShift'
  BY <1>1 DEF ReadInv, OneShift
<1>4. Seen' = Seen
  BY <1>1, SameRing DEF Seen, InHand
<1>5. ASSUME ~lost
      PROVE  \E z \in Reading : Leads(At(Bit(shift), Bit(extended), Seen), wire', z) /\ Faithful(z)'
  <2>1. PICK y \in Reading : Leads(At(Bit(shift), Bit(extended), Seen), wire, y) /\ Faithful(y)
    BY <1>5 DEF ReadInv, WillBeRead
  <2>2. PICK sh \in Flag, ks \in Seq(Nat) : y = At(sh, 0, ks) /\ sh = y.shift /\ ks = y.keys
    BY <2>1 DEF Faithful, Reading, At
  <2>3. wire \in Bytes /\ Break[k] \in Bytes
    BY KeyAssumption DEF ReadInv, TypeOK, Bytes, Code
  <2> DEFINE s == IF k \in ShiftKeys THEN 0 ELSE sh
             z == At(s, 0, ks)
  <2>4. Leads(y, Break[k], z)
    BY <2>2, ReleaseLeads
  <2>5. Leads(At(Bit(shift), Bit(extended), Seen), wire', z)
    BY <1>1, <2>1, <2>3, <2>4, LeadsOn
  <2>6. s \in Flag /\ (~both => s = Bit(held' \cap ShiftKeys # {}))
    <3>1. CASE k \in ShiftKeys
      <4>1. s = 0 /\ (~both => held' \cap ShiftKeys = {})
        BY <1>1, <3>1 DEF ReadInv, OneShift
      <4>. QED BY <4>1 DEF Bit, Flag
    <3>2. CASE k \notin ShiftKeys
      <4>1. held' \cap ShiftKeys = held \cap ShiftKeys /\ s = sh
        BY <1>1, <3>2
      <4>. QED BY <2>1, <2>2, <4>1 DEF Faithful
    <3>. QED BY <3>1, <3>2
  <2> HIDE DEF s
  <2>7. 0 \in Flag
    BY DEF Flag
  <2>8. /\ z \in Reading /\ z.extended = 0 /\ z.shift = s /\ z.keys = ks
    BY <2>6, <2>7, AtFacts
  <2> HIDE DEF z
  <2>9. Faithful(z)'
    BY <1>1, <2>1, <2>2, <2>6, <2>8 DEF Faithful
  <2>. QED BY <2>5, <2>8, <2>9
<1>. QED BY <1>1, <1>3, <1>4, <1>5 DEF WillBeRead

\* A byte decoded moves from the wire to the ring, unless the ring is full.
LEMMA IRQRead ==
  ASSUME ReadInv, TypeOK', KeyboardIRQ
  PROVE  OneShift' /\ WillBeRead'
<1> DEFINE code == Head(wire)
           key == Decode(shift, extended, code).key
           sh == Bit(shift)
           ext == Bit(extended)
<1>1. /\ wire # <<>> /\ wire' = Tail(wire)
      /\ shift' = Decode(shift, extended, code).shift
      /\ extended' = Decode(shift, extended, code).extended
      /\ Stored(key) /\ pc' = Resumed
      /\ UNCHANGED <<held, meant, both, tail, c, got>>
  BY DEF KeyboardIRQ
<1>2. OneShift'
  BY <1>1 DEF ReadInv, OneShift
<1>3. /\ wire \in Bytes /\ code \in Code /\ shift \in BOOLEAN /\ extended \in BOOLEAN
      /\ TypeOK
  <2>1. wire \in Bytes /\ shift \in BOOLEAN /\ extended \in BOOLEAN /\ TypeOK
    BY DEF ReadInv, TypeOK, Bytes, Code
  <2>2. code \in Code
    BY <1>1, <2>1, HeadTailProperties DEF Bytes
  <2>. QED BY <2>1, <2>2
<1>4. key \in Values \cup {0}
  BY <1>3, DecodeFacts DEF Code
<1> HIDE DEF code
<1>5. /\ sh \in Flag /\ ext \in Flag /\ (sh = 1) = shift /\ (ext = 1) = extended
  BY <1>3 DEF Bit, Flag
<1>6. /\ KeyOf(sh, ext, code) = key
      /\ ShiftOf(sh, ext, code) = Bit(shift') /\ ExtOf(sh, ext, code) = Bit(extended')
  <2>1. Decoded(sh, ext, code) = Decode(shift, extended, code)
    BY <1>5 DEF Decoded
  <2>. QED BY <1>1, <2>1 DEF KeyOf, ShiftOf, ExtOf
<1> HIDE DEF key, sh, ext
<1>7. Seen \in Seq(Nat) /\ got \in Seq(Nat) /\ InHand \in Seq(Nat) /\ Unread \in Seq(Nat)
  BY <1>3, SeenFacts
<1>8. InHand' = InHand
  BY <1>1 DEF InHand, Resumed
<1>9. ASSUME ~lost'
      PROVE  ~lost /\ Seen' = Typed(Seen, key)
  <2>1. CASE key > 0
    <3>1. /\ buffer' = [buffer EXCEPT ![head] = key] /\ head' = Inc(head) /\ tail' = tail
          /\ ~lost /\ Inc(head) # tail /\ key \in Values /\ key \in Nat
      <4>1. key \in Values
        BY <1>4, <2>1
      <4>2. key \in Nat
        BY <4>1, ValuesArePositive
      <4>. QED BY <1>1, <1>9, <2>1, <4>1, <4>2 DEF Stored
    <3>2. Unread' = IF Len(Unread) < N - 1 THEN Append(Unread, key) ELSE <<>>
      BY <1>3, <3>1, StoreIsPut
    <3>3. Len(Unread) < N - 1
      <4>1. head \in Ring /\ tail \in Ring /\ N \in Nat /\ N >= 2
        BY <1>3, RingAssumption DEF TypeOK
      <4>2. Len(Unread) = Count
        BY <1>3, UnreadFacts
      <4>3. tail # IF head = N - 1 THEN 0 ELSE head + 1
        BY <3>1, <4>1, IncFacts
      <4>. QED BY <4>1, <4>2, <4>3 DEF Count, Ring
    <3>4. Seen' = (got \o InHand) \o Append(Unread, key)
      BY <1>1, <1>8, <3>2, <3>3 DEF Seen
    <3>5. (got \o InHand) \o Append(Unread, key) = Append((got \o InHand) \o Unread, key)
      <4> DEFINE t == got \o InHand
      <4>1. t \in Seq(Nat)
        BY <1>7, ConcatProperties
      <4> HIDE DEF t
      <4>2. t \o Append(Unread, key) = Append(t \o Unread, key)
        BY <1>7, <3>1, <4>1, AppendIsConcat
      <4>. QED BY <4>2 DEF t
    <3>. QED BY <2>1, <3>1, <3>4, <3>5 DEF Seen, Typed
  <2>2. CASE ~(key > 0)
    <3>1. UNCHANGED <<buffer, head, tail, lost>>
      BY <1>1, <2>2 DEF Stored
    <3>2. Unread' = Unread
      BY <3>1, SameRing
    <3>. QED BY <1>1, <1>8, <1>9, <2>2, <3>1, <3>2 DEF Seen, Typed
  <2>. QED BY <2>1, <2>2
<1>10. ASSUME ~lost'
       PROVE  \E y \in Reading :
                Leads(At(Bit(shift'), Bit(extended'), Seen'), wire', y) /\ Faithful(y)'
  <2>1. ~lost /\ Seen' = Typed(Seen, key)
    BY <1>9, <1>10
  <2>2. PICK y \in Reading : Leads(At(sh, ext, Seen), wire, y) /\ Faithful(y)
    BY <2>1 DEF ReadInv, WillBeRead, sh, ext
  <2>3. After(At(sh, ext, Seen), code) = At(Bit(shift'), Bit(extended'), Seen')
    BY <1>5, <1>6, <1>7, <2>1, AfterDecode
  <2>4. Leads(After(At(sh, ext, Seen), code), wire', y)
    BY <1>1, <1>3, <2>2, LeadsBehind DEF code
  <2>5. Faithful(y)'
    BY <1>1, <2>2 DEF Faithful
  <2>. QED BY <2>2, <2>3, <2>4, <2>5
<1>. QED BY <1>2, <1>10 DEF WillBeRead

\* The reader moves keys from the ring to its hand and on, in their order.
LEMMA ReaderSees ==
  ASSUME TypeOK, TypeOK', Poll \/ Test
  PROVE  Seen' = Seen
<1>1. Seen \in Seq(Nat) /\ got \in Seq(Nat) /\ InHand \in Seq(Nat) /\ Unread \in Seq(Nat)
  BY SeenFacts
<1>2. CASE Poll /\ tail # head
  <2>1. /\ pc = "locked" /\ pc' = "unlock" /\ c' = buffer[tail] /\ tail' = Inc(tail)
        /\ UNCHANGED <<buffer, head, got>>
    BY <1>2 DEF Poll
  <2>2. Unread # <<>> /\ Unread' = Tail(Unread)
    BY <1>2, <2>1, PollIsTake
  <2>3. Head(Unread) = buffer[tail] /\ buffer[tail] \in Values
    <3>1. /\ head \in Ring /\ tail \in Ring /\ N \in Nat /\ N >= 2
          /\ \A i \in Ring : Occupied(i) => buffer[i] \in Values
      BY RingAssumption DEF TypeOK
    <3>2. Count \in 1 .. N - 1
      BY <1>2, <3>1, CountFacts
    <3>3. Unread[1] = buffer[(tail + 1 - 1) % N]
      BY <3>2, UnreadFacts
    <3>4. (tail + 1 - 1) % N = tail
      BY <3>1, SlotFacts DEF Ring
    <3>5. Occupied(tail)
      BY <1>2, <3>1 DEF Occupied, Ring
    <3>6. Head(Unread) = Unread[1]
      BY <1>1, <2>2, HeadTailProperties
    <3>. QED BY <3>1, <3>3, <3>4, <3>5, <3>6
  <2>4. InHand = <<>> /\ InHand' = <<Head(Unread)>>
    <3>1. c' = Head(Unread) /\ c' \in Nat \ {0}
      BY <2>1, <2>3, ValuesArePositive
    <3>2. c' > 0
      BY <3>1
    <3>. QED BY <2>1, <3>1, <3>2 DEF InHand
  <2>5. (got \o <<Head(Unread)>>) \o Tail(Unread) = (got \o <<>>) \o Unread
    <3> DEFINE h == <<Head(Unread)>>
               t == Tail(Unread)
    <3>1. h \in Seq(Nat) /\ t \in Seq(Nat) /\ h \o t = Unread
      <4>1. /\ Head(Unread) \in Nat /\ t \in Seq(Nat) /\ t = SubSeq(Unread, 2, Len(Unread))
            /\ SubSeq(Unread, 1, Len(Unread)) = Unread /\ Head(Unread) = Unread[1]
        BY <1>1, <2>2, HeadTailProperties, TailIsSubSeq, SubSeqFull
      <4>2. Len(Unread) \in Nat \ {0}
        BY <1>1, <2>2, EmptySeq
      <4>3. 1 \in 1 .. Len(Unread) /\ Len(Unread) \in 1 .. Len(Unread) /\ 1 + 1 = 2
        BY <4>2
      <4>4. SubSeq(Unread, 1, Len(Unread)) = <<Unread[1]>> \o SubSeq(Unread, 1 + 1, Len(Unread))
        BY <1>1, <4>3, SubSeqRecursiveFirst
      <4>5. h \in Seq(Nat)
        BY <4>1
      <4>6. h \o t = Unread
        <5>1. h = <<Unread[1]>> /\ t = SubSeq(Unread, 1 + 1, Len(Unread))
          BY <4>1, <4>3
        <5> HIDE DEF h, t
        <5>. QED BY <4>1, <4>4, <5>1
      <4>. QED BY <4>1, <4>5, <4>6
    <3> HIDE DEF h, t
    <3>2. (got \o h) \o t = got \o (h \o t)
      <4>1. got \in Seq(Nat) /\ h \in Seq(Nat) /\ t \in Seq(Nat)
        BY <1>1, <3>1
      <4>. QED BY <4>1, ConcatAssociative
    <3>3. got \o <<>> = got
      BY <1>1, ConcatEmptySeq
    <3>. QED BY <3>1, <3>2, <3>3 DEF h, t
  <2>. QED BY <2>1, <2>2, <2>4, <2>5 DEF Seen
<1>3. CASE Poll /\ ~(tail # head)
  <2>1. /\ pc = "locked" /\ pc' = "unlock" /\ c' = -1
        /\ UNCHANGED <<buffer, head, tail, got>>
    BY <1>3 DEF Poll
  <2>2. Unread' = Unread
    BY <2>1, SameRing
  <2>3. InHand = <<>> /\ InHand' = <<>>
    BY <2>1 DEF InHand
  <2>. QED BY <2>1, <2>2, <2>3 DEF Seen
<1>4. CASE Test
  <2>1. /\ pc = "test" /\ pc' \in {"hlt", "busy", "poll"}
        /\ got' = IF c < 0 THEN got ELSE Append(got, c)
        /\ UNCHANGED <<buffer, head, tail, c>>
    BY <1>4 DEF Test, driver
  <2>2. Unread' = Unread
    BY <2>1, SameRing
  <2>3. InHand' = <<>> /\ InHand = IF c > 0 THEN <<c>> ELSE <<>>
    BY <2>1 DEF InHand
  <2>4. c = -1 \/ (c \in Nat /\ c > 0)
    BY ValuesArePositive DEF TypeOK
  <2>5. got' \o <<>> = got \o InHand
    <3>1. CASE c = -1
      BY <2>1, <2>3, <3>1
    <3>2. CASE c \in Nat /\ c > 0
      <4>1. got' = Append(got, c) /\ InHand = <<c>>
        BY <2>1, <2>3, <3>2
      <4>2. Append(got, c) = got \o <<c>> /\ Append(got, c) \in Seq(Nat)
        BY <1>1, <3>2, AppendProperties, AppendIsConcat
      <4>. QED BY <4>1, <4>2, ConcatEmptySeq
    <3>. QED BY <2>4, <3>1, <3>2
  <2>. QED BY <2>2, <2>3, <2>5 DEF Seen
<1>. QED BY <1>2, <1>3, <1>4

\* Where only the reader moves, nothing of this changes.
LEMMA ReaderRead ==
  ASSUME ReadInv, UNCHANGED <<device, shift, extended, lost>>, Seen' = Seen
  PROVE  OneShift' /\ WillBeRead'
BY DEF ReadInv, OneShift, WillBeRead, Faithful, device

\* No byte is sent and no key is held at first.
LEMMA InitRead == Init => ReadInv
<1> SUFFICES ASSUME Init PROVE ReadInv
  OBVIOUS
<1>1. TypeOK /\ OneShift
  BY InitTypes DEF Init, OneShift
<1>2. Seen = <<>>
  <2>1. Count = 0
    BY DEF Init, Count
  <2>2. Len(Unread) = 0 /\ Unread \in Seq(Nat)
    BY <1>1, <2>1, UnreadFacts, SeenFacts
  <2>3. Unread = <<>> /\ got = <<>> /\ InHand = <<>>
    BY <2>2, EmptySeq DEF Init, InHand
  <2>. QED BY <2>3 DEF Seen
<1> DEFINE y == At(0, 0, <<>>)
<1>3. /\ y \in Reading /\ y.shift = 0 /\ y.extended = 0 /\ y.keys = <<>>
  <2>1. 0 \in Flag /\ <<>> \in Seq(Nat)
    BY EmptySeq DEF Flag
  <2> DEFINE e == <<>>
  <2>2. e \in Seq(Nat)
    BY <2>1
  <2> HIDE DEF e
  <2>3. /\ At(0, 0, e) \in Reading /\ At(0, 0, e).shift = 0
        /\ At(0, 0, e).extended = 0 /\ At(0, 0, e).keys = e
    BY <2>1, <2>2, AtFacts
  <2>. QED BY <2>3 DEF e
<1>4. Bit(shift) = 0 /\ Bit(extended) = 0 /\ Bit(held \cap ShiftKeys # {}) = 0
  BY DEF Init, Bit
<1>5. At(Bit(shift), Bit(extended), Seen) = y
  BY <1>2, <1>4
<1> HIDE DEF y
<1>6. Leads(y, wire, y)
  BY <1>3, LeadsNone DEF Init
<1>7. Faithful(y)
  BY <1>3, <1>4 DEF Faithful, Init
<1>. QED BY <1>1, <1>3, <1>5, <1>6, <1>7 DEF ReadInv, WillBeRead

\* Every step keeps the invariant.
LEMMA NextRead == ReadInv /\ [Next]_vars => ReadInv'
<1> SUFFICES ASSUME ReadInv, [Next]_vars PROVE ReadInv'
  OBVIOUS
<1>1. TypeOK /\ TypeOK'
  BY NextTypes DEF ReadInv
<1> SUFFICES OneShift' /\ WillBeRead'
  BY <1>1 DEF ReadInv
<1>2. CASE \E k \in Keys : Press(k) \/ Release(k)
  BY <1>2, PressRead, ReleaseRead
<1>3. CASE KeyboardIRQ
  BY <1>1, <1>3, IRQRead
<1>4. CASE Poll \/ Test
  <2>1. Seen' = Seen
    BY <1>1, <1>4, ReaderSees
  <2>2. UNCHANGED <<device, shift, extended, lost>>
    BY <1>4 DEF Poll, Test, driver
  <2>. QED BY <2>1, <2>2, ReaderRead
<1>5. CASE TimerIRQ \/ Lock \/ Unlock \/ Finish \/ UNCHANGED vars
  <2>1. UNCHANGED <<device, shift, extended, lost, buffer, head, tail, c, got>>
    BY <1>5 DEF TimerIRQ, Lock, Unlock, Finish, vars, driver, reader
  <2>2. InHand' = InHand
    BY <1>5, <2>1 DEF TimerIRQ, Lock, Unlock, Finish, vars, reader, InHand, Resumed
  <2>3. Seen' = Seen
    BY <2>1, <2>2, SameRing DEF Seen
  <2>. QED BY <2>1, <2>3, ReaderRead
<1>. QED BY <1>2, <1>3, <1>4, <1>5 DEF Next, Reader

\* With no byte left to read, what is seen is what will be read.
LEMMA ReadIsRead == ReadInv => TypedIsRead
<1> SUFFICES ASSUME ReadInv, wire = <<>>, ~lost
             PROVE  Len(Seen) = Len(meant) /\ (~both => Seen = meant)
  BY DEF TypedIsRead, Seen
<1> DEFINE x == At(Bit(shift), Bit(extended), Seen)
<1>1. PICK y \in Reading : Leads(x, <<>>, y) /\ Faithful(y)
  BY DEF ReadInv, WillBeRead
<1>2. y = x
  BY <1>1, LeadsNoneOnly
<1>3. y.keys = Seen
  BY <1>2 DEF At
<1>. QED BY <1>1, <1>3 DEF Faithful

\* What is typed is read: with every byte decoded and no key lost, the reader has
\* been given, or will find in the ring, as many keys as typed something, and if
\* the two shift keys were never down together those that were meant, in order.
\* The invariant says it of the bytes that are still to come.
THEOREM TypingIsRead == Spec => []TypedIsRead
BY InitRead, NextRead, ReadIsRead, PTL DEF Spec
=============================================================================
