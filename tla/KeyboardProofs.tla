--------------------------- MODULE KeyboardProofs ---------------------------
(***************************************************************************)
(* The keys of Keyboard.tla for any size of the ring, any prefixes and any *)
(* number of codes: every key returned was pressed, none is returned       *)
(* twice, and those that no reset met come in the order they were pressed. *)
(*                                                                         *)
(* Neither is inductive.  OnceInv says where a key can be; OrderInv says   *)
(* how the handler's index and the reader's stand to each other, before    *)
(* and after the handler has reached the end of the ring.                  *)
(***************************************************************************)
EXTENDS Keyboard, QueuesTheorems

\* The reader is between two resets.
Reading == pc \in {"test", "read", "unready", "advance"}

Typed ==
    /\ buffer \in [Slot -> Nat] /\ ready \in [Slot -> BOOLEAN]
    /\ buffer_wptr \in Slot /\ i \in Slot /\ temp \in Nat
    /\ pc \in {"test", "read", "unready", "advance", "clear", "wptr", "rptr"}
    /\ Reading => buffer_rptr \in Slot
    /\ got \in Seq(Nat)

\* Whatever the ring holds has been sent, and what the prefixes read so far
\* make of the next code is what the keyboard means.
SentInv ==
    /\ sent \in Nat /\ makes \subseteq 1..sent /\ Delivered \subseteq makes
    /\ \A s \in Slot : buffer[s] <= sent
    /\ temp <= sent
    /\ key_buffer = sending

\* A key is in one place: in a slot that is ready, on its way in temp, or
\* returned.
OnceInv ==
    /\ IsFiniteSet(Delivered) /\ Cardinality(Delivered) = Len(got)
    /\ pc = "read" => ready[buffer_rptr]
    /\ \A s \in Slot : ready[s] => buffer[s] \in (makes \cup {0}) \ Delivered
    /\ \A s, t \in Slot : ready[s] /\ ready[t] /\ buffer[s] = buffer[t]
                            => s = t \/ buffer[s] = 0
    /\ pc \in {"unready", "advance"} =>
        /\ temp \in (makes \cup {0}) \ Delivered
        /\ \A s \in Slot : ready[s] /\ buffer[s] = temp
                            => temp = 0 \/ (pc = "unready" /\ s = buffer_rptr)

\* The slots that the reader has still to read, and those whose key no reset
\* met.
Ahead(s) == buffer_rptr < s \/ (s = buffer_rptr /\ pc \in {"test", "read"})
Kept(s) == ready[s] /\ buffer[s] \notin hit \cup {0}

\* Before the handler reaches the end of the ring: what was written since the
\* reset is unread or was read.
BeforeWrap ==
    /\ \A s \in Slot : Ahead(s) /\ Kept(s) => s < buffer_wptr
    /\ \A s \in Slot : buffer_rptr <= s /\ s < buffer_wptr
                        => ready[s] \/ (s = buffer_rptr /\ pc = "advance")

\* After it, the handler stays behind the reader: there is no room further on.
AfterWrap ==
    /\ \A s \in Slot : buffer_rptr <= s => ready[s] \/ (s = buffer_rptr /\ pc = "advance")
    /\ \A s \in Slot : s < buffer_wptr => ready[s]
    /\ buffer_wptr <= IF pc = "advance" THEN buffer_rptr + 1 ELSE buffer_rptr

OrderInv ==
    /\ InOrder
    /\ Reading =>
        /\ BeforeWrap \/ AfterWrap
        /\ \A s, t \in Slot : Ahead(s) /\ Kept(s) /\ Ahead(t) /\ Kept(t) /\ s < t
                                => buffer[s] < buffer[t]
        /\ \A s \in Slot, j \in DOMAIN got :
                Ahead(s) /\ Kept(s) /\ got[j] \notin hit => got[j] < buffer[s]
        /\ pc \in {"unready", "advance"} /\ temp \notin hit \cup {0} =>
            /\ \A j \in DOMAIN got : got[j] \notin hit => got[j] < temp
            /\ \A s \in Slot : Ahead(s) /\ Kept(s) => temp < buffer[s]
    /\ ~Reading => \A s \in Slot : ~Kept(s)
    /\ pc = "rptr" => \A s \in Slot : s < buffer_wptr => ready[s]

Inv == Typed /\ SentInv /\ OnceInv /\ OrderInv

---------------------------------------------------------------------------
(* The steps of the device.                                                *)

\* A byte arrives.
Receives ==
    /\ sent' \in Nat /\ sent <= sent'
    /\ makes \subseteq makes' /\ makes' \subseteq 1..sent'
    /\ key_buffer' = sending'
    /\ UNCHANGED <<buffer_rptr, reader>>

\* The handler leaves the ring alone, or puts a key into it.
Quiet == Receives /\ UNCHANGED <<buffer, ready, buffer_wptr, hit>>

Puts(key) ==
    /\ Receives /\ Room
    /\ key = 0 \/ (key = sent + 1 /\ key \in makes')
    /\ buffer' = [buffer EXCEPT ![buffer_wptr] = key]
    /\ ready' = [ready EXCEPT ![buffer_wptr] = TRUE]
    /\ buffer_wptr' = (buffer_wptr + 1) % N
    /\ hit' = hit \cup IF Resetting THEN {key} ELSE {}

LEMMA DeviceStep ==
    ASSUME Inv, (\E b \in Prefix : PrefixByte(b)) \/ (\E c \in Code : CodeByte(c)) \/ AckByte
    PROVE  Quiet \/ \E key : Puts(key)
<1>1. sent \in Nat /\ makes \subseteq 1..sent /\ key_buffer = sending
    BY DEF Inv, SentInv
<1>2. ASSUME NEW b \in Prefix, PrefixByte(b)
      PROVE  Quiet
    BY <1>1, <1>2 DEF PrefixByte, Quiet, Receives, ring, resets
<1>3. ASSUME NEW c \in Code, CodeByte(c)
      PROVE  Quiet \/ Puts(sent + 1)
    <2>1. Receives
        BY <1>1, <1>3 DEF CodeByte, Receives
    <2>2. CASE key_buffer = <<>>
        BY <1>1, <1>3, <2>1, <2>2 DEF CodeByte, Store, MeetsReset, Puts
    <2>3. CASE key_buffer # <<>>
        BY <1>3, <2>1, <2>3 DEF CodeByte, Store, Quiet, resets
    <2> QED
        BY <2>2, <2>3
<1>4. CASE AckByte
    <2>1. Receives
        BY <1>1, <1>4 DEF AckByte, Receives
    <2>2. CASE Store(0, key_buffer) /\ key_buffer' = <<>>
        BY <1>1, <1>4, <2>1, <2>2 DEF AckByte, Store, MeetsReset, Puts
    <2>3. CASE UNCHANGED <<buffer, ready, buffer_wptr, resets, key_buffer>>
        BY <2>1, <2>3 DEF Quiet, resets
    <2> QED
        BY <1>4, <2>2, <2>3 DEF AckByte
<1> QED
    BY <1>2, <1>3, <1>4

LEMMA QuietKeepsInv ==
    ASSUME Inv, Quiet
    PROVE  Inv'
<1> USE DEF Quiet, Receives, reader
<1>1. Typed'
    BY DEF Inv, Typed, Reading
<1>2. SentInv'
    <2>1. /\ sent \in Nat /\ Delivered \subseteq makes /\ temp <= sent /\ temp \in Nat
          /\ \A s \in Slot : buffer[s] <= sent /\ buffer[s] \in Nat
        BY DEF Inv, SentInv, Typed
    <2>2. temp <= sent' /\ \A s \in Slot : buffer[s] <= sent'
        BY <2>1
    <2>3. Delivered' \subseteq makes'
        BY <2>1 DEF Delivered
    <2> QED
        BY <2>2, <2>3 DEF SentInv
<1>3. OnceInv'
    BY DEF Inv, OnceInv, Delivered
<1>4. OrderInv'
    BY DEF Inv, OrderInv, InOrder, Reading, BeforeWrap, AfterWrap, Ahead, Kept
<1> QED
    BY <1>1, <1>2, <1>3, <1>4 DEF Inv

\* When there is room, a slot is not ready.
LEMMA RoomIsSlot ==
    ASSUME Room, Typed
    PROVE  \E s \in Slot : ~ready[s]
<1> SUFFICES ASSUME \A s \in Slot : ready[s]
             PROVE  FALSE
    OBVIOUS
<1>1. {s \in Slot : ready[s]} = 0..N-1
    BY DEF Slot
<1>2. Cardinality(0..N-1) = N
    BY KeyboardAssumption, FS_Interval
<1>3. Cardinality({s \in Slot : ready[s]}) = N
    BY <1>1, <1>2, Zenon
<1> QED
    BY <1>3, KeyboardAssumption DEF Room

LEMMA NextSlot ==
    ASSUME NEW s \in Slot
    PROVE  (s + 1) % N \in Slot /\ (s + 1) % N = IF s = N - 1 THEN 0 ELSE s + 1
<1>1. N \in Nat /\ N > 1 /\ s \in 0..N-1
    BY KeyboardAssumption DEF Slot
<1>2. CASE s = N - 1
    <2>1. N % N = 0 /\ s + 1 = N
        BY <1>1, <1>2
    <2> QED
        BY <1>1, <1>2, <2>1 DEF Slot
<1>3. CASE s # N - 1
    <2>1. s + 1 \in 0..N-1
        BY <1>1, <1>3
    <2>2. (s + 1) % N = s + 1
        BY <1>1, <2>1
    <2> QED
        BY <1>3, <2>1, <2>2 DEF Slot
<1> QED
    BY <1>2, <1>3

LEMMA PutsKeepsInv ==
    ASSUME Inv, NEW key, Puts(key)
    PROVE  Inv'
<1> DEFINE w == buffer_wptr
<1> USE DEF Puts, Receives, reader
<1>1. /\ w \in Slot /\ N \in Nat /\ N > 1
      /\ buffer \in [Slot -> Nat] /\ ready \in [Slot -> BOOLEAN]
      /\ sent \in Nat /\ key \in Nat /\ key <= sent'
    BY KeyboardAssumption DEF Inv, Typed, SentInv
<1>2. buffer_wptr' \in Slot /\ buffer_wptr' = IF w = N - 1 THEN 0 ELSE w + 1
    BY <1>1, NextSlot
<1>3. \A s \in Slot : /\ buffer'[s] = IF s = w THEN key ELSE buffer[s]
                      /\ ready'[s] = IF s = w THEN TRUE ELSE ready[s]
    BY <1>1
<1>4. Typed'
    BY <1>1, <1>2 DEF Inv, Typed, Reading
<1>5. SentInv'
    <2>1. /\ Delivered \subseteq makes /\ temp <= sent /\ temp \in Nat
          /\ \A s \in Slot : buffer[s] <= sent /\ buffer[s] \in Nat
        BY DEF Inv, SentInv, Typed
    <2>2. temp <= sent' /\ \A s \in Slot : buffer'[s] <= sent'
        BY <1>1, <1>3, <2>1
    <2>3. Delivered' \subseteq makes'
        BY <2>1 DEF Delivered
    <2> QED
        BY <2>2, <2>3 DEF SentInv
<1>6. key \in (makes' \cup {0}) \ Delivered /\ (\A s \in Slot : buffer[s] = key => key = 0)
    <2>1. \A x \in makes \cup Delivered : x \in 1..sent
        BY DEF Inv, SentInv
    <2>2. \A s \in Slot : buffer[s] <= sent /\ buffer[s] \in Nat
        BY <1>1 DEF Inv, SentInv
    <2> QED
        BY <1>1, <2>1, <2>2
<1>7. OnceInv'
    <2>1. Delivered' = Delivered /\ Cardinality(Delivered') = Len(got')
        BY DEF Inv, OnceInv, Delivered
    <2>2. \A s \in Slot : ready'[s] => buffer'[s] \in (makes' \cup {0}) \ Delivered'
        <3>1. \A s \in Slot : ready[s] => buffer[s] \in (makes' \cup {0}) \ Delivered'
            BY <2>1 DEF Inv, OnceInv
        <3> QED
            BY <1>3, <1>6, <2>1, <3>1
    <2>3. \A s, t \in Slot : ready'[s] /\ ready'[t] /\ buffer'[s] = buffer'[t]
                                => s = t \/ buffer'[s] = 0
        <3>1. \A s, t \in Slot : ready[s] /\ ready[t] /\ buffer[s] = buffer[t]
                                    => s = t \/ buffer[s] = 0
            BY DEF Inv, OnceInv
        <3>2. \A s \in Slot : buffer[s] = key => key = 0
            BY <1>6
        <3> HIDE DEF w
        <3> SUFFICES ASSUME NEW s \in Slot, NEW t \in Slot, ready'[s], ready'[t],
                            buffer'[s] = buffer'[t]
                     PROVE  s = t \/ buffer'[s] = 0
            OBVIOUS
        <3>3. CASE s = w
            BY <1>3, <3>2, <3>3
        <3>4. CASE t = w
            BY <1>3, <3>2, <3>4
        <3>5. CASE s # w /\ t # w
            <4>1. buffer'[s] = buffer[s] /\ buffer'[t] = buffer[t]
                BY <1>3, <3>5
            <4>2. ready[s] /\ ready[t]
                BY <1>3, <3>5
            <4>3. buffer[s] = buffer[t]
                BY <4>1
            <4>4. s = t \/ buffer[s] = 0
                BY <3>1, <4>2, <4>3, Zenon
            <4> QED
                BY <4>1, <4>4, Zenon
        <3> QED
            BY <3>3, <3>4, <3>5
    <2>4. pc = "read" => ready'[buffer_rptr]
        BY <1>1, <1>3 DEF Inv, OnceInv, Typed, Reading
    <2>5. ASSUME pc \in {"unready", "advance"}
          PROVE  /\ temp \in (makes' \cup {0}) \ Delivered'
                 /\ \A s \in Slot : ready'[s] /\ buffer'[s] = temp
                                => temp = 0 \/ (pc = "unready" /\ s = buffer_rptr)
        <3>1. temp \in (makes \cup {0}) \ Delivered
            BY <2>5 DEF Inv, OnceInv
        <3>2. temp <= sent /\ temp \in Nat
            BY DEF Inv, SentInv, Typed
        <3>3. key = temp => temp = 0
            BY <1>1, <3>2
        <3> QED
            BY <1>3, <2>1, <2>5, <3>1, <3>3 DEF Inv, OnceInv
    <2> QED
        BY <2>1, <2>2, <2>3, <2>4, <2>5 DEF Inv, OnceInv
<1>8. \A s \in Slot : /\ Ahead(s)' <=> Ahead(s)
                      /\ Kept(s)' <=> IF s = w THEN key \notin hit' \cup {0} ELSE Kept(s)
    <2>1. \A s \in Slot : Ahead(s)' <=> Ahead(s)
        BY DEF Ahead
    <2>2. \A s \in Slot : s # w /\ ~Resetting => (Kept(s)' <=> Kept(s))
        BY <1>3 DEF Kept
    <2>3. \A s \in Slot : s # w /\ Resetting => (Kept(s)' <=> Kept(s))
        BY <1>3, <1>6 DEF Kept
    <2>4. \A s \in Slot : s = w => (Kept(s)' <=> key \notin hit' \cup {0})
        BY <1>3 DEF Kept
    <2> HIDE DEF w
    <2> QED
        BY <2>1, <2>2, <2>3, <2>4
<1>9. InOrder'
    <2>1. \A j \in DOMAIN got : got[j] # key
        BY <1>6 DEF Delivered, Range
    <2> QED
        BY <2>1 DEF Inv, OrderInv, InOrder
<1>10. CASE ~Reading
    <2>1. Resetting /\ key \in hit' /\ Reading' = Reading
        BY <1>10 DEF Inv, Typed, Reading, Resetting
    <2>2. \A s \in Slot : ~Kept(s)'
        BY <1>8, <1>10, <2>1 DEF Inv, OrderInv
    <2>3. ASSUME pc = "rptr", NEW s \in Slot, s < buffer_wptr'
          PROVE  ready'[s]
        <3>1. s = w \/ s < w
            BY <1>1, <1>2, <2>3 DEF Slot
        <3> QED
            BY <1>3, <2>3, <3>1 DEF Inv, OrderInv
    <2> QED
        BY <1>4, <1>5, <1>7, <1>9, <1>10, <2>1, <2>2, <2>3 DEF Inv, OrderInv
<1>11. CASE Reading
    <2>1. hit' = hit /\ Reading' /\ pc \notin {"clear", "wptr", "rptr"}
        BY <1>11 DEF Reading, Resetting
    <2>2. buffer_rptr \in Slot
        BY <1>11 DEF Inv, Typed
    <2>3. \A s \in Slot : Ahead(s) => buffer_rptr <= s
        BY <1>1, <2>2 DEF Ahead, Slot
    <2>4. \A s \in Slot : Kept(s)' => IF s = w THEN key = sent + 1 ELSE Kept(s)
        BY <1>8
    \* The slot written is the last that is kept, or behind the reader.
    <2>5. (BeforeWrap' \/ AfterWrap') /\ (Ahead(w) => \A s \in Slot : Ahead(s) /\ Kept(s) => s < w)
        <3>1. CASE BeforeWrap
            <4>1. \A s \in Slot : Ahead(s) /\ Kept(s) => s < w
                BY <3>1 DEF BeforeWrap
            <4>2. \A s \in Slot : buffer_rptr <= s /\ s < w
                                    => ready'[s] \/ (s = buffer_rptr /\ pc = "advance")
                BY <1>3, <3>1 DEF BeforeWrap
            <4>3. CASE w = N - 1
                <5>1. buffer_wptr' = 0
                    BY <1>2, <4>3
                <5>2. \A s \in Slot : s = w \/ s < w
                    BY <1>1, <4>3 DEF Slot
                <5>3. \A s \in Slot : buffer_rptr <= s
                                    => ready'[s] \/ (s = buffer_rptr /\ pc = "advance")
                    BY <1>3, <4>2, <5>2
                <5>4. AfterWrap'
                    BY <2>2, <5>1, <5>3 DEF AfterWrap, Slot
                <5> QED
                    BY <4>1, <5>4
            <4>4. CASE w # N - 1
                <5>1. buffer_wptr' = w + 1
                    BY <1>2, <4>4
                <5>2. \A s \in Slot : s < w + 1 <=> s = w \/ s < w
                    BY <1>1 DEF Slot
                <5>3. \A s \in Slot : Ahead(s)' /\ Kept(s)' => s < w + 1
                    BY <1>8, <4>1, <5>2
                <5>4. \A s \in Slot : buffer_rptr <= s /\ s < w + 1
                                    => ready'[s] \/ (s = buffer_rptr /\ pc = "advance")
                    BY <1>3, <4>2, <5>2
                <5>5. BeforeWrap'
                    BY <5>1, <5>3, <5>4 DEF BeforeWrap
                <5> QED
                    BY <4>1, <5>5
            <4> QED
                BY <4>3, <4>4
        <3>2. CASE AfterWrap
            <4>1. PICK free \in Slot : ~ready[free]
                BY RoomIsSlot DEF Inv
            <4>2. w <= free
                BY <1>1, <3>2, <4>1 DEF AfterWrap, Slot
            <4>3. free < buffer_rptr \/ (free = buffer_rptr /\ pc = "advance")
                BY <2>2, <3>2, <4>1 DEF AfterWrap, Slot
            <4>4. ~Ahead(w)
                BY <1>1, <2>2, <4>2, <4>3 DEF Ahead, Slot
            <4>5. \A s \in Slot : buffer_rptr <= s
                                    => ready'[s] \/ (s = buffer_rptr /\ pc = "advance")
                BY <1>3, <3>2 DEF AfterWrap
            <4>6. \A s \in Slot : s < buffer_wptr' => ready'[s]
                <5>1. \A s \in Slot : s < buffer_wptr' => s = w \/ s < w
                    BY <1>1, <1>2 DEF Slot
                <5> QED
                    BY <1>3, <3>2, <5>1 DEF AfterWrap
            <4>7. buffer_wptr' <= IF pc = "advance" THEN buffer_rptr + 1 ELSE buffer_rptr
                BY <1>1, <1>2, <2>2, <4>2, <4>3 DEF Slot
            <4>8. AfterWrap'
                BY <4>5, <4>6, <4>7 DEF AfterWrap
            <4> QED
                BY <4>4, <4>8
        <3> QED
            BY <1>11, <3>1, <3>2 DEF Inv, OrderInv
    <2>6. ASSUME NEW s \in Slot, NEW t \in Slot, Ahead(s)', Kept(s)', Ahead(t)', Kept(t)', s < t
          PROVE  buffer'[s] < buffer'[t]
        <3>1. Ahead(s) /\ Ahead(t)
            BY <1>8, <2>6
        <3>2. CASE s = w
            <4>1. t # w /\ ~(t < w)
                BY <1>1, <2>6, <3>2 DEF Slot
            <4> QED
                BY <2>4, <2>5, <2>6, <3>1, <3>2, <4>1
        <3>3. CASE s # w /\ t = w
            <4>1. buffer[s] <= sent /\ key = sent + 1
                BY <2>4, <2>6, <3>3 DEF Inv, SentInv
            <4> QED
                BY <1>1, <1>3, <3>3, <4>1
        <3>4. CASE s # w /\ t # w
            <4>1. Kept(s) /\ Kept(t)
                BY <2>4, <2>6, <3>4
            <4>2. buffer[s] < buffer[t]
                BY <1>11, <2>6, <3>1, <4>1 DEF Inv, OrderInv
            <4> QED
                BY <1>3, <3>4, <4>2
        <3> QED
            BY <3>2, <3>3, <3>4
    <2>7. ASSUME NEW s \in Slot, NEW j \in DOMAIN got, Ahead(s)', Kept(s)', got[j] \notin hit
          PROVE  got[j] < buffer'[s]
        <3>1. CASE s = w
            <4>1. got[j] \in 1..sent
                BY DEF Inv, SentInv, Delivered, Range
            <4>2. key = sent + 1
                BY <2>4, <2>7, <3>1
            <4> QED
                BY <1>1, <1>3, <3>1, <4>1, <4>2
        <3>2. CASE s # w
            BY <1>3, <1>8, <1>11, <2>7, <3>2 DEF Inv, OrderInv
        <3> QED
            BY <3>1, <3>2
    <2>8. ASSUME pc \in {"unready", "advance"}, temp \notin hit \cup {0}
          PROVE  /\ \A j \in DOMAIN got : got[j] \notin hit => got[j] < temp
                 /\ \A s \in Slot : Ahead(s)' /\ Kept(s)' => temp < buffer'[s]
        <3>1. /\ \A j \in DOMAIN got : got[j] \notin hit => got[j] < temp
              /\ \A s \in Slot : Ahead(s) /\ Kept(s) => temp < buffer[s]
            BY <1>11, <2>8 DEF Inv, OrderInv
        <3>2. temp <= sent /\ temp \in Nat
            BY DEF Inv, SentInv, Typed
        <3>3. ASSUME NEW s \in Slot, Ahead(s)', Kept(s)'
              PROVE  temp < buffer'[s]
            <4>1. CASE s = w
                <5>1. key = sent + 1 /\ buffer'[s] = key
                    BY <1>3, <2>4, <3>3, <4>1
                <5> QED
                    BY <1>1, <3>2, <5>1
            <4>2. CASE s # w
                BY <1>3, <1>8, <3>1, <3>3, <4>2
            <4> QED
                BY <4>1, <4>2
        <3> QED
            BY <3>1, <3>3
    <2> QED
        <3>1. /\ pc' = pc /\ temp' = temp /\ got' = got
              /\ buffer_rptr' = buffer_rptr
            OBVIOUS
        <3>2. pc # "rptr"
            BY <2>1
        <3>3. OrderInv'
            BY <1>9, <2>1, <2>5, <2>6, <2>7, <2>8, <3>1, <3>2 DEF OrderInv
        <3> QED
            BY <1>4, <1>5, <1>7, <3>3 DEF Inv
<1> QED
    BY <1>10, <1>11

---------------------------------------------------------------------------
(* The steps of the reader.                                                *)

LEMMA TakeKeepsInv ==
    ASSUME Inv, Take
    PROVE  Inv'
<1> USE DEF Take, ring, device, resets
<1>1. Typed' /\ SentInv' /\ OnceInv'
    BY DEF Inv, Typed, Reading, SentInv, OnceInv, Delivered
<1>2. \A s \in Slot : (Ahead(s)' <=> Ahead(s)) /\ (Kept(s)' <=> Kept(s))
    BY DEF Ahead, Kept
<1>3. InOrder'
    BY DEF Inv, OrderInv, InOrder
<1>4. (BeforeWrap => BeforeWrap') /\ (AfterWrap => AfterWrap')
    BY <1>2 DEF BeforeWrap, AfterWrap
<1>5. OrderInv'
    BY <1>2, <1>3, <1>4 DEF Inv, OrderInv, Reading
<1> QED
    BY <1>1, <1>5 DEF Inv

LEMMA ReadKeyKeepsInv ==
    ASSUME Inv, ReadKey
    PROVE  Inv'
<1> USE DEF ReadKey, ring, device, resets
<1> DEFINE r == buffer_rptr
<1>1. /\ r \in Slot /\ ready[r] /\ buffer[r] \in Nat /\ temp' = buffer[r]
      /\ \A s \in Slot : r < s => s # r
    BY KeyboardAssumption DEF Inv, Typed, Reading, OnceInv, Slot
<1>2. Typed'
    BY <1>1 DEF Inv, Typed, Reading
<1>3. SentInv'
    BY <1>1 DEF Inv, SentInv, Delivered
<1>4. OnceInv'
    BY <1>1 DEF Inv, OnceInv, Delivered
<1>5. \A s \in Slot : /\ Ahead(s)' => Ahead(s) /\ r < s
                      /\ Kept(s)' <=> Kept(s)
    BY DEF Ahead, Kept
<1>6. InOrder'
    BY DEF Inv, OrderInv, InOrder
<1>7. (BeforeWrap => BeforeWrap') /\ (AfterWrap => AfterWrap')
    BY <1>5 DEF BeforeWrap, AfterWrap
<1>8. temp' \notin hit \cup {0} => Kept(r) /\ Ahead(r)
    BY <1>1 DEF Kept, Ahead
<1>9. OrderInv'
    BY <1>1, <1>5, <1>6, <1>7, <1>8 DEF Inv, OrderInv, Reading
<1> QED
    BY <1>2, <1>3, <1>4, <1>9 DEF Inv

LEMMA UnreadyKeepsInv ==
    ASSUME Inv, Unready
    PROVE  Inv'
<1> USE DEF Unready, device, resets
<1> DEFINE r == buffer_rptr
<1>1. r \in Slot /\ ready \in [Slot -> BOOLEAN] /\ pc = "unready"
    BY DEF Inv, Typed, Reading
<1>2. \A s \in Slot : ready'[s] <=> ready[s] /\ s # r
    BY <1>1
<1>3. Typed'
    BY <1>1 DEF Inv, Typed, Reading
<1>4. SentInv'
    BY DEF Inv, SentInv, Delivered
<1>5. OnceInv'
    BY <1>1, <1>2 DEF Inv, OnceInv, Delivered
<1>6. \A s \in Slot : (Ahead(s)' <=> Ahead(s)) /\ (Kept(s)' => Kept(s))
    BY <1>1, <1>2 DEF Ahead, Kept
<1>7. InOrder'
    BY DEF Inv, OrderInv, InOrder
<1>8. BeforeWrap => BeforeWrap'
    BY <1>1, <1>2, <1>6 DEF BeforeWrap
<1>9. AfterWrap => AfterWrap'
    <2> SUFFICES ASSUME AfterWrap PROVE AfterWrap'
        OBVIOUS
    <2>1. buffer_wptr <= r /\ \A s \in Slot : s < buffer_wptr => s # r
        BY <1>1, KeyboardAssumption DEF AfterWrap, Slot, Inv, Typed
    <2>2. buffer_wptr <= r + 1
        BY <1>1, <2>1, KeyboardAssumption DEF Slot, Inv, Typed
    <2> QED
        BY <1>1, <1>2, <2>1, <2>2 DEF AfterWrap
<1>10. OrderInv'
    BY <1>1, <1>6, <1>7, <1>8, <1>9 DEF Inv, OrderInv, Reading
<1> QED
    BY <1>3, <1>4, <1>5, <1>10 DEF Inv

\* The sequence of keys returned, when temp is added to it.
LEMMA ReturnsKey ==
    ASSUME Inv, pc = "advance", Returns, temp # 0
    PROVE  /\ got' \in Seq(Nat) /\ Len(got') = Len(got) + 1
           /\ DOMAIN got' = DOMAIN got \cup {Len(got) + 1}
           /\ \A j \in DOMAIN got : got'[j] = got[j] /\ j < Len(got) + 1
           /\ got'[Len(got) + 1] = temp
           /\ Delivered' = Delivered \cup {temp}
<1>1. got \in Seq(Nat) /\ temp \in Nat /\ got' = Append(got, temp)
    BY DEF Inv, Typed, Returns
<1>2. Range(got') = Range(got) \cup {temp}
    BY <1>1, AppendQueue
<1> QED
    BY <1>1, <1>2 DEF Delivered

LEMMA AdvanceKeepsInv ==
    ASSUME Inv, Advance
    PROVE  Inv'
<1> USE DEF Advance, device, resets
<1> DEFINE r == buffer_rptr
<1>1. r \in Slot /\ temp \in Nat /\ got \in Seq(Nat) /\ N \in Nat /\ N > 1 /\ pc = "advance"
    BY KeyboardAssumption DEF Inv, Typed, Reading
<1>2. /\ hit \subseteq hit'
      /\ IF r = N - 1 THEN pc' = "clear" /\ hit' = hit \cup Unread
         ELSE pc' = "test" /\ hit' = hit /\ r + 1 \in Slot
    BY <1>1 DEF Slot
<1>3. /\ temp = 0 => got' = got
      /\ temp \in (makes \cup {0}) \ Delivered
      /\ \A s \in Slot : ready[s] /\ buffer[s] = temp => temp = 0
    BY <1>1 DEF Returns, Inv, OnceInv
<1>4. Typed'
    <2>1. got' \in Seq(Nat)
        BY <1>1, <1>3, ReturnsKey
    <2> QED
        BY <1>2, <2>1 DEF Inv, Typed, Reading
<1>5. Delivered' = Delivered \cup (IF temp = 0 THEN {} ELSE {temp})
    BY <1>1, <1>3, ReturnsKey DEF Delivered
<1>6. SentInv'
    BY <1>3, <1>5 DEF Inv, SentInv
<1>7. OnceInv'
    <2>1. IsFiniteSet(Delivered') /\ Cardinality(Delivered') = Len(got')
        <3>1. IsFiniteSet(Delivered) /\ Cardinality(Delivered) = Len(got)
            BY DEF Inv, OnceInv
        <3>2. CASE temp = 0
            BY <1>3, <3>1, <3>2 DEF Delivered
        <3>3. CASE temp # 0
            <4>1. Delivered' = Delivered \cup {temp} /\ Len(got') = Len(got) + 1
                BY <1>1, <3>3, ReturnsKey
            <4>2. /\ IsFiniteSet(Delivered \cup {temp})
                  /\ Cardinality(Delivered \cup {temp}) = Cardinality(Delivered) + 1
                BY <1>3, <3>1, FS_AddElement
            <4> QED
                BY <3>1, <4>1, <4>2
        <3> QED
            BY <3>2, <3>3
    <2>2. \A s \in Slot : ready[s] => buffer[s] \in (makes \cup {0}) \ Delivered'
        BY <1>3, <1>5 DEF Inv, OnceInv
    <2> QED
        BY <1>2, <2>1, <2>2 DEF Inv, OnceInv
<1>8. InOrder'
    <2>1. CASE temp = 0
        BY <1>2, <1>3, <2>1 DEF Inv, OrderInv, InOrder
    <2>2. CASE temp # 0
        <3>1. \A j, k \in DOMAIN got :
                j < k /\ {got[j], got[k]} \cap hit' = {} => got[j] < got[k]
            BY <1>2 DEF Inv, OrderInv, InOrder
        <3>2. temp \notin hit' => \A j \in DOMAIN got : got[j] \notin hit' => got[j] < temp
            BY <1>1, <1>2, <2>2 DEF Inv, OrderInv, Reading
        <3>3. /\ DOMAIN got' = DOMAIN got \cup {Len(got) + 1}
              /\ \A j \in DOMAIN got : got'[j] = got[j] /\ j < Len(got) + 1
              /\ got'[Len(got) + 1] = temp
            BY <1>1, <2>2, ReturnsKey
        <3> SUFFICES ASSUME NEW j \in DOMAIN got', NEW k \in DOMAIN got', j < k,
                            {got'[j], got'[k]} \cap hit' = {}
                     PROVE  got'[j] < got'[k]
            BY DEF InOrder
        <3>4. j \in DOMAIN got
            BY <1>1, <3>3
        <3>5. CASE k \in DOMAIN got
            BY <3>1, <3>3, <3>4, <3>5
        <3>6. CASE k = Len(got) + 1
            BY <3>2, <3>3, <3>4, <3>6
        <3> QED
            BY <3>3, <3>5, <3>6
    <2> QED
        BY <2>1, <2>2
<1>9. CASE r = N - 1
    <2>1. \A s \in Slot : ~Kept(s)'
        BY <1>2, <1>9 DEF Kept, Unread
    <2>2. OrderInv'
        BY <1>2, <1>8, <1>9, <2>1 DEF OrderInv, Reading
    <2> QED
        BY <1>4, <1>6, <1>7, <2>2 DEF Inv
<1>10. CASE r # N - 1
    <2>1. pc' = "test" /\ hit' = hit /\ buffer_rptr' = r + 1
        BY <1>2, <1>10
    <2>2. \A s \in Slot : /\ Ahead(s)' <=> Ahead(s)
                          /\ Kept(s)' <=> Kept(s)
                          /\ r + 1 <= s => r <= s /\ s # r
        BY <1>1, <2>1 DEF Ahead, Kept, Slot
    <2>3. BeforeWrap => BeforeWrap'
        BY <2>1, <2>2 DEF BeforeWrap
    <2>4. AfterWrap => AfterWrap'
        BY <1>1, <2>1, <2>2 DEF AfterWrap
    <2>5. ASSUME NEW s \in Slot, NEW j \in DOMAIN got', Ahead(s), Kept(s), got'[j] \notin hit
          PROVE  got'[j] < buffer[s]
        <3>1. CASE j \in DOMAIN got /\ got'[j] = got[j]
            BY <1>1, <2>5, <3>1 DEF Inv, OrderInv, Reading
        <3>2. CASE temp # 0 /\ got'[j] = temp
            BY <1>1, <2>5, <3>2 DEF Inv, OrderInv, Reading
        <3>3. (j \in DOMAIN got /\ got'[j] = got[j]) \/ (temp # 0 /\ got'[j] = temp)
            BY <1>1, <1>3, ReturnsKey
        <3> QED
            BY <3>1, <3>2, <3>3
    <2>6. OrderInv'
        BY <1>1, <1>8, <2>1, <2>2, <2>3, <2>4, <2>5 DEF Inv, OrderInv, Reading
    <2> QED
        BY <1>4, <1>6, <1>7, <2>6 DEF Inv
<1> QED
    BY <1>9, <1>10

\* A step of the reset only takes keys away.
LEMMA ResetStep ==
    ASSUME Inv, Clear \/ ResetWptr \/ ResetRptr
    PROVE  Typed' /\ SentInv' /\ OnceInv' /\ InOrder' /\ \A s \in Slot : ~Kept(s)'
<1> USE DEF device, resets
<1>1. pc \in {"clear", "wptr", "rptr"} /\ ~Reading
    BY DEF Clear, ResetWptr, ResetRptr, Reading
<1>2. /\ UNCHANGED <<temp, got, sent, makes, key_buffer, sending, hit>>
      /\ pc' \in {"clear", "wptr", "rptr", "test"}
    BY DEF Clear, ResetWptr, ResetRptr
<1>3. i \in Slot /\ 0 \in Slot /\ (i + 1) % N \in Slot
    BY NextSlot, KeyboardAssumption DEF Inv, Typed, Slot
<1>4. buffer \in [Slot -> Nat] /\ ready \in [Slot -> BOOLEAN]
    BY DEF Inv, Typed
<1>5. /\ buffer' \in [Slot -> Nat] /\ ready' \in [Slot -> BOOLEAN]
      /\ \A s \in Slot : /\ ready'[s] => ready[s] /\ buffer'[s] = buffer[s]
                         /\ buffer'[s] = 0 \/ buffer'[s] = buffer[s]
    <2>1. CASE Clear
        <3>1. /\ buffer' \in [Slot -> Nat] /\ ready' \in [Slot -> BOOLEAN]
              /\ \A s \in Slot : /\ buffer'[s] = IF s = i THEN 0 ELSE buffer[s]
                                 /\ ready'[s] <=> ready[s] /\ s # i
            BY <1>3, <1>4, <2>1 DEF Clear
        <3> QED
            BY <3>1
    <2>2. CASE UNCHANGED <<buffer, ready>>
        BY <1>4, <2>2
    <2> QED
        BY <2>1, <2>2 DEF ResetWptr, ResetRptr
<1>6. Typed'
    <2>1. buffer_wptr' \in Slot /\ i' \in Slot /\ (pc' = "test" => buffer_rptr' \in Slot)
        BY <1>3 DEF Inv, Typed, Clear, ResetWptr, ResetRptr
    <2> QED
        BY <1>2, <1>5, <2>1 DEF Inv, Typed, Reading
<1>7. SentInv'
    BY <1>2, <1>5 DEF Inv, SentInv, Delivered
<1>8. OnceInv'
    BY <1>2, <1>5 DEF Inv, OnceInv, Delivered
<1>9. InOrder'
    BY <1>2 DEF Inv, OrderInv, InOrder
<1>10. \A s \in Slot : ~Kept(s)'
    <2>1. \A s \in Slot : ~Kept(s)
        BY <1>1 DEF Inv, OrderInv
    <2> QED
        BY <1>2, <1>5, <2>1 DEF Kept
<1> QED
    BY <1>6, <1>7, <1>8, <1>9, <1>10

LEMMA ResetKeepsInv ==
    ASSUME Inv, Clear \/ ResetWptr \/ ResetRptr
    PROVE  Inv'
<1>1. Typed' /\ SentInv' /\ OnceInv' /\ InOrder' /\ \A s \in Slot : ~Kept(s)'
    BY ResetStep
<1>2. CASE Clear
    BY <1>1, <1>2 DEF Inv, OrderInv, Clear, Reading
<1>3. CASE ResetWptr
    BY <1>1, <1>3 DEF Inv, OrderInv, ResetWptr, Reading, Slot
<1>4. CASE ResetRptr
    <2>1. \A s \in Slot : s < buffer_wptr => ready[s]
        BY <1>4 DEF Inv, OrderInv, ResetRptr
    <2>2. BeforeWrap'
        BY <1>1, <1>4, <2>1 DEF ResetRptr, BeforeWrap
    <2> QED
        BY <1>1, <1>4, <2>2 DEF Inv, OrderInv, ResetRptr, Reading
<1> QED
    BY <1>2, <1>3, <1>4

---------------------------------------------------------------------------
(* The theorems.                                                           *)

LEMMA InitInv == Init => Inv
<1> SUFFICES ASSUME Init PROVE Inv
    OBVIOUS
<1> USE DEF Init
<1>1. 0 \in Slot /\ got = <<>> /\ DOMAIN got = {}
    BY KeyboardAssumption DEF Slot
<1>2. Typed
    BY <1>1 DEF Typed
<1>3. Delivered = {}
    BY <1>1 DEF Delivered, Range
<1>4. SentInv
    BY <1>1, <1>3 DEF SentInv
<1>5. OnceInv
    BY <1>1, <1>3, FS_EmptySet DEF OnceInv
<1>6. \A s \in Slot : ~Kept(s) /\ ~(s < buffer_wptr)
    BY DEF Kept, Slot
<1>7. OrderInv
    BY <1>1, <1>6 DEF OrderInv, InOrder, BeforeWrap, Reading
<1> QED
    BY <1>2, <1>4, <1>5, <1>7 DEF Inv

LEMMA NextKeepsInv == Inv /\ [Next]_vars => Inv'
<1> SUFFICES ASSUME Inv, [Next]_vars
             PROVE  Inv'
    OBVIOUS
<1>1. CASE UNCHANGED vars
    <2>1. Quiet
        BY <1>1 DEF Inv, SentInv, Quiet, Receives, vars, ring, device, reader, resets
    <2> QED
        BY <2>1, QuietKeepsInv
<1>2. CASE (\E b \in Prefix : PrefixByte(b)) \/ (\E c \in Code : CodeByte(c)) \/ AckByte
    BY <1>2, DeviceStep, QuietKeepsInv, PutsKeepsInv
<1>3. CASE Reader
    BY <1>3, TakeKeepsInv, ReadKeyKeepsInv, UnreadyKeepsInv, AdvanceKeepsInv, ResetKeepsInv
        DEF Reader
<1> QED
    BY <1>1, <1>2, <1>3 DEF Next

\* kernel_getkey returns only keys that were pressed, and each at most once,
\* though the handler overwrites slots that are read or cleared behind its
\* back.
THEOREM ReturnsPressedKeysOnce == Spec => []FromTheKeyboard
<1>1. Inv => FromTheKeyboard
    BY DEF Inv, SentInv, OnceInv, FromTheKeyboard
<1> QED
    BY <1>1, InitInv, NextKeepsInv, PTL DEF Spec

\* Between the resets of the ring no key overtakes another, as long as those
\* who type do not outrun the reader.
THEOREM KeysInOrder == Spec => []InOrder
<1>1. Inv => InOrder
    BY DEF Inv, OrderInv
<1> QED
    BY <1>1, InitInv, NextKeepsInv, PTL DEF Spec
=============================================================================
