------------------------------ MODULE Keyboard ------------------------------
(***************************************************************************)
(* kernel/driver/ps2.c: the ring of keys between the interrupt handler and *)
(* the task that reads the keyboard.  The handler runs with interrupts     *)
(* off, between any two steps of the reader, which keeps them on and       *)
(* starts the ring afresh, by init_buffer, when it has read the last slot. *)
(*                                                                         *)
(* A key stands for its scan code; keys are numbered in the order the      *)
(* keyboard sends their codes.  Number 0 is the code read from an empty    *)
(* FIFO, which kernel_getchar drops.  The device is external: it sends     *)
(* bytes one at a time and answers a command between two codes.            *)
(***************************************************************************)
EXTENDS Integers, Sequences, FiniteSets, Functions

CONSTANTS
    N,          \* slots of the ring: 32
    Prefix,     \* prefixes of codes: f0 of a release, e0 of an extended key
    MaxKeys     \* bound on the codes sent

ASSUME KeyboardAssumption == N \in Nat \ {0, 1} /\ MaxKeys \in Nat

VARIABLES
    buffer, ready, buffer_wptr, buffer_rptr,    \* the ring
    key_buffer,     \* the prefixes read so far
    state,          \* keyboard_state and keyboard_cmd_state
    pc,             \* where kernel_getkey stands
    temp,           \* the key it has read
    i,              \* the next slot that init_buffer clears
    sending,        \* the prefixes of the code that the keyboard is sending
    acks,           \* answers it owes
    sent,           \* number of codes sent
    makes,          \* those of them that are keys pressed
    got,            \* the keys that kernel_getkey returned
    \* History of the resets:
    hit,            \* keys that were unread in a reset, or came during one
    apart           \* a key came before the last reset had set buffer_wptr

ring == <<buffer, ready, buffer_wptr, buffer_rptr>>
device == <<sending, acks, sent, makes>>
reader == <<pc, temp, i, got>>
resets == <<hit, apart>>
vars == <<ring, key_buffer, state, device, reader, resets>>

Slot == 0..N-1
Code == {"key", "shift", "capslock"}

Unread == {buffer[s] : s \in {x \in Slot : ready[x]}}

\* init_ps2.
Init ==
    /\ buffer = [s \in Slot |-> 0] /\ ready = [s \in Slot |-> FALSE]
    /\ buffer_wptr = 0 /\ buffer_rptr = 0
    /\ key_buffer = <<>>
    /\ state = [shift |-> FALSE, capslock |-> FALSE, cmd |-> 0]
    /\ pc = "test" /\ temp = 0 /\ i = 0
    /\ sending = <<>> /\ acks = 0 /\ sent = 0 /\ makes = {}
    /\ got = <<>>
    /\ hit = {} /\ apart = FALSE

---------------------------------------------------------------------------
(* The handler.                                                            *)

Resetting == pc \in {"clear", "wptr", "rptr"}

\* A key that comes during a reset: it may go, and until buffer_wptr is set the
\* slot it is in is not the one that the reader will wait at.
MeetsReset(key) ==
    /\ hit' = hit \cup IF Resetting THEN {key} ELSE {}
    /\ apart' = (apart \/ pc \in {"clear", "wptr"})

\* Mutant: the handler takes every code for a key.
StoreAny(key, prefixes) ==
    /\ buffer' = [buffer EXCEPT ![buffer_wptr] = key]
    /\ ready' = [ready EXCEPT ![buffer_wptr] = TRUE]
    /\ buffer_wptr' = (buffer_wptr + 1) % N
    /\ MeetsReset(key)

\* Mutant: the index is moved before the key is stored.
StoreBehind(key, prefixes) ==
    IF prefixes # <<>> THEN UNCHANGED <<buffer, ready, buffer_wptr, resets>>
    ELSE /\ buffer_wptr' = (buffer_wptr + 1) % N
         /\ buffer' = [buffer EXCEPT ![buffer_wptr'] = key]
         /\ ready' = [ready EXCEPT ![buffer_wptr'] = TRUE]
         /\ MeetsReset(key)

\* Mutant: the index counts down.
StoreBackwards(key, prefixes) ==
    IF prefixes # <<>> THEN UNCHANGED <<buffer, ready, buffer_wptr, resets>>
    ELSE /\ buffer' = [buffer EXCEPT ![buffer_wptr] = key]
         /\ ready' = [ready EXCEPT ![buffer_wptr] = TRUE]
         /\ buffer_wptr' = (buffer_wptr + N - 1) % N
         /\ MeetsReset(key)

\* A code without prefixes goes into the ring, whether it is full or not.
Store(key, prefixes) ==
    IF prefixes # <<>> THEN UNCHANGED <<buffer, ready, buffer_wptr, resets>>
    ELSE /\ buffer' = [buffer EXCEPT ![buffer_wptr] = key]
         /\ ready' = [ready EXCEPT ![buffer_wptr] = TRUE]
         /\ buffer_wptr' = (buffer_wptr + 1) % N
         /\ MeetsReset(key)

\* The switch over the code c after the prefixes.
StateAfter(c, prefixes) ==
    IF c = "capslock" /\ prefixes = <<>>
    THEN [state EXCEPT !.capslock = ~@, !.cmd = 1]
    ELSE IF c = "shift" /\ prefixes \in {<<>>, <<"f0">>}
    THEN [state EXCEPT !.shift = prefixes = <<>>]
    ELSE state

\* There is room for a key: those who type do not outrun the reader.
Room == Cardinality({s \in Slot : ready[s]}) < N

\* A prefix is kept for the code that follows.
PrefixByte(b) ==
    /\ sent < MaxKeys /\ b \notin Range(sending)
    /\ sending' = Append(sending, b)
    /\ key_buffer' = Append(key_buffer, b)
    /\ UNCHANGED <<ring, state, acks, sent, makes, reader, resets>>

\* A code ends what the prefixes began.
CodeByte(c) ==
    /\ sent < MaxKeys /\ Room
    /\ sent' = sent + 1
    /\ makes' = makes \cup IF sending = <<>> THEN {sent + 1} ELSE {}
    /\ sending' = <<>>
    /\ acks' = IF c = "capslock" /\ key_buffer = <<>> THEN acks + 1 ELSE acks
    /\ Store(sent + 1, key_buffer)
    /\ state' = StateAfter(c, key_buffer)
    /\ key_buffer' = <<>>
    /\ UNCHANGED <<buffer_rptr, reader>>

\* An answer of the keyboard: the state of the LEDs is sent after it when it
\* is the answer to the command.  The count of bytes is not read again: if
\* there was only one, a byte is read from the empty FIFO.
AckByte ==
    /\ acks > 0 /\ sending = <<>> /\ Room
    /\ acks' = IF state.cmd = 1 THEN acks ELSE acks - 1
    /\ state' = [state EXCEPT !.cmd = 0]
    /\ \/ Store(0, key_buffer) /\ key_buffer' = <<>>
       \/ UNCHANGED <<buffer, ready, buffer_wptr, resets, key_buffer>>
    /\ UNCHANGED <<buffer_rptr, sending, sent, makes, reader>>

---------------------------------------------------------------------------
(* kernel_getkey, in the loop of kernel_getchar.                           *)

\* A key is ready and is read.
Take ==
    /\ pc = "test" /\ ready[buffer_rptr]
    /\ pc' = "read"
    /\ UNCHANGED <<ring, temp, i, got, key_buffer, state, device, resets>>

ReadKey ==
    /\ pc = "read" /\ pc' = "unready"
    /\ temp' = buffer[buffer_rptr]
    /\ UNCHANGED <<ring, i, got, key_buffer, state, device, resets>>

Unready ==
    /\ pc = "unready" /\ pc' = "advance"
    /\ ready' = [ready EXCEPT ![buffer_rptr] = FALSE]
    /\ UNCHANGED <<buffer, buffer_wptr, buffer_rptr, temp, i, got, key_buffer, state, device, resets>>

\* The key is returned, after the reset when it came from the last slot.
Returns == got' = IF temp = 0 THEN got ELSE Append(got, temp)

Advance ==
    /\ pc = "advance"
    /\ buffer_rptr' = buffer_rptr + 1
    /\ Returns
    /\ IF buffer_rptr + 1 = N THEN pc' = "clear" /\ hit' = hit \cup Unread /\ apart' = FALSE
       ELSE pc' = "test" /\ UNCHANGED resets
    /\ UNCHANGED <<buffer, ready, buffer_wptr, temp, i, key_buffer, state, device>>

\* init_buffer, slot by slot.
Clear ==
    /\ pc = "clear"
    /\ buffer' = [buffer EXCEPT ![i] = 0] /\ ready' = [ready EXCEPT ![i] = FALSE]
    /\ i' = (i + 1) % N
    /\ pc' = IF i + 1 = N THEN "wptr" ELSE "clear"
    /\ UNCHANGED <<buffer_wptr, buffer_rptr, temp, got, key_buffer, state, device, resets>>

ResetWptr ==
    /\ pc = "wptr" /\ pc' = "rptr" /\ buffer_wptr' = 0
    /\ UNCHANGED <<buffer, ready, buffer_rptr, temp, i, got, key_buffer, state, device, resets>>

ResetRptr ==
    /\ pc = "rptr" /\ pc' = "test" /\ buffer_rptr' = 0
    /\ UNCHANGED <<buffer, ready, buffer_wptr, temp, i, got, key_buffer, state, device, resets>>

Reader == Take \/ ReadKey \/ Unready \/ Advance \/ Clear \/ ResetWptr \/ ResetRptr

Next ==
    \/ \E b \in Prefix : PrefixByte(b)
    \/ \E c \in Code : CodeByte(c)
    \/ AckByte
    \/ Reader

Spec == Init /\ [][Next]_vars /\ WF_vars(Reader)

---------------------------------------------------------------------------
Delivered == Range(got)

\* kernel_getkey returns a key that was pressed, and returns it once, though
\* slots are reused, cleared and overwritten behind its back.
FromTheKeyboard ==
    /\ Delivered \subseteq makes
    /\ Cardinality(Delivered) = Len(got)

\* The keys that no reset met are returned in the order they were pressed.
InOrder ==
    \A j, k \in DOMAIN got :
        j < k /\ {got[j], got[k]} \cap hit = {} => got[j] < got[k]

\* A key put into the ring is returned, unless a reset (ps2.c:208) meets it, or
\* another key met the last reset before it: init_buffer then leaves the two
\* indices apart, and keys wait behind an empty slot until the next reset.
KeyAnswered ==
    \A n \in 1..MaxKeys : (n \in Unread /\ ~apart) ~> n \in Delivered \cup hit
=============================================================================
