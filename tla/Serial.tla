------------------------------- MODULE Serial -------------------------------
(***************************************************************************)
(* Console output and input through the serial port: printf and putchar of *)
(* lib/kernel/console.c under the console lock, serial_putc, the transmit  *)
(* queue and the interrupt enable register of devices/serial.c, the input  *)
(* buffer of devices/input.c, and the interrupt handler that serves both.  *)
(*                                                                         *)
(* Callers are serialised, writers by the console lock and readers by      *)
(* filesys_lock, so a queue has at most one thread waiting on it and       *)
(* intq.c is a bounded sequence here.  Code with interrupts off is one     *)
(* step.                                                                   *)
(***************************************************************************)
EXTENDS Naturals, Sequences, Kernel

CONSTANTS Writer,     \* threads that print lines of LineLen characters
          LineLen,
          MaxNesting, \* bound on console_lock_depth
          QueueMax    \* INTQ_BUFSIZE - 1

ASSUME SerialAssumption ==
  LineLen \in Nat \ {0} /\ QueueMax \in Nat \ {0} /\ MaxNesting \in Nat /\ NULL \notin Writer \cup Nat

VARIABLES console,    \* holder of console_lock, or NULL
          console_lock_depth,
          use_console_lock,   \* FALSE once the kernel panics
          at,         \* [Writer -> characters of its line printed, or NULL]
          not_full,   \* the writer asleep on txq, or NULL
          txq,        \* bytes to be transmitted
          wire,       \* the line on the wire: the last LineLen bytes sent
          thre,       \* the transmitter can take a byte
          ier,        \* interrupt enable register: subset of {"XMIT", "RECV"}
          buffer,     \* number of keys in the input buffer
          dr,         \* the receiver has a byte
          reader      \* the reading thread: "out", "sleeps" or "runs"
serialVars == <<console, console_lock_depth, use_console_lock, at, not_full, txq, wire, thre, ier, buffer, dr, reader>>

SerialInit ==
  /\ console = NULL /\ console_lock_depth = 0 /\ use_console_lock = TRUE /\ not_full = NULL
  /\ at = [w \in Writer |-> NULL]
  /\ txq = <<>> /\ wire = <<>> /\ thre = TRUE
  /\ ier = {"RECV"}
  /\ buffer = 0 /\ dr = FALSE /\ reader = "out"

input_full == buffer = QueueMax

\* write_ier, after the queues have changed.
write_ier == ier' = (IF txq' # <<>> THEN {"XMIT"} ELSE {}) \cup (IF buffer' < QueueMax THEN {"RECV"} ELSE {})

serial_notify == write_ier

\* Bytes leave for the wire; only the last line's worth is remembered.
Send(w, bytes) ==
  LET all == w \o bytes IN SubSeq(all, IF Len(all) > LineLen THEN Len(all) - LineLen + 1 ELSE 1, Len(all))

\* acquire_console at the start of printf, or of one that the holder of the
\* lock calls before its own is over.
acquire_console(w) ==
  /\ \/ /\ at[w] = NULL /\ console = NULL
        /\ console' = w
        /\ at' = [at EXCEPT ![w] = 0]
        /\ UNCHANGED console_lock_depth
     \/ /\ console = w /\ not_full # w /\ console_lock_depth < MaxNesting
        /\ console_lock_depth' = console_lock_depth + 1
        /\ UNCHANGED <<console, at>>
  /\ UNCHANGED <<use_console_lock, not_full, txq, wire, thre, ier, buffer, dr, reader>>

\* serial_putc with interrupts on: the character of w's line, or one of an
\* inner printf, is queued, or the thread sleeps until the queue has room.
serial_putc(w) ==
  /\ console = w /\ not_full # w
  /\ \/ /\ console_lock_depth = 0 /\ at[w] < LineLen /\ Len(txq) < QueueMax
        /\ txq' = Append(txq, <<w, at[w]>>)
        /\ at' = [at EXCEPT ![w] = @ + 1]
        /\ UNCHANGED <<not_full, buffer>>
        /\ write_ier
     \/ /\ console_lock_depth > 0 /\ Len(txq) < QueueMax
        /\ txq' = Append(txq, <<NULL, 0>>)
        /\ UNCHANGED <<at, not_full, buffer>>
        /\ write_ier
     \/ /\ console_lock_depth > 0 \/ at[w] < LineLen
        /\ Len(txq) = QueueMax
        /\ not_full' = w
        /\ UNCHANGED <<at, txq, ier, buffer>>
  /\ UNCHANGED <<console, console_lock_depth, use_console_lock, wire, thre, dr, reader>>

\* release_console at the end of the line, or of an inner printf.
release_console(w) ==
  /\ console = w /\ not_full # w
  /\ \/ /\ console_lock_depth = 0 /\ at[w] = LineLen
        /\ console' = NULL
        /\ at' = [at EXCEPT ![w] = NULL]
        /\ UNCHANGED console_lock_depth
     \/ /\ console_lock_depth > 0
        /\ console_lock_depth' = console_lock_depth - 1
        /\ UNCHANGED <<console, at>>
  /\ UNCHANGED <<use_console_lock, not_full, txq, wire, thre, ier, buffer, dr, reader>>

\* console_panic, after debug_panic's intr_disable: from here on no other
\* thread and no handler runs, and the lock is not looked at.
console_panic ==
  /\ use_console_lock /\ use_console_lock' = FALSE
  /\ UNCHANGED <<console, console_lock_depth, at, not_full, txq, wire, thre, ier, buffer, dr, reader>>

\* Mutant: a full queue drops its oldest byte.
MakeRoomDrop == wire' = wire

\* putc_poll: wait for the transmitter, then send the oldest byte.
MakeRoom == wire' = Send(wire, <<Head(txq)>>)

\* serial_putc with interrupts off, from an interrupt handler or a panic: a
\* full queue gives up its oldest byte by polling.
InterruptPutc ==
  /\ \/ /\ Len(txq) < QueueMax
        /\ txq' = Append(txq, <<NULL, 0>>)
        /\ UNCHANGED <<not_full, wire, thre>>
     \/ /\ Len(txq) = QueueMax
        /\ txq' = Append(Tail(txq), <<NULL, 0>>)
        /\ MakeRoom /\ thre' = FALSE
        /\ not_full' = NULL
  /\ UNCHANGED buffer
  /\ write_ier
  /\ UNCHANGED <<console, console_lock_depth, use_console_lock, at, dr, reader>>

\* serial_flush: everything queued goes out by polling.
serial_flush ==
  /\ txq # <<>>
  /\ wire' = Send(wire, txq) /\ txq' = <<>> /\ thre' = FALSE
  /\ not_full' = NULL
  /\ UNCHANGED <<console, console_lock_depth, use_console_lock, at, ier, buffer, dr, reader>>

\* serial_interrupt: receive if there is room, then transmit if it can.
serial_interrupt ==
  /\ \/ "XMIT" \in ier /\ thre
     \/ "RECV" \in ier /\ dr
  /\ LET recv == dr /\ ~input_full
         xmit == thre /\ txq # <<>>
     IN /\ dr' = (dr /\ ~recv)
        /\ buffer' = IF recv THEN buffer + 1 ELSE buffer
        /\ reader' = IF recv /\ reader = "sleeps" THEN "runs" ELSE reader
        /\ txq' = IF xmit THEN Tail(txq) ELSE txq
        /\ wire' = IF xmit THEN Send(wire, <<Head(txq)>>) ELSE wire
        /\ thre' = (thre /\ ~xmit)
        /\ not_full' = IF xmit THEN NULL ELSE not_full
  /\ write_ier
  /\ UNCHANGED <<console, console_lock_depth, use_console_lock, at>>

\* keyboard_interrupt with a key that has a character.
keyboard_interrupt ==
  /\ ~input_full
  /\ buffer' = buffer + 1
  /\ reader' = IF reader = "sleeps" THEN "runs" ELSE reader
  /\ UNCHANGED txq
  /\ serial_notify
  /\ UNCHANGED <<console, console_lock_depth, use_console_lock, at, not_full, wire, thre, dr>>

\* input_getc: sleeps on an empty buffer, else takes a key.
input_getc ==
  /\ \/ /\ reader = "out" /\ buffer = 0
        /\ reader' = "sleeps"
        /\ UNCHANGED <<txq, ier, buffer>>
     \/ /\ reader # "sleeps" /\ buffer > 0
        /\ reader' = "out"
        /\ buffer' = buffer - 1
        /\ UNCHANGED txq
        /\ serial_notify
  /\ UNCHANGED <<console, console_lock_depth, use_console_lock, at, not_full, wire, thre, dr>>

\* The hardware: the transmitter is done with its byte; a byte arrives.
TransmitDone == ~thre /\ thre' = TRUE /\ UNCHANGED <<console, console_lock_depth, use_console_lock, at, not_full, txq, wire, ier, buffer, dr, reader>>
ByteArrives == ~dr /\ dr' = TRUE /\ UNCHANGED <<console, console_lock_depth, use_console_lock, at, not_full, txq, wire, thre, ier, buffer, reader>>

SerialNext ==
  \/ /\ use_console_lock
     /\ \/ \E w \in Writer : acquire_console(w) \/ serial_putc(w) \/ release_console(w)
        \/ serial_interrupt \/ keyboard_interrupt \/ input_getc
  \/ console_panic \/ InterruptPutc \/ serial_flush \/ TransmitDone \/ ByteArrives

SerialSpec == SerialInit /\ [][SerialNext]_serialVars

-----------------------------------------------------------------------------
\* The interrupt enable register never lags behind the queues: with bytes to
\* send the transmit interrupt is on, and the receive interrupt is on exactly
\* if the input buffer has room (write_ier's callers).
InterruptsEnabled ==
  /\ txq # <<>> => "XMIT" \in ier
  /\ input_full <=> "RECV" \notin ier

\* One thread at a time is between acquire_console and release_console, so
\* txq never has two threads waiting, which the assertion in intq's wait()
\* relies on, and the waiter is asleep only while the queue is full.
OneWriter ==
  /\ \A v, w \in Writer : at[v] # NULL /\ at[w] # NULL => v = w
  /\ not_full # NULL => Len(txq) = QueueMax /\ at[not_full] # NULL

\* The characters of a line come in order, each once, and lines of different
\* threads do not mix; only what interrupt handlers print may stand between.
Follows(a, b) == \/ b[2] = 0 /\ a[2] = LineLen - 1
                 \/ b[1] = a[1] /\ b[2] = a[2] + 1
LinesDoNotMix ==
  LET out == wire \o txq
  IN \A i, j \in 1 .. Len(out) :
       /\ i < j /\ out[i][1] # NULL /\ out[j][1] # NULL
       /\ \A k \in 1 .. Len(out) : i < k /\ k < j => out[k][1] = NULL
       => Follows(out[i], out[j])

\* serial.c, console.c and input.c: the interrupt enable register never lags
\* behind the queues, one writer at a time is inside the console lock, and the
\* characters of a line come in order, each once, not mixed with another
\* thread's line.
ConsoleSound == InterruptsEnabled /\ OneWriter /\ LinesDoNotMix
=============================================================================
