-------------------------------- MODULE Uart --------------------------------
(***************************************************************************)
(* The serial port driver, kernel/uart.c, with the 16550 behind it.        *)
(* Bytes that write() sends go through a ring under uart_tx_lock; echoed   *)
(* bytes bypass it and the lock, and both write THR after a look at LSR,   *)
(* so a look and its write are two steps.  The bytes of the ring are       *)
(* numbered in the order in which uartputc() accepts them.                 *)
(***************************************************************************)
EXTENDS Naturals, Sequences, FiniteSets

CONSTANTS
    Readers, Writers,       \* processes that read and that write the console
    UART_TX_BUF_SIZE,
    TxWrap,         \* uart_tx_w and uart_tx_r are uint64s: they wrap at TxWrap
    None

ASSUME TxAssumption ==
    /\ UART_TX_BUF_SIZE \in Nat /\ UART_TX_BUF_SIZE > 0
    /\ TxWrap \in Nat /\ TxWrap % UART_TX_BUF_SIZE = 0 /\ TxWrap > UART_TX_BUF_SIZE

Procs == Readers \cup Writers

VARIABLES
    tx_buf, tx_w, tx_r,
    tx_lock,        \* who runs uartstart(): a process, "intr" or None
    byte,           \* the byte it is about to write to THR, or None
    thr,            \* device: the transmit FIFO
    irq,            \* device: interrupt raised
    intr,           \* where uartintr() is
    echo,           \* bytes that consputc() still has to echo for the handler
    idle,           \* it has seen LSR_TX_IDLE
    pc              \* where a process is

Echo == TxWrap      \* an echoed byte, in the FIFO

uartvars == <<tx_buf, tx_w, tx_r, tx_lock, byte, thr>>

UartInit ==
    /\ tx_buf = [k \in 0 .. UART_TX_BUF_SIZE - 1 |-> TxWrap]
    /\ tx_w = 0 /\ tx_r = 0
    /\ tx_lock = None /\ byte = None
    /\ thr = <<>>
    /\ irq = FALSE /\ intr = "none"
    /\ echo = 0 /\ idle = FALSE
    /\ pc = [p \in Procs |-> IF p \in Readers THEN "read" ELSE "write"]

Goto(p, l) == pc' = [pc EXCEPT ![p] = l]

Wake(l, m) == [p \in Procs |-> IF pc[p] = l THEN m ELSE pc[p]]

TxUsed == (tx_w + TxWrap - tx_r) % TxWrap

\* Mutant: the ring takes one byte too many.
TxFull_late == tx_w = (tx_r + UART_TX_BUF_SIZE + 1) % TxWrap

TxFull == tx_w = (tx_r + UART_TX_BUF_SIZE) % TxWrap

-----------------------------------------------------------------------------

\* consolewrite() calls uartputc() for one byte after the other: up to uartstart(),
\* or asleep on a full ring
uartputc(p) ==
    /\ pc[p] = "write" /\ tx_lock = None
    /\ IF TxFull
       THEN Goto(p, "wsleep") /\ UNCHANGED <<tx_buf, tx_w, tx_lock>>
       ELSE /\ tx_buf' = [tx_buf EXCEPT ![tx_w % UART_TX_BUF_SIZE] = tx_w]
            /\ tx_w' = (tx_w + 1) % TxWrap
            /\ tx_lock' = p
            /\ UNCHANGED pc
    /\ UNCHANGED <<tx_r, byte, thr, irq, intr, echo, idle>>

\* uartstart(): leave when the ring is empty or the port busy
uartstart_return ==
    /\ tx_lock # None /\ byte = None
    /\ tx_w = tx_r \/ thr # <<>>
    /\ tx_lock' = None
    /\ intr' = IF tx_lock = "intr" THEN "none" ELSE intr
    /\ UNCHANGED <<tx_buf, tx_w, tx_r, byte, thr, irq, echo, idle, pc>>

\* Mutant: nobody who waits for room is woken.
uartstart_take_quiet ==
    /\ tx_lock # None /\ byte = None
    /\ tx_w # tx_r /\ thr = <<>>
    /\ byte' = tx_buf[tx_r % UART_TX_BUF_SIZE]
    /\ tx_r' = (tx_r + 1) % TxWrap
    /\ UNCHANGED <<tx_buf, tx_w, tx_lock, thr, irq, intr, echo, idle, pc>>

\* uartstart(): take a byte, and wake those who wait for room
uartstart_take ==
    /\ tx_lock # None /\ byte = None
    /\ tx_w # tx_r /\ thr = <<>>
    /\ byte' = tx_buf[tx_r % UART_TX_BUF_SIZE]
    /\ tx_r' = (tx_r + 1) % TxWrap
    /\ pc' = Wake("wsleep", "write")
    /\ UNCHANGED <<tx_buf, tx_w, tx_lock, thr, irq, intr, echo, idle>>

uartstart_write ==
    /\ byte # None
    /\ thr' = Append(thr, byte)
    /\ byte' = None
    /\ UNCHANGED <<tx_buf, tx_w, tx_r, tx_lock, irq, intr, echo, idle, pc>>

uartstart == uartstart_return \/ uartstart_take \/ uartstart_write

\* uartputc_sync(): spin until LSR_TX_IDLE, then write THR, without uart_tx_lock
uartputc_sync ==
    /\ echo > 0
    /\ \/ /\ ~idle /\ thr = <<>>
          /\ idle' = TRUE
          /\ UNCHANGED <<thr, echo>>
       \/ /\ idle
          /\ thr' = Append(thr, Echo)
          /\ idle' = FALSE /\ echo' = echo - 1
    /\ UNCHANGED <<tx_buf, tx_w, tx_r, tx_lock, byte, irq, intr, pc>>

\* the device sends a byte; it interrupts when the FIFO is empty
dev_send ==
    /\ thr # <<>>
    /\ thr' = Tail(thr)
    /\ irq' = (irq \/ Len(thr) = 1)
    /\ UNCHANGED <<tx_buf, tx_w, tx_r, tx_lock, byte, intr, echo, idle, pc>>
=============================================================================
