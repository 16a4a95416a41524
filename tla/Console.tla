------------------------------ MODULE Console ------------------------------
(***************************************************************************)
(* The console, kernel/console.c, over the serial port: consoleintr() puts *)
(* typed characters into the ring cons.buf, where r <= w <= e, as uints    *)
(* that wrap, mark what is read, entered and edited, and consoleread()     *)
(* takes entered characters out.  Both hold cons.lock, which only sleep()  *)
(* gives up, so each call is one step, plus the echo.                      *)
(***************************************************************************)
EXTENDS Uart

CONSTANTS
    Letters,        \* characters without a meaning to the console
    INPUT_BUF_SIZE,
    Wrap,           \* r, w and e are uints: they wrap at Wrap
    target          \* the byte count of a read()

ASSUME InputAssumption ==
    /\ INPUT_BUF_SIZE \in Nat /\ INPUT_BUF_SIZE > 0
    /\ Wrap \in Nat /\ Wrap % INPUT_BUF_SIZE = 0 /\ Wrap > INPUT_BUF_SIZE

ASSUME LettersAssumption == Letters \cap {"nl", "eof", "bs", "kill"} = {}

VARIABLES
    buf, r, w, e,   \* cons
    n,              \* bytes that a consoleread() still has to copy
    rx              \* device: a character is received

consvars == <<buf, r, w, e>>

vars == <<uartvars, irq, intr, echo, idle, pc, consvars, n, rx>>

\* what a slot outside r .. e holds: nothing reads it before it is written again
Junk == CHOOSE c \in Letters : TRUE

Init ==
    /\ UartInit
    /\ buf = [k \in 0 .. INPUT_BUF_SIZE - 1 |-> Junk]
    /\ r = 0 /\ w = 0 /\ e = 0
    /\ n = [p \in Readers |-> target]
    /\ rx = FALSE

Dist(i, j) == (j + Wrap - i) % Wrap

\* the characters of the ring from index i up to j
Slice(i, j) == [k \in 1 .. Dist(i, j) |-> buf[((i + k - 1) % Wrap) % INPUT_BUF_SIZE]]

\* the ring when it holds the characters from index i up to j
Ring(i, j) == [k \in DOMAIN buf |-> IF \E d \in 0 .. Dist(i, j) - 1 : (i + d) % INPUT_BUF_SIZE = k
                                    THEN buf[k] ELSE Junk]

-----------------------------------------------------------------------------

(* consoleintr(), called by uartintr() *)

Commands == {"bs", "kill"}

\* the user types
dev_receive ==
    /\ ~rx
    /\ rx' = TRUE
    /\ irq' = TRUE
    /\ UNCHANGED <<uartvars, intr, echo, idle, pc, consvars, n>>

uartintr ==
    /\ irq /\ intr = "none"
    /\ irq' = FALSE /\ intr' = "rx"
    /\ UNCHANGED <<uartvars, echo, idle, pc, consvars, n, rx>>

Stores(c) == c \notin Commands /\ Dist(r, e) < INPUT_BUF_SIZE

\* Mutant: a full buffer is not handed to the reader.
Enters_line(c) == c \in {"nl", "eof"}

\* the character completes a line, or the buffer
Enters(c) == c \in {"nl", "eof"} \/ Dist(r, e) + 1 = INPUT_BUF_SIZE

\* how many characters of the line a backspace or a line kill takes back: a newline
\* is never among them, since it moves w to e.  consputc() overwrites each with
\* three bytes.
Erased(c) == CASE c = "bs"   -> IF e # w THEN 1 ELSE 0
               [] c = "kill" -> Dist(w, e)
               [] OTHER      -> 0

consoleintr(c) ==
    /\ intr = "rx" /\ echo = 0 /\ rx
    /\ rx' = FALSE
    /\ IF Stores(c)
       THEN /\ buf' = [buf EXCEPT ![e % INPUT_BUF_SIZE] = c]
            /\ e' = (e + 1) % Wrap
            /\ echo' = 1
            /\ IF Enters(c) THEN w' = e' /\ pc' = Wake("csleep", "read") ELSE UNCHANGED <<w, pc>>
       ELSE /\ e' = (e + Wrap - Erased(c)) % Wrap
            /\ buf' = Ring(r, e')
            /\ echo' = 3 * Erased(c)
            /\ UNCHANGED <<w, pc>>
    /\ UNCHANGED <<uartvars, irq, intr, idle, r, n>>

\* Mutant: the handler does not send buffered characters.
uartintr_tx_not ==
    /\ intr = "rx" /\ echo = 0 /\ ~rx
    /\ intr' = "none"
    /\ UNCHANGED <<uartvars, irq, echo, idle, pc, consvars, n, rx>>

\* no more input: on to uartstart()
uartintr_tx ==
    /\ intr = "rx" /\ echo = 0 /\ ~rx /\ tx_lock = None
    /\ intr' = "tx" /\ tx_lock' = "intr"
    /\ UNCHANGED <<tx_buf, tx_w, tx_r, byte, thr, irq, echo, idle, pc, consvars, n, rx>>

-----------------------------------------------------------------------------

(* consoleread() *)

\* how many characters of s the loop copies, one number: up to n, a newline, or short
\* of an end-of-file
Copied(p, s) ==
    {k \in 0 .. Len(s) :
        /\ k <= n[p]
        /\ \A i \in 1 .. k : s[i] # "eof" /\ (s[i] = "nl" => i = k)
        /\ \/ k = Len(s) \/ k = n[p]
           \/ k > 0 /\ s[k] = "nl"
           \/ s[k + 1] = "eof"}

\* the return, and the next read()
Returns(p) ==
    /\ Goto(p, "read")
    /\ n' = [n EXCEPT ![p] = target]

\* The loop, from one sleep to the next or to the return.  An end-of-file is left
\* in the buffer unless nothing was copied before it.
consoleread(p) ==
    /\ pc[p] = "read" /\ echo = 0
    /\ LET s == Slice(r, w)
       IN  \E k \in Copied(p, s) :
             LET Done == k = n[p] \/ (k > 0 /\ s[k] = "nl")
                 Eof == ~Done /\ k < Len(s)
             IN  \/ \* the line, n bytes or an end-of-file; or copyout() fails on a byte
                    /\ \/ (Done \/ Eof) /\ r' = (r + IF Eof /\ k = 0 /\ n[p] = target THEN 1 ELSE k) % Wrap
                       \/ \E i \in 1 .. k : r' = (r + i) % Wrap
                    /\ Returns(p)
                 \/ \* the ring is empty: return if killed, or sleep
                    /\ ~Done /\ ~Eof
                    /\ r' = (r + k) % Wrap
                    /\ \/ Returns(p)
                       \/ /\ Goto(p, "csleep")
                          /\ n' = [n EXCEPT ![p] = @ - k]
    /\ buf' = Ring(r', e)
    /\ UNCHANGED <<uartvars, irq, intr, echo, idle, w, e, rx>>

\* kill() wakes a sleeper: consoleread() then returns or finds input, uartputc()
\* does not look at p->killed
kill(p) ==
    /\ pc[p] \in {"csleep", "wsleep"}
    /\ Goto(p, IF pc[p] = "csleep" THEN "read" ELSE "write")
    /\ UNCHANGED <<uartvars, irq, intr, echo, idle, consvars, n, rx>>

-----------------------------------------------------------------------------

UartStep == (uartstart \/ uartputc_sync \/ dev_send) /\ UNCHANGED <<consvars, n, rx>>

IntrStep == uartintr \/ (\E c \in Letters \cup {"nl", "eof"} \cup Commands : consoleintr(c)) \/ uartintr_tx

Next ==
    \/ dev_receive
    \/ UartStep
    \/ IntrStep
    \/ \E p \in Readers : consoleread(p)
    \/ \E p \in Writers : uartputc(p) /\ UNCHANGED <<consvars, n, rx>>
    \/ \E p \in Procs : kill(p)

\* The port sends what it has, raised interrupts are taken, the handler and
\* uartstart() run to their end.
Fairness == /\ WF_vars(dev_send /\ UNCHANGED <<consvars, n, rx>>)
            /\ WF_vars(uartstart /\ UNCHANGED <<consvars, n, rx>>)
            /\ WF_vars(uartputc_sync /\ UNCHANGED <<consvars, n, rx>>)
            /\ WF_vars(IntrStep)

Spec == Init /\ [][Next]_vars /\ Fairness

-----------------------------------------------------------------------------

(* Correctness *)

Line == INSTANCE Tty WITH Size <- INPUT_BUF_SIZE, entered <- Slice(r, w), edit <- Slice(w, e)

\* The ring implements the line discipline: across the wrap of the indices no
\* character is overwritten before it is read, editing never reaches an entered
\* line, and a read takes at most one line and an end-of-file only by itself.
LineDiscipline == Line!Spec

\* Nobody sleeps who could go on: a reader is asleep only while no line is entered,
\* a writer only while the ring is full.
ConsoleSleepers ==
    \A p \in Procs : /\ pc[p] = "csleep" => r = w
                     /\ pc[p] = "wsleep" => TxFull

\* Output keeps its order: the ring holds the bytes from tx_r on, and of those
\* before it one at most, the last that uartstart() took, is still in its hands or
\* in the FIFO, whatever echo comes between.
TxInOrder ==
    LET out == IF byte = None THEN thr ELSE Append(thr, byte)
        Taken == {k \in DOMAIN out : out[k] # Echo}
    IN  /\ TxUsed <= UART_TX_BUF_SIZE
        /\ \A k \in 0 .. TxUsed - 1 :
              LET i == (tx_r + k) % TxWrap IN tx_buf[i % UART_TX_BUF_SIZE] = i
        /\ \A k \in Taken : out[k] = (tx_r + TxWrap - 1) % TxWrap
        /\ \A k, l \in Taken : k = l
        /\ Len(thr) <= 2

\* Everything written comes out, once the typing pauses: the ring never stays
\* non-empty with none of its bytes sent, though echo takes the port away and
\* uartstart() gives up on a busy port.
OutputDrains ==
    <>[]~rx => \A i \in 0 .. TxWrap - 1 : []<>(tx_r # i \/ tx_w = tx_r)
=============================================================================
