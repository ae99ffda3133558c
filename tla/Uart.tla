-------------------------------- MODULE Uart -------------------------------
(***************************************************************************)
(* The receive ring of the serial console (uart.c): the interrupt stores what *)
(* arrives without looking for room, the main program takes characters out.   *)
(* Characters are numbered in the order they were typed.                      *)
(***************************************************************************)
EXTENDS Naturals, Sequences

CONSTANTS RxSize,   \* UART_RX_BUF_SIZE
          MaxKeys   \* bound: characters typed

VARIABLES rx_buf, rx_start, rx_end,
          typed,    \* history: characters typed
          gone      \* history: characters read, or dropped by uart_init

uartVars == <<rx_buf, rx_start, rx_end, typed, gone>>

ASSUME UartAssumption == RxSize \in Nat \ {0} /\ MaxKeys \in Nat

UartTypeOK ==
  /\ rx_buf \in [0..RxSize-1 -> 0..MaxKeys]
  /\ rx_start \in 0..RxSize-1 /\ rx_end \in 0..RxSize-1
  /\ typed \in 0..MaxKeys /\ gone \in 0..MaxKeys

UartPowerOn ==
  /\ rx_buf = [i \in 0..RxSize-1 |-> 0]
  /\ rx_start = 0 /\ rx_end = 0
  /\ typed = 0 /\ gone = 0

Advance(i) == IF i + 1 = RxSize THEN 0 ELSE i + 1

\* ISR(USART_RX_vect)
Isr ==
  /\ typed < MaxKeys
  /\ typed' = typed + 1
  /\ rx_buf' = [rx_buf EXCEPT ![rx_end] = typed']
  /\ rx_end' = Advance(rx_end)
  /\ UNCHANGED <<rx_start, gone>>

\* uart_read_data_available; a full ring looks like an empty one.
DataAvailable == rx_start # rx_end

\* uart_read, behind its wait.
Read ==
  /\ DataAvailable
  /\ rx_start' = Advance(rx_start)
  /\ gone' = gone + 1
  /\ UNCHANGED <<rx_buf, rx_end, typed>>

\* uart_init: what waits is dropped.  The mutant forgets one index.
UartResetEnd ==
  /\ rx_end' = 0
  /\ gone' = typed
  /\ UNCHANGED <<rx_buf, rx_start, typed>>
UartReset ==
  /\ rx_start' = 0 /\ rx_end' = 0
  /\ gone' = typed
  /\ UNCHANGED <<rx_buf, typed>>

NumWaiting == (RxSize + rx_end - rx_start) % RxSize
Waiting == [i \in 1..NumWaiting |-> rx_buf[(rx_start + i - 1) % RxSize]]
----------------------------------------------------------------------------
(* Properties *)

\* What waits is the newest of what was typed, in order; and what is lost is lost in whole
\* rings: RxSize characters that nobody read in time.
KeysKept ==
  /\ \A i \in 1..NumWaiting : Waiting[i] = typed - NumWaiting + i
  /\ (typed - gone) % RxSize = NumWaiting
=============================================================================
