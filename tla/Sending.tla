------------------------------ MODULE Sending --------------------------------
(***************************************************************************)
(* How long the things are that go out on the serial line: the replies of  *)
(* modbus_reply (app/modbus.cpp) and the lines of the log (api/log), both  *)
(* sent by transceiver_uart0::transmit, which marks the transmitter busy   *)
(* before it looks at the length.                                          *)
(*                                                                         *)
(* Texts are their lengths.  UartLink has who waits for whom.              *)
(***************************************************************************)
EXTENDS Naturals, Sequences, SequencesExt

CONSTANTS TxSize,    \* def_TRANSCEIVER_TX_BUF_SIZE
          RxSize,    \* def_TRANSCEIVER_RX_BUF_SIZE
          HoldMax,   \* def_HOLD_REG_MAX_NO
          InputMax,  \* def_INPUT_REG_MAX_NO
          LineSize,  \* kSmallBuffer
          Numeric,   \* kMaxNumericSize
          Digits     \* lengths of numbers

SendingAssumption ==
    /\ TxSize \in Nat /\ RxSize \in Nat /\ HoldMax \in 1 .. 128 /\ InputMax \in 1 .. 128
    /\ LineSize \in Nat \ {0} /\ Numeric \in Nat
    /\ Digits \subseteq 1 .. Numeric - 1

\* The texts of a line; 0 stands for a number.
Number == 0

\* Lines with the name of a function: those of run, of self_calib_handle, of period_handle.
Traced == {<<3, <<25>>>>, <<3, <<16>>>>, <<17, <<9, 17>>>>, <<17, <<21, Number>>>>, <<17, <<39, Number, 1>>>>,
           <<17, <<23, Number>>>>, <<17, <<54>>>>, <<13, <<69>>>>}

\* Warnings and errors, without: those of device::open and of the configuration.
Plain == {<<7, 6, 10>>, <<7, 7, 10>>, <<24>>, <<25>>, <<30>>}

VARIABLES m_tx_status,  \* the transmitter is "IDLE" or "PROCESSING"
          dma,          \* a transmission has been started
          cur,          \* the length of the line the foreground is at, 0 for none
          rest,         \* what it has not got yet,
          whole,        \* history: every piece of the line has got in
          reply         \* the last reply to a read: registers, and its byte count

vars == <<m_tx_status, dma, cur, rest, whole, reply>>

TypeOK ==
    /\ m_tx_status \in {"IDLE", "PROCESSING"} /\ dma \in BOOLEAN
    /\ cur \in 0 .. LineSize - 1
    /\ rest \in Seq(Nat)
    /\ whole \in BOOLEAN
    /\ reply \in [reg_no : 0 .. 127, count : 0 .. 255]

Init ==
    /\ m_tx_status = "IDLE" /\ dma = FALSE
    /\ cur = 0 /\ rest = <<>> /\ whole = TRUE
    /\ reply = [reg_no |-> 0, count |-> 0]

\* transmit, once the transmitter is idle.
Transmit(len) ==
    /\ m_tx_status = "IDLE" /\ m_tx_status' = "PROCESSING"
    /\ dma' = (len <= TxSize)

DMA_UART_TX ==
    /\ dma /\ dma' = FALSE /\ m_tx_status' = "IDLE"
    /\ UNCHANGED <<cur, rest, whole, reply>>

--------------------------------------------------------------------------------
(* PendSV: a reply.  Header and check sum are two bytes each.              *)

\* (mutant) the number of registers is sent
Count_regs(reg_no) == reg_no

\* The byte count is a byte.
Count(reg_no) == (2 * reg_no) % 256

ParamLen(reg_no) == 2 * reg_no

\* (mutant) the range is not looked at
Readable_unchecked(max) == 0 .. 4 * max

\* The registers that can be read, given where they end.
Readable(max) == {reg_no \in 0 .. max - 1 : \E reg \in 0 .. max : reg + reg_no < max}

ReplyRead ==
    \E reg_no \in Readable(HoldMax) \cup Readable(InputMax) :
        /\ Transmit(2 + 1 + ParamLen(reg_no) + 2)
        /\ reply' = [reg_no |-> reg_no, count |-> Count(reg_no)]
        /\ UNCHANGED <<cur, rest, whole>>

\* A single write sends its own frame back, however long it is.
Echo == \E len \in 4 .. RxSize : Transmit(len)

\* A multiple write, an exception, or the slave id, LMBmodbus-1.0.
Reply == \E body \in {4, 1, 3 + 13} : Transmit(2 + body + 2)

ReplyOther == (Echo \/ Reply) /\ UNCHANGED <<cur, rest, whole, reply>>

--------------------------------------------------------------------------------
(* The foreground: a line of the log.                                      *)

Room(len) == LineSize - len

\* FixedBuffer::append: a text that does not fit is left out.
Appended(len, l) == IF Room(len) > l THEN len + l ELSE len

\* formatInteger: a number gets in if any number would.
NumberAdded(len, d) == IF Room(len) >= Numeric THEN len + d ELSE len

\* Text after text, and whether all of them got in.
Texts(ls) ==
    /\ cur' = FoldLeft(Appended, cur, ls)
    /\ whole' = (whole /\ cur' = cur + FoldLeft(+, 0, ls))

\* The time, its milliseconds, the process and the level.
Prefix == <<17, 5, 8, 6>>

\* (mutant) the line before is not taken out
LogBegin_after ==
    /\ rest = <<>>
    /\ \/ \E l \in Traced : Texts(Prefix \o <<l[1], 1>>) /\ rest' = l[2]
       \/ \E l \in Plain : Texts(Prefix) /\ rest' = l
    /\ UNCHANGED <<m_tx_status, dma, reply>>

\* Logger::Impl::Impl, on a stream of its own.
LogBegin ==
    /\ cur = 0
    /\ \/ \E l \in Traced : Texts(Prefix \o <<l[1], 1>>) /\ rest' = l[2]
       \/ \E l \in Plain : Texts(Prefix) /\ rest' = l
    /\ UNCHANGED <<m_tx_status, dma, reply>>

AppendNumber ==
    \E d \in Digits : /\ cur' = NumberAdded(cur, d)
                      /\ whole' = (whole /\ cur' = cur + d)

LogPiece ==
    /\ rest # <<>> /\ rest' = Tail(rest)
    /\ IF Head(rest) = Number THEN AppendNumber ELSE Texts(<<Head(rest)>>)
    /\ UNCHANGED <<m_tx_status, dma, reply>>

\* Logger::~Logger: " - ", the file, ':', the line of it and '\n', and out it goes.
LogEnd ==
    /\ cur > 0 /\ rest = <<>>
    /\ \E file \in {8, 11}, line \in 2 .. 3 :
         LET tail == FoldLeft(Appended, NumberAdded(FoldLeft(Appended, cur, <<3, file, 1>>), line), <<1>>)
         IN  /\ whole' = (whole /\ tail = cur + 3 + file + 1 + line + 1)
             /\ Transmit(tail)
    /\ cur' = 0 /\ UNCHANGED <<rest, reply>>

Next == DMA_UART_TX \/ ReplyRead \/ ReplyOther \/ LogBegin \/ LogPiece \/ LogEnd

Spec == Init /\ [][Next]_vars /\ WF_vars(DMA_UART_TX)

--------------------------------------------------------------------------------
(* Properties.                                                             *)

(* transmit marks the transmitter busy and then gives up on what does not  *)
(* fit its buffer; only the end of a transmission would free it again.     *)
(* Nothing that the program sends is that long, so the line is always      *)
(* free again.                                                             *)
FreeAgain == m_tx_status = "PROCESSING" ~> m_tx_status = "IDLE"

(* A line of the log that has no room for a text leaves it out, the end of *)
(* the line like any other; no line of the program comes to that.          *)
LinesWhole == whole

(* The byte count of a reply, which has to fit a byte, is that of the      *)
(* registers that follow: the table of registers is small enough.          *)
CountTells == reply.count = 2 * reply.reg_no
================================================================================
