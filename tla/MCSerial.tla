-------------------------------- MODULE MCSerial --------------------------------
(***************************************************************************)
(* The serial line, for TLC: the link as a whole, the frame queue in its   *)
(* single steps, the lengths of what is sent and the lines of the log.     *)
(* part says which of them a behaviour is about; the variables of the      *)
(* others stay as they were.                                               *)
(***************************************************************************)
EXTENDS UartLink, Integers

CONSTANTS Capacity, RxSize, MaxBytes,
          TxSize, RequestSize, HoldMax, InputMax, LineSize, Numeric, Digits,
          kSmallBuffer, kMaxNumericSize, IntWidth, MaxPieces

VARIABLES part,
          q_rx_buf, q_rx_index, q_rx_status, buf, m_len, front, rear, size, q_timer, q_pended,
          q_low, slot, k, len, out, room, n, last,
          s_tx_status, s_dma, cur, rest, whole, reply,
          g_logLevel, g_output, level_, buffer_, said, reach, pieces, printed, told

FQ == INSTANCE FrameQueueProofs WITH m_rx_buf <- q_rx_buf, m_rx_index <- q_rx_index,
                                     m_rx_status <- q_rx_status, timer <- q_timer,
                                     pended <- q_pended, low <- q_low
SE == INSTANCE Sending WITH m_tx_status <- s_tx_status, dma <- s_dma, RxSize <- RequestSize

(* What a line of the log is made of, with an int of IntWidth bits.        *)
Value(kind, v) == [kind |-> kind, value |-> v]
MCShown ==
    {Value("int", v) : v \in {-128, -10, 0, 200}} \cup
    {Value("pointer", v) : v \in {0, 171}} \cup {Value("bool", TRUE)} \cup
    {Value("double", <<"1", ".", "5">>), Value("text", <<"w", "o", "r", "d", "s">>)}
MCFiles == {<<"a", "\\", "b", "\\", "c">>, <<"d">>}

LO == INSTANCE LogStream WITH Shown <- MCShown, Files <- MCFiles

ASSUME SerialAssumption ==
    FQ!FrameQueueAssumption /\ SE!SendingAssumption /\ LO!LogStreamAssumption

queuevars == <<q_rx_buf, q_rx_index, q_rx_status, buf, m_len, front, rear, size, q_timer, q_pended,
               q_low, slot, k, len, out, room, n, last>>
sendvars  == <<s_tx_status, s_dma, cur, rest, whole, reply>>
textvars  == <<g_logLevel, g_output, level_, buffer_, said, reach, pieces, printed, told>>

MCInit ==
    /\ part \in {"link", "queue", "send", "text"}
    /\ Init /\ FQ!Init /\ SE!Init /\ LO!Init

MCNext ==
    /\ UNCHANGED part
    /\ \/ part = "link"  /\ Next
       \/ part = "queue" /\ FQ!Next
       \/ part = "send"  /\ SE!Next
       \/ part = "text"  /\ LO!Next
    /\ part # "link"  => UNCHANGED vars
    /\ part # "queue" => UNCHANGED queuevars
    /\ part # "send"  => UNCHANGED sendvars
    /\ part # "text"  => UNCHANGED textvars

mcvars == <<part, vars, queuevars, sendvars, textvars>>

(* The fairness of each part, while it is the one that runs.               *)
MCSpec ==
    /\ MCInit /\ [][MCNext]_mcvars
    /\ WF_vars(part = "link" /\ Device)
    /\ WF_vars(part = "link" /\ TxDone)
    /\ WF_vars(part = "link" /\ (Ios \/ LogMark \/ LogStart))
    /\ WF_vars(part = "link" /\ SendByte)
    /\ WF_vars(part = "link" /\ Retry)
    /\ WF_sendvars(part = "send" /\ SE!DMA_UART_TX)

(* Nothing comes out cut: frames come out of the queue whole, lines of the *)
(* log are whole, the byte count of a reply fits, and a line of the log    *)
(* reads the values that were written to it.                               *)
NothingCut ==
    /\ part = "queue" => FQ!TypeOK /\ FQ!Whole
    /\ part = "send"  => SE!TypeOK /\ SE!LinesWhole /\ SE!CountTells
    /\ part = "text"  => LO!TypeOK /\ LO!LineReads

(* Frames go through the queue in order, and the transmitter, once busy,   *)
(* gets free again.                                                        *)
IsFifo    == FQ!IsFifo
FreeAgain == SE!FreeAgain
================================================================================
