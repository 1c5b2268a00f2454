--------------------------------- MODULE Basis ---------------------------------
(***************************************************************************)
(* What the other modules take for granted: the interrupts, as the atomic  *)
(* steps of the contexts need them, and the structures of lib/common that  *)
(* the program keeps its data in, the bytes of an event, the lists, the    *)
(* ring and the message queue.  They share nothing; they are together here *)
(* for BasisProofs.                                                        *)
(***************************************************************************)
EXTENDS Vectors

CONSTANTS def_EVENT_DATA_SIZE, cheapPrepend, Widths, Bytes,
          Heads, Items, CAPACITY, RingBytes, NSenders, MsgSize, PoolSize, Data, Lengths

VARIABLES b_param, readerIndex_, writerIndex_, data,
          k_next, k_prev, content,
          beg_index_, end_index_, size_, data_, kept, out,
          msg_queue_head, msg_queue_tail, msg_queue_free, entry, next, body, q_pc, msg,
          buffer, rt, order, q_due

EB == INSTANCE EventBuffer WITH m_param <- b_param
LL == INSTANCE LinkedList WITH m_next <- k_next, m_prev <- k_prev
RB == INSTANCE RingBuffer
MQ == INSTANCE MessageQueue WITH pc <- q_pc, due <- q_due
================================================================================
