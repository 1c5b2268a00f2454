------------------------------ MODULE MessageQueue ------------------------------
(***************************************************************************)
(* The message queue of includes/service.cpp: sv_eq_init, sv_eq_send and   *)
(* sv_eq_recv.  The build leaves it out (SV_EVENT_QUEUE is not defined)    *)
(* and hands requests over by the event loop instead; this is the queue as *)
(* it stands in the file.                                                  *)
(*                                                                         *)
(* Interrupts send and the foreground receives.  A message is taken off    *)
(* the free list in one critical section and linked in another, and copied *)
(* between them with interrupts enabled, so that another sender may come   *)
(* in there; one that has come in runs to its end.  The receiver polls: a  *)
(* receive that waits leaves its critical section (service.cpp:343) and is *)
(* not modelled.                                                           *)
(***************************************************************************)
EXTENDS Naturals, Sequences, FiniteSets

CONSTANTS NSenders,    \* contexts that send, the higher one preempting the lower
          MsgSize,     \* what sv_eq_init is asked for
          PoolSize,
          Data,        \* what a message is filled with
          Lengths      \* bytes that are sent and asked for

MessageQueueAssumption ==
    /\ NSenders \in Nat /\ MsgSize \in Nat \ {0} /\ PoolSize \in Nat
    /\ Lengths \subseteq Nat \ {0}

(* ALIGN_UP(x, 4) is (x + 4) & ~4: it takes out the bit 2 of x + 4, which  *)
(* makes x of an x without that bit and x + 4 of one with it, neither a    *)
(* multiple of four.                                                       *)
AlignUp(x) == IF (x \div 4) % 2 = 0 THEN x ELSE x + 4

msg_size == AlignUp(MsgSize)
Pointer  == 4                         \* sizeof(struct sv_mq_message)
max_msgs == PoolSize \div (msg_size + Pointer)
Msgs     == 1 .. max_msgs
NULL     == 0
Blank    == "?"                       \* what the pool holds at first
Receiver == 0
Contexts == Receiver .. NSenders

VARIABLES msg_queue_head, msg_queue_tail, msg_queue_free, entry,
          next, body,       \* the messages
          pc, msg,          \* of each context, the message in its hands
          buffer,           \* what it sends, or has asked for and received
          rt,               \* the result of the last call
          order,            \* history: what has been sent and not yet received
          due               \* history: what the receiver should get

lists == <<msg_queue_head, msg_queue_tail, msg_queue_free, entry>>
vars  == <<lists, next, body, pc, msg, buffer, rt, order, due>>

TypeOK ==
    /\ msg_queue_head \in Msgs \cup {NULL} /\ msg_queue_tail \in Msgs \cup {NULL}
    /\ msg_queue_free \in Msgs \cup {NULL} /\ entry \in 0 .. max_msgs
    /\ next \in [Msgs -> Msgs \cup {NULL}]
    /\ body \in [Msgs -> [1 .. msg_size -> Data \cup {Blank}]]
    /\ pc \in [Contexts -> {"idle", "copy", "link", "release"}]
    /\ msg \in [Contexts -> Msgs \cup {NULL}]
    /\ rt \in {"EOK", "ERROR", "EFULL", "ETIMEOUT"}

\* sv_eq_init: the free list starts with the last message.
Init ==
    /\ msg_queue_head = NULL /\ msg_queue_tail = NULL /\ entry = 0
    /\ msg_queue_free = max_msgs
    /\ next = [m \in Msgs |-> m - 1]
    /\ body = [m \in Msgs |-> [k \in 1 .. msg_size |-> Blank]]
    /\ pc = [c \in Contexts |-> "idle"] /\ msg = [c \in Contexts |-> NULL]
    /\ buffer = [c \in Contexts |-> <<>>] /\ rt = "EOK"
    /\ order = <<>> /\ due = <<>>

\* A context runs while none above it does; one above may come in at any step.
Runs(c) == \A h \in Contexts : h > c => pc[h] = "idle"

Returns(c, result) == rt' = result /\ pc' = [pc EXCEPT ![c] = "idle"]
Goes(c, to)        == pc' = [pc EXCEPT ![c] = to] /\ UNCHANGED rt

--------------------------------------------------------------------------------
(* sv_eq_send.                                                             *)

\* Too long, or none is free.
SendFails(c, size) ==
    /\ c # Receiver /\ pc[c] = "idle" /\ Runs(c)
    /\ \/ size > msg_size /\ Returns(c, "ERROR")
       \/ size <= msg_size /\ msg_queue_free = NULL /\ Returns(c, "EFULL")
    /\ UNCHANGED <<lists, next, body, msg, buffer, order, due>>

SendBegin(c, d, size) ==
    /\ c # Receiver /\ pc[c] = "idle" /\ Runs(c)
    /\ size <= msg_size /\ msg_queue_free # NULL
    /\ msg' = [msg EXCEPT ![c] = msg_queue_free]
    /\ msg_queue_free' = next[msg_queue_free]
    /\ buffer' = [buffer EXCEPT ![c] = [k \in 1 .. size |-> d]]
    /\ Goes(c, "copy")
    /\ UNCHANGED <<msg_queue_head, msg_queue_tail, entry, next, body, order, due>>

SendCopy(c) ==
    /\ c # Receiver /\ pc[c] = "copy" /\ Runs(c)
    /\ next' = [next EXCEPT ![msg[c]] = NULL]
    /\ body' = [body EXCEPT ![msg[c]] =
                  [k \in 1 .. msg_size |-> IF k \in DOMAIN buffer[c] THEN buffer[c][k] ELSE @[k]]]
    /\ Goes(c, "link")
    /\ UNCHANGED <<lists, msg, buffer, order, due>>

\* (mutant) the tail is left where it was
Link_tail_stays(m) ==
    /\ next' = IF msg_queue_tail = NULL THEN next ELSE [next EXCEPT ![msg_queue_tail] = m]
    /\ msg_queue_tail' = IF msg_queue_tail = NULL THEN m ELSE msg_queue_tail
    /\ msg_queue_head' = IF msg_queue_head = NULL THEN m ELSE msg_queue_head
    /\ entry' = entry + 1

Link(m) ==
    /\ next' = IF msg_queue_tail = NULL THEN next ELSE [next EXCEPT ![msg_queue_tail] = m]
    /\ msg_queue_tail' = m
    /\ msg_queue_head' = IF msg_queue_head = NULL THEN m ELSE msg_queue_head
    /\ entry' = entry + 1

SendLink(c) ==
    /\ c # Receiver /\ pc[c] = "link" /\ Runs(c)
    /\ Link(msg[c])
    /\ msg' = [msg EXCEPT ![c] = NULL]
    /\ order' = Append(order, buffer[c]) /\ buffer' = [buffer EXCEPT ![c] = <<>>]
    /\ Returns(c, "EOK")
    /\ UNCHANGED <<msg_queue_free, body, due>>

--------------------------------------------------------------------------------
(* sv_eq_recv, with a timeout of 0.                                        *)

Nothing ==
    /\ pc[Receiver] = "idle" /\ Runs(Receiver) /\ entry = 0
    /\ Returns(Receiver, "ETIMEOUT")
    /\ UNCHANGED <<lists, next, body, msg, buffer, order, due>>

Take ==
    /\ pc[Receiver] = "idle" /\ Runs(Receiver) /\ entry # 0
    /\ msg' = [msg EXCEPT ![Receiver] = msg_queue_head]
    /\ msg_queue_head' = next[msg_queue_head]
    /\ msg_queue_tail' = IF msg_queue_tail = msg_queue_head THEN NULL ELSE msg_queue_tail
    /\ entry' = entry - 1
    /\ due' = order[1] /\ order' = SubSeq(order, 2, Len(order))
    /\ Goes(Receiver, "copy")
    /\ UNCHANGED <<msg_queue_free, next, body, buffer>>

RecvCopy(size) ==
    /\ pc[Receiver] = "copy" /\ Runs(Receiver)
    /\ buffer' = [buffer EXCEPT ![Receiver] =
                    SubSeq(body[msg[Receiver]], 1, IF size > msg_size THEN msg_size ELSE size)]
    /\ Goes(Receiver, "release")
    /\ UNCHANGED <<lists, next, body, msg, order, due>>

Release ==
    /\ pc[Receiver] = "release" /\ Runs(Receiver)
    /\ next' = [next EXCEPT ![msg[Receiver]] = msg_queue_free]
    /\ msg_queue_free' = msg[Receiver]
    /\ msg' = [msg EXCEPT ![Receiver] = NULL] /\ buffer' = [buffer EXCEPT ![Receiver] = <<>>]
    /\ due' = <<>>
    /\ Returns(Receiver, "EOK")
    /\ UNCHANGED <<msg_queue_head, msg_queue_tail, entry, body, order>>

sv_eq_send ==
    \E c \in Contexts :
      \/ \E size \in Lengths : SendFails(c, size) \/ \E d \in Data : SendBegin(c, d, size)
      \/ SendCopy(c) \/ SendLink(c)

sv_eq_recv == Nothing \/ Take \/ (\E size \in Lengths : RecvCopy(size)) \/ Release

Next == sv_eq_send \/ sv_eq_recv

Spec == Init /\ [][Next]_vars

--------------------------------------------------------------------------------
(* Properties.                                                             *)

\* The messages from m on, as far as the links go and not round for ever.
Chain(m) ==
    LET at[k \in 1 .. max_msgs + 1] ==
          IF k = 1 THEN m ELSE IF at[k - 1] = NULL THEN NULL ELSE next[at[k - 1]]
        n == Cardinality({k \in 1 .. max_msgs + 1 : at[k] # NULL})
    IN  [k \in 1 .. n |-> at[k]]

Queue == Chain(msg_queue_head)
Free  == Chain(msg_queue_free)
Held  == {c \in Contexts : msg[c] # NULL}

(* However the senders come in between each other and the receiver, each   *)
(* message is in one place: free, in one pair of hands, or queued.  What   *)
(* is queued is what was sent, in the order in which it was linked, with   *)
(* entry to count it, and what is received is the first of it.             *)
QueueKeeps ==
    /\ Len(Queue) = entry /\ (entry # 0 => Queue[entry] = msg_queue_tail)
    /\ entry = 0 => msg_queue_tail = NULL
    /\ Len(Queue) + Len(Free) + Cardinality(Held) = max_msgs
    /\ {Queue[k] : k \in DOMAIN Queue} \cup {Free[k] : k \in DOMAIN Free}
         \cup {msg[c] : c \in Held} = Msgs
    /\ Len(order) = entry
    /\ \A k \in DOMAIN order : SubSeq(body[Queue[k]], 1, Len(order[k])) = order[k]
    /\ pc[Receiver] = "release" =>
         \A k \in DOMAIN due : k \in DOMAIN buffer[Receiver] => buffer[Receiver][k] = due[k]
================================================================================
