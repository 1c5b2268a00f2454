------------------------------- MODULE EventLoop -------------------------------
(***************************************************************************)
(* The hand-over of work from interrupts to the foreground loop:           *)
(* eventloop::run_inloop and event_handle (reactor/event_loop.cpp), the    *)
(* fixed pool event_manage (includes/service.cpp) with its bitmap, the     *)
(* intrusive lists of service.cpp and the counter of the event device      *)
(* (bsp/driver/event/drv_event.cpp).                                       *)
(*                                                                         *)
(* Two contexts run.  The foreground polls the device, reads it, splices   *)
(* the queue in a critical section and walks the spliced list with         *)
(* interrupts enabled.  PendSV preempts the foreground between any two     *)
(* instructions outside the critical section and runs to completion: a     *)
(* Modbus write ends there in run_inloop.  So run_inloop is one step and   *)
(* the foreground is cut wherever PendSV can see or change shared state.   *)
(***************************************************************************)
EXTENDS Naturals, Sequences

CONSTANTS NSlots,      \* def_EVENT_NR, the size of the pool
          Requests,    \* what an event carries (register range to save)
          NoRequest,   \* what a slot holds before its first use
          PostPoints   \* foreground points at which a Modbus write may finish

(* The foreground's program points: in poller::poll, at the device read of *)
(* channel::handleEvent, before the critical section of event_handle, and  *)
(* the four points of its list walk; "wild" once the walk has left the     *)
(* list and calls through memory that is not an event.                     *)
IdlePoints == {"poll", "read", "splice"}
WalkPoints == {"call", "free", "clear", "next"}
Points == IdlePoints \cup WalkPoints \cup {"wild"}

ASSUME EventLoopAssumption ==
    /\ NSlots \in Nat \ {0}
    /\ NoRequest \notin Requests
    /\ PostPoints \subseteq IdlePoints \cup WalkPoints

Slots == 0 .. NSlots - 1
QueueHead == NSlots          \* m_list_event
BatchHead == NSlots + 1      \* list_head_event, local to event_handle
Nodes == Slots \cup {QueueHead, BatchHead}

VARIABLES m_bitmap,    \* the slots marked in use
          m_index,     \* each event's own idea of its slot
          m_param,     \* each event's request
          m_next,      \* the links of the intrusive lists
          m_prev,
          s_event,     \* the event device's counter
          pc,          \* where the foreground is
          pos,         \* the node event_handle is at
          loaded       \* m_bitmap as event_free has loaded it

links == <<m_next, m_prev>>
pool  == <<m_bitmap, m_index, m_param>>
vars  == <<m_bitmap, m_index, m_param, m_next, m_prev, s_event, pc, pos, loaded>>

TypeOK ==
    /\ m_bitmap \subseteq Slots
    /\ m_index \in [Slots -> Slots]
    /\ m_param \in [Slots -> Requests \cup {NoRequest}]
    /\ m_next \in [Nodes -> Nodes]
    /\ m_prev \in [Nodes -> Nodes]
    /\ s_event \in Nat
    /\ pc \in Points
    /\ pos \in Nodes
    /\ loaded \subseteq Slots

Init ==
    /\ m_bitmap = {}
    /\ m_index = [i \in Slots |-> 0]
    /\ m_param = [i \in Slots |-> NoRequest]
    /\ m_next = [n \in Nodes |-> n]
    /\ m_prev = [n \in Nodes |-> n]
    /\ s_event = 0
    /\ pc = "poll"
    /\ pos = BatchHead
    /\ loaded = {}

--------------------------------------------------------------------------------
(* The list operations of service.cpp.                                     *)

list_empty(l) == m_next[l] = l

\* (mutant) the old first node is not linked back to the new one
list_insert_after_one_way(l, n) ==
    /\ m_prev' = [m_prev EXCEPT ![n] = l]
    /\ m_next' = [m_next EXCEPT ![n] = m_next[l], ![l] = n]

\* (mutant) list_insert_before in its place: oldest first
list_insert_at_tail(l, n) ==
    /\ m_next' = [m_next EXCEPT ![m_prev[l]] = n, ![n] = l]
    /\ m_prev' = [m_prev EXCEPT ![n] = m_prev[l], ![l] = n]

list_insert_after(l, n) ==
    /\ m_prev' = [m_prev EXCEPT ![m_next[l]] = n, ![n] = l]
    /\ m_next' = [m_next EXCEPT ![n] = m_next[l], ![l] = n]

\* list_init(head), then list_splice_init(l, head).
list_splice_init(l, head) ==
    IF list_empty(l)
    THEN /\ m_next' = [m_next EXCEPT ![head] = head]
         /\ m_prev' = [m_prev EXCEPT ![head] = head]
    ELSE /\ m_prev' = [m_prev EXCEPT ![m_next[l]] = head, ![head] = m_prev[l], ![l] = l]
         /\ m_next' = [m_next EXCEPT ![head] = m_next[l], ![m_prev[l]] = head, ![l] = l]

--------------------------------------------------------------------------------
(* PendSV: the DONE phase of a Modbus write queues "save these registers". *)

\* event_malloc takes the lowest slot whose bit is clear.
LowestFree(i) == /\ i \in Slots \ m_bitmap
                 /\ \A j \in Slots : j < i => j \in m_bitmap

\* (mutant) a constructor that leaves m_index as the stack had it
StackEventIndex_uninitialised == NSlots

\* The event that package_event_handler builds on its stack: index 0.
StackEventIndex == 0

\* (mutant) the device is not written
run_inloop_silent(r) ==
    /\ pc \in PostPoints
    /\ \E i \in Slots :
         /\ LowestFree(i)
         /\ m_bitmap' = m_bitmap \cup {i}
         /\ m_index' = [m_index EXCEPT ![i] = StackEventIndex]
         /\ m_param' = [m_param EXCEPT ![i] = r]
         /\ list_insert_after(QueueHead, i)
    /\ UNCHANGED <<s_event, pc, pos, loaded>>

\* run_inloop: `*pevent_malloc = *event` copies m_index as well, over the
\* value index_set has just stored.
run_inloop(r) ==
    /\ pc \in PostPoints
    /\ \E i \in Slots :
         /\ LowestFree(i)
         /\ m_bitmap' = m_bitmap \cup {i}
         /\ m_index' = [m_index EXCEPT ![i] = StackEventIndex]
         /\ m_param' = [m_param EXCEPT ![i] = r]
         /\ list_insert_after(QueueHead, i)
    /\ s_event' = s_event + 1
    /\ UNCHANGED <<pc, pos, loaded>>

\* The pool is exhausted: -1, which the caller ignores.  The request is gone.
run_inloop_fails(r) ==
    /\ pc \in PostPoints
    /\ Slots \subseteq m_bitmap
    /\ UNCHANGED vars

--------------------------------------------------------------------------------
(* The foreground.                                                         *)

\* poller::poll spins until the device is readable.
Poll ==
    /\ pc = "poll" /\ s_event # 0
    /\ pc' = "read"
    /\ UNCHANGED <<pool, links, s_event, pos, loaded>>

\* channel::handleEvent reads the device, which clears it, before the handler.
ReadDevice ==
    /\ pc = "read"
    /\ s_event' = 0
    /\ pc' = "splice"
    /\ UNCHANGED <<pool, links, pos, loaded>>

\* Where list_for_each goes with node n under its cursor.
Visit(n) ==
    /\ pos' = n
    /\ pc' = CASE n = BatchHead -> "poll"
               [] n = QueueHead -> "wild"
               [] OTHER -> "call"

\* The critical section of event_handle: take the whole queue, clear the device.
Splice ==
    /\ pc = "splice"
    /\ list_splice_init(QueueHead, BatchHead)
    /\ s_event' = 0
    /\ Visit(m_next'[BatchHead])
    /\ UNCHANGED <<pool, loaded>>

\* it->call(): the handler reads its parameters as it starts.
Call ==
    /\ pc = "call"
    /\ pc' = "free"
    /\ UNCHANGED <<pool, links, s_event, pos, loaded>>

\* event_free, m_bitmap &= ~(1 << m_index): a load ...
FreeLoad ==
    /\ pc = "free"
    /\ loaded' = m_bitmap
    /\ pc' = "clear"
    /\ UNCHANGED <<pool, links, s_event, pos>>

\* (mutant) the bit above the event's own
FreeStore_next_bit ==
    /\ pc = "clear"
    /\ m_bitmap' = loaded \ {m_index[pos] + 1}
    /\ loaded' = {}
    /\ pc' = "next"
    /\ UNCHANGED <<m_index, m_param, links, s_event, pos>>

\* ... and a store.
FreeStore ==
    /\ pc = "clear"
    /\ m_bitmap' = loaded \ {m_index[pos]}
    /\ loaded' = {}
    /\ pc' = "next"
    /\ UNCHANGED <<m_index, m_param, links, s_event, pos>>

\* list_for_each follows the link of the event it has just freed.
Advance ==
    /\ pc = "next"
    /\ Visit(m_next[pos])
    /\ UNCHANGED <<pool, links, s_event, loaded>>

Foreground == Poll \/ ReadDevice \/ Splice \/ Call \/ FreeLoad \/ FreeStore \/ Advance

Next == \/ \E r \in Requests : run_inloop(r) \/ run_inloop_fails(r)
        \/ Foreground

Spec == Init /\ [][Next]_vars

\* eventloop::loop never ends and every interrupt handler does.
FairSpec == Spec /\ WF_vars(Foreground)

--------------------------------------------------------------------------------
(* Properties that hold for every master, however it times its writes.     *)

(* No lost wake-up: a queued event always brings the loop to its queue;    *)
(* the device counts it, or the loop is already past the poll and will     *)
(* splice.  (The loop clears the device twice, once outside the critical   *)
(* section.)                                                               *)
NoLostWakeup == ~list_empty(QueueHead) => s_event # 0 \/ pc \in {"read", "splice"}

--------------------------------------------------------------------------------
(* Properties under a master that leaves the device alone while it saves:  *)
(* PostPoints \subseteq IdlePoints.                                        *)

\* The node k links f after n, and the nodes from n up to and without stop.
Steps(f, n) == LET walk[k \in 0 .. NSlots] == IF k = 0 THEN n ELSE f[walk[k - 1]]
               IN  walk
Reaches(f, n, stop) == \E k \in 0 .. NSlots : Steps(f, n)[k] = stop
Chain(f, n, stop) ==
    LET len == CHOOSE k \in 0 .. NSlots : /\ Steps(f, n)[k] = stop
                                          /\ \A j \in 0 .. k - 1 : Steps(f, n)[j] # stop
    IN  [k \in 1 .. len |-> Steps(f, n)[k - 1]]

\* What is queued, and what the walk has still to execute.
Queued == Chain(m_next, m_next[QueueHead], QueueHead)
ToCall == CASE pc = "call" -> Chain(m_next, pos, BatchHead)
            [] pc \in {"free", "clear", "next"} -> Chain(m_next, m_next[pos], BatchHead)
            [] OTHER -> <<>>

(* The lists stay lists: both are closed, no event is on both or twice,    *)
(* and the walk never leaves its list for the head of the other one.       *)
ListsSound ==
    /\ pc # "wild"
    /\ Reaches(m_next, m_next[QueueHead], QueueHead)
    /\ pc \in WalkPoints => Reaches(m_next, pos, BatchHead)
    /\ \A i \in DOMAIN Queued : /\ Queued[i] \in m_bitmap
                                 /\ \A j \in DOMAIN ToCall : Queued[i] # ToCall[j]

(* The pool loses slots (every event frees slot 0) but never the last one: *)
(* whenever nothing is queued or running, slot 0 can be had again.         *)
SlotZeroReturns == pc \in IdlePoints /\ list_empty(QueueHead) => 0 \notin m_bitmap

(* Both, for the run: the hand-over keeps its lists and its last slot.     *)
EventsSound == ListsSound /\ SlotZeroReturns

(* Every accepted request is executed exactly once, newest first, and the  *)
(* loop gets to all of them: the code implements EventQueue.               *)
Promise == INSTANCE EventQueue WITH
              waiting <- [k \in DOMAIN Queued |-> m_param[Queued[k]]],
              batch   <- [k \in DOMAIN ToCall |-> m_param[ToCall[k]]]
ServedOnce == Promise!EQSpec

--------------------------------------------------------------------------------
(* What the source says of run_inloop, refuted when writes come in freely. *)

(* event_loop.cpp:114, interrupts are disabled "so that run in loop can be *)
(* used in interrupts": the walk does not leave its list whatever PendSV   *)
(* posts meanwhile.                                                        *)
NeverWild == pc # "wild"

(* main.cpp:77, a write has its registers saved: with one event waiting, a *)
(* second finds a slot of the pool.  It does until every slot but 0 has    *)
(* been given back as slot 0, each after a time when it was needed.        *)
RoomForPost ==
    pc \in IdlePoints /\ Len(Queued) + Len(ToCall) <= 1 => m_bitmap # Slots
================================================================================
