------------------------------- MODULE LinkedList -------------------------------
(***************************************************************************)
(* The intrusive lists of includes/service.cpp, pointer by pointer: those  *)
(* of timers (service.cpp), events (event_loop.cpp) and devices (hal.cpp)  *)
(* are made of them.  SvTimer and StartUp have lists as sequences; this is *)
(* why they may.                                                           *)
(*                                                                         *)
(* The callers keep to what the code asks of them without saying so: a     *)
(* node that is inserted is in no list, and one that another is inserted   *)
(* at, or that is spliced, is a head or in a list.  A node may be deleted  *)
(* twice: it is then linked to itself.                                     *)
(***************************************************************************)
EXTENDS Naturals, Sequences, FiniteSets, SequencesExt

CONSTANTS Heads, Items

LinkedListAssumption == IsFiniteSet(Heads) /\ IsFiniteSet(Items) /\ Heads \cap Items = {}

VARIABLES m_next, m_prev,
          content           \* history: the items of each list, in order

vars == <<m_next, m_prev, content>>

Nodes == Heads \cup Items
Out   == {n \in Items : \A h \in Heads : ~Contains(content[h], n)}
List(n) == CHOOSE h \in Heads : h = n \/ Contains(content[h], n)

\* Where n is in its list, a head being at 0.
Place(n) == IF n \in Heads THEN 0 ELSE CHOOSE k \in DOMAIN content[List(n)] : content[List(n)][k] = n

TypeOK ==
    /\ m_next \in [Nodes -> Nodes] /\ m_prev \in [Nodes -> Nodes]
    /\ \A h \in Heads : content[h] \in Seq(Items)

\* list_init, of heads and nodes
Init ==
    /\ m_next = [n \in Nodes |-> n] /\ m_prev = [n \in Nodes |-> n]
    /\ content = [h \in Heads |-> <<>>]

list_insert_after(l, n) ==
    /\ m_next' = [m_next EXCEPT ![n] = m_next[l], ![l] = n]
    /\ m_prev' = [m_prev EXCEPT ![m_next[l]] = n, ![n] = l]

\* (mutant) the node before is not linked on to the new one
list_insert_before_alone(l, n) ==
    /\ m_next' = [m_next EXCEPT ![n] = l]
    /\ m_prev' = [m_prev EXCEPT ![n] = m_prev[l], ![l] = n]

list_insert_before(l, n) ==
    /\ m_next' = [m_next EXCEPT ![m_prev[l]] = n, ![n] = l]
    /\ m_prev' = [m_prev EXCEPT ![n] = m_prev[l], ![l] = n]

list_del(n) ==
    /\ m_prev' = [[m_prev EXCEPT ![m_next[n]] = m_prev[n]] EXCEPT ![n] = n]
    /\ m_next' = [[m_next EXCEPT ![m_prev[n]] = m_next[n]] EXCEPT ![n] = n]

list_empty(l) == m_next[l] = l

\* __list_splice behind head, and list itself anew
list_splice_init(list, head) ==
    IF list_empty(list) THEN UNCHANGED <<m_next, m_prev>>
    ELSE /\ m_next' = [m_next EXCEPT ![head] = m_next[list], ![m_prev[list]] = m_next[head],
                                     ![list] = list]
         /\ m_prev' = [m_prev EXCEPT ![m_next[list]] = head, ![m_next[head]] = m_prev[list],
                                     ![list] = list]

\* What list_for_each comes across, from head on.
Walk(link, head) ==
    LET at[k \in 0 .. Cardinality(Nodes)] == IF k = 0 THEN link[head] ELSE link[at[k - 1]]
        ends == {k \in DOMAIN at : at[k] = head}
        end  == CHOOSE k \in ends : \A j \in ends : k <= j
    IN  [k \in 1 .. end |-> at[k - 1]]

list_find(head, node) == Contains(Walk(m_next, head), node)

InsertAfter ==
    \E l \in Nodes \ Out, n \in Out :
      /\ list_insert_after(l, n)
      /\ content' = [content EXCEPT ![List(l)] = InsertAt(@, Place(l) + 1, n)]

InsertBefore ==
    \E l \in Nodes \ Out, n \in Out :
      /\ list_insert_before(l, n)
      /\ content' = [content EXCEPT ![List(l)] =
                        InsertAt(@, IF l \in Heads THEN Len(@) + 1 ELSE Place(l), n)]

Delete ==
    \E n \in Items :
      /\ list_del(n)
      /\ content' = IF n \in Out THEN content
                     ELSE [content EXCEPT ![List(n)] = RemoveAt(@, Place(n))]

Splice ==
    \E list, head \in Heads :
      /\ list # head
      /\ list_splice_init(list, head)
      /\ content' = [content EXCEPT ![head] = content[list] \o @, ![list] = <<>>]

Next == InsertAfter \/ InsertBefore \/ Delete \/ Splice

Spec == Init /\ [][Next]_vars

--------------------------------------------------------------------------------
(* Properties.                                                             *)

(* Walked forwards or backwards, a list has its items in their order, and  *)
(* a node that is in no list is linked to nothing but itself: deleting it  *)
(* once more does no harm.                                                 *)
ListsHold ==
    /\ \A h \in Heads :
         /\ Walk(m_next, h) = content[h] /\ Walk(m_prev, h) = Reverse(content[h])
         /\ list_empty(h) = (content[h] = <<>>)
         /\ \A n \in Items : list_find(h, n) = Contains(content[h], n)
    /\ \A n \in Out : m_next[n] = n /\ m_prev[n] = n
================================================================================
