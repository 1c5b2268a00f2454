------------------------------ MODULE EventBuffer ------------------------------
(***************************************************************************)
(* What an event carries (class buffer and class event, includes/service.h): *)
(* bytes between two indices into m_param.  The poster builds an event on   *)
(* its stack and appends; run_inloop assigns it to a slot of the pool,      *)
(* whatever the slot held; the handler reads it there.  Both are class      *)
(* buffer, so each operation is an action on either.                        *)
(***************************************************************************)
EXTENDS Naturals, Sequences, SequencesExt, FiniteSetsExt

CONSTANTS def_EVENT_DATA_SIZE,
          cheapPrepend,          \* the default of the constructor
          Widths,                \* of the numbers: sizeof
          Bytes                  \* bound: the values of a byte

EventBufferAssumption ==
    /\ def_EVENT_DATA_SIZE \in Nat /\ cheapPrepend \in 0 .. def_EVENT_DATA_SIZE
    /\ Widths \subseteq Nat \ {0}

Events == {"stack", "slot"}

VARIABLES m_param,                    \* the bytes of each event
          readerIndex_, writerIndex_,
          data                        \* what was appended and not read yet

vars == <<m_param, readerIndex_, writerIndex_, data>>

TypeOK ==
    /\ m_param \in [Events -> [0 .. def_EVENT_DATA_SIZE - 1 -> Bytes]]
    /\ readerIndex_ \in [Events -> 0 .. def_EVENT_DATA_SIZE]
    /\ writerIndex_ \in [Events -> 0 .. def_EVENT_DATA_SIZE]

readableBytes(e) == writerIndex_[e] - readerIndex_[e]

\* (mutant) a byte more is thought to fit
writableBytes_more(e) == def_EVENT_DATA_SIZE + 1 - writerIndex_[e]

writableBytes(e)    == def_EVENT_DATA_SIZE - writerIndex_[e]
prependableBytes(e) == readerIndex_[e]

\* peek, and peekInt8, peekInt16, peekInt32 and peekFloat, which copy len bytes from there
peek(e, len) == [i \in 1 .. len |-> m_param[e][readerIndex_[e] + i - 1]]

\* memcpy to m_param
Copied(e, at, bytes) ==
    [m_param EXCEPT ![e] = [i \in DOMAIN @ |->
        IF i \in at .. at + Len(bytes) - 1 THEN bytes[i - at + 1] ELSE @[i]]]

\* The constructor; what is on the stack stays in m_param.
event ==
    /\ readerIndex_' = [readerIndex_ EXCEPT !["stack"] = cheapPrepend]
    /\ writerIndex_' = [writerIndex_ EXCEPT !["stack"] = cheapPrepend]
    /\ data' = [data EXCEPT !["stack"] = <<>>]
    /\ UNCHANGED m_param

\* appendInt8, appendInt16 and appendInt32, which do not look at what append returns
append(e, bytes) ==
    IF writableBytes(e) < Len(bytes)
    THEN UNCHANGED vars
    ELSE /\ m_param' = Copied(e, writerIndex_[e], bytes)
         /\ writerIndex_' = [writerIndex_ EXCEPT ![e] = @ + Len(bytes)]
         /\ data' = [data EXCEPT ![e] = @ \o bytes]
         /\ UNCHANGED readerIndex_

\* No caller may prepend more than prependableBytes: prepend does not look.
prepend(e, bytes) ==
    /\ Len(bytes) <= prependableBytes(e)
    /\ m_param' = Copied(e, readerIndex_[e] - Len(bytes), bytes)
    /\ readerIndex_' = [readerIndex_ EXCEPT ![e] = @ - Len(bytes)]
    /\ data' = [data EXCEPT ![e] = bytes \o @]
    /\ UNCHANGED writerIndex_

\* What takes all of it makes room again: retrieveAll.
retrieve(e, len) ==
    LET some == len < readableBytes(e)
    IN  /\ readerIndex_' = [readerIndex_ EXCEPT ![e] = IF some THEN @ + len ELSE cheapPrepend]
        /\ writerIndex_' = [writerIndex_ EXCEPT ![e] = IF some THEN @ ELSE cheapPrepend]

\* readInt8, readInt16, readInt32 and readFloat: readableBytes() >= len is required
read(e, len) ==
    /\ len <= readableBytes(e)
    /\ retrieve(e, len)
    /\ data' = [data EXCEPT ![e] = SubSeq(@, len + 1, Len(@))]
    /\ UNCHANGED m_param

\* retrieveAsCharArray, which looks; -1 is returned for more than there is.
retrieveAsCharArray(e, len) ==
    IF len > readableBytes(e) THEN UNCHANGED vars ELSE read(e, len)

\* event::buffer_init, and retrieveAllAsCharArray
retrieveAll(e) ==
    /\ retrieve(e, readableBytes(e))
    /\ data' = [data EXCEPT ![e] = <<>>]
    /\ UNCHANGED m_param

\* (mutant) the slot goes on from where its last reader was
assign_writer ==
    /\ m_param' = [m_param EXCEPT !["slot"] = m_param["stack"]]
    /\ writerIndex_' = [writerIndex_ EXCEPT !["slot"] = writerIndex_["stack"]]
    /\ data' = [data EXCEPT !["slot"] = data["stack"]]
    /\ UNCHANGED readerIndex_

\* buffer::operator=: the indices; len_ and cheapPrepend_ are the same
buffer ==
    /\ readerIndex_' = [readerIndex_ EXCEPT !["slot"] = readerIndex_["stack"]]
    /\ writerIndex_' = [writerIndex_ EXCEPT !["slot"] = writerIndex_["stack"]]

\* event::operator=: the bytes, and the buffer
assign ==
    /\ m_param' = [m_param EXCEPT !["slot"] = m_param["stack"]]
    /\ buffer
    /\ data' = [data EXCEPT !["slot"] = data["stack"]]

Numbers == UNION {[1 .. w -> Bytes] : w \in Widths}

Init ==
    \E b \in Bytes :
        /\ m_param = [e \in Events |-> [i \in 0 .. def_EVENT_DATA_SIZE - 1 |-> b]]
        /\ readerIndex_ = [e \in Events |-> cheapPrepend]
        /\ writerIndex_ = [e \in Events |-> cheapPrepend]
        /\ data = [e \in Events |-> <<>>]

Next ==
    \/ event \/ assign
    \/ \E e \in Events :
          \/ \E bytes \in Numbers : append(e, bytes) \/ prepend(e, bytes)
          \/ \E len \in Widths : read(e, len) \/ retrieveAsCharArray(e, len)
          \/ retrieveAll(e)

Spec == Init /\ [][Next]_vars

--------------------------------------------------------------------------------
(* Properties.                                                             *)

(* The handler of an event reads what its poster appended, in that order,  *)
(* whatever the slot was used for before, and however far it was read: the *)
(* bytes between the indices are the data.                                 *)
DataKept ==
    \A e \in Events : /\ readerIndex_[e] <= writerIndex_[e]
                      /\ peek(e, readableBytes(e)) = data[e]
================================================================================
