------------------------------ MODULE EventQueue ------------------------------
(***************************************************************************)
(* What run_inloop promises its callers: a request handed over by an       *)
(* interrupt is either refused or executed exactly once by the foreground  *)
(* loop.  The loop takes everything that is waiting in one go and works    *)
(* through it, the newest request first (list_insert_after pushes at the   *)
(* head of m_list_event and list_splice_init keeps the order).             *)
(***************************************************************************)
EXTENDS Sequences

CONSTANT Requests      \* what an event asks for: the registers to save

VARIABLES waiting,     \* accepted, not yet taken by the loop; newest first
          batch        \* taken by the loop, not yet executed

eqvars == <<waiting, batch>>

EQInit == waiting = <<>> /\ batch = <<>>

Accept(r) == waiting' = <<r>> \o waiting /\ UNCHANGED batch

\* The loop never takes a second batch before the first one is finished.
Take == /\ waiting # <<>> /\ batch = <<>>
        /\ batch' = waiting
        /\ waiting' = <<>>

Serve == batch # <<>> /\ batch' = Tail(batch) /\ UNCHANGED waiting

EQNext == (\E r \in Requests : Accept(r)) \/ Take \/ Serve

\* Nobody waits for ever: the loop goes on taking and serving.
EQSpec == EQInit /\ [][EQNext]_eqvars /\ WF_eqvars(Take) /\ WF_eqvars(Serve)
===============================================================================
