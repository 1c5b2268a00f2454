------------------------------ MODULE RegisterBank ------------------------------
(***************************************************************************)
(* What a Modbus master may expect of the holding registers: an array of   *)
(* registers that do not disturb each other.  A read returns what is in    *)
(* them, an acknowledged single write is in its register and in no other,  *)
(* and a refused one has changed nothing.  A multiple write, acknowledged  *)
(* or refused half-way, is kept to the registers it names.                 *)
(***************************************************************************)
EXTENDS Naturals, Sequences

CONSTANTS Regs, Values

VARIABLES bank, reply

\* Registers first, first + 1, ... as many as n.
Run(first, n) == {r \in Regs : first <= r /\ r < first + n}

Init == bank \in [Regs -> Values] /\ reply = [fn |-> "none"]

Read ==
    /\ reply'.fn = "read_hold"
    /\ \A i \in DOMAIN reply'.data :
         /\ reply'.reg + i - 1 \in Regs
         /\ reply'.data[i] = bank[reply'.reg + i - 1]
    /\ UNCHANGED bank

WriteOne ==
    /\ reply'.fn = "write_one"
    /\ reply'.reg \in Regs
    /\ bank' = [bank EXCEPT ![reply'.reg] = reply'.data[1]]

WriteMany ==
    /\ reply'.fn = "write_many"
    /\ bank' \in [Regs -> Values]
    /\ \A r \in Regs \ Run(reply'.reg, reply'.no) : bank'[r] = bank[r]

Refuse ==
    /\ reply'.fn = "exception"
    /\ \/ UNCHANGED bank
       \/ /\ {"reg", "no"} \subseteq DOMAIN reply'
          /\ bank' \in [Regs -> Values]
          /\ \A r \in Regs \ Run(reply'.reg, reply'.no) : bank'[r] = bank[r]

\* Anything else the device does.
Other == reply'.fn \in {"none", "read_input", "other"} /\ UNCHANGED bank

Next == Read \/ WriteOne \/ WriteMany \/ Refuse \/ Other

Spec == Init /\ [][Next]_<<bank, reply>>
================================================================================
