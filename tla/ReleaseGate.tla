---------------------------- MODULE ReleaseGate ----------------------------
(***************************************************************************)
(* What the agent promises about releasing values, without the threads,    *)
(* the approval sheet, the lease store and the order of its cleanup: a     *)
(* person grants a number of uses; each release spends one of them, once;  *)
(* and once the gate is shut nothing is released again.                    *)
(***************************************************************************)
EXTENDS Naturals

CONSTANT Calls   \* calls, each of which may be granted uses and may release

VARIABLES
  gate,          \* "open", or "shut" for good
  granted,       \* granted[c]: the uses a person granted in answer to call c
  released       \* what was released: the call, whose grant, and which use

gateVars == <<gate, granted, released>>

GateInit ==
  /\ gate = "open"
  /\ granted = [c \in Calls |-> 0]
  /\ released = {}

GrantUses(c) ==
  /\ granted[c] = 0
  /\ granted'[c] \in Nat \ {0}
  /\ granted' = [granted EXCEPT ![c] = granted'[c]]
  /\ UNCHANGED <<gate, released>>

Release(c) ==
  /\ gate = "open"
  /\ \A r \in released : r.call # c
  /\ \E g \in Calls : \E u \in 1..granted[g] :
       /\ \A r \in released : ~(r.lease = g /\ r.use = u)
       /\ released' = released \cup {[call |-> c, lease |-> g, use |-> u]}
  /\ gate' \in {"open", "shut"}   \* the release that the lock waited for
  /\ UNCHANGED granted

Shut ==
  /\ gate' = "shut"
  /\ UNCHANGED <<granted, released>>

GateNext == Shut \/ \E c \in Calls : GrantUses(c) \/ Release(c)

GateSpec == GateInit /\ [][GateNext]_gateVars
=============================================================================
