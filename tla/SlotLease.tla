----------------------------- MODULE SlotLease -----------------------------
(***************************************************************************)
(* What the gateway promises about its account pool, without saying how:   *)
(* a request holds at most one account, an account is held by at most      *)
(* Limit requests, and a restart of the process drops every lease.         *)
(* (backend/internal/engine/gateway/picker.go: "单账号并发 ≤               *)
(* MaxAccountConcurrency"; README 网关: "单账号并发 ≤ 2".)                 *)
(***************************************************************************)
EXTENDS Naturals, FiniteSets

CONSTANTS Clients, Pool, Limit, Nobody

VARIABLE lease

Holders(a) == {c \in Clients : lease[c] = a}

Init == lease = [c \in Clients |-> Nobody]

Acquire(c, a) ==
  /\ lease[c] = Nobody
  /\ Cardinality(Holders(a)) < Limit
  /\ lease' = [lease EXCEPT ![c] = a]

Return(c) ==
  /\ lease[c] # Nobody
  /\ lease' = [lease EXCEPT ![c] = Nobody]

DropAll == lease' = [c \in Clients |-> Nobody]

Next ==
  \/ \E c \in Clients, a \in Pool : Acquire(c, a)
  \/ \E c \in Clients : Return(c)
  \/ DropAll

Spec == Init /\ [][Next]_lease
=============================================================================
