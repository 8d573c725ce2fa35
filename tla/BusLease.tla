------------------------------ MODULE BusLease ------------------------------
(***************************************************************************)
(* What EthercatDriver promises about the bus, whatever its threads do: one  *)
(* thread at a time is inside the master, and inside it stays or leaves; the *)
(* master is leased (configured) by the lifecycle thread only and given back *)
(* by that or by the health thread; and process data may be exchanged only   *)
(* while the lease lasts, so whoever gives it back has stopped the exchange. *)
(* The control loop changes neither.                                        *)
(***************************************************************************)

VARIABLES
  user,   \* the thread that is inside the master, "free" if there is none
  leased, \* the master has an active configuration
  serving \* whoever comes next may exchange process data

vars == <<user, leased, serving>>

TypeOK ==
  /\ user \in {"free", "rm", "rt", "mon"}
  /\ leased \in BOOLEAN /\ serving \in BOOLEAN

Init == user = "free" /\ ~leased /\ ~serving

Enter(t) ==
  /\ user = "free" /\ user' = t
  /\ UNCHANGED <<leased, serving>>

\* A step of the thread that is inside, which may be its last one there.
Inside(t) == user = t /\ user' \in {t, "free"}

\* The lease begins, or an error leaves it as it is.
Lease == Inside("rm") /\ leased' \in {leased, TRUE} /\ UNCHANGED serving

\* The exchange begins, under the lease.
Serve ==
  /\ Inside("rm")
  /\ leased' /\ leased' \in {leased, TRUE}
  /\ serving' = TRUE

Stop == Inside("rm") /\ serving' \in {serving, FALSE} /\ UNCHANGED leased

GiveBack(t) ==
  /\ Inside(t)
  /\ leased' = FALSE /\ serving' = FALSE

Use(t) == Inside(t) /\ UNCHANGED <<leased, serving>>

Next ==
  \/ \E t \in {"rm", "rt", "mon"} : Enter(t) \/ Use(t)
  \/ Lease \/ Serve \/ Stop
  \/ \E t \in {"rm", "mon"} : GiveBack(t)

Spec == Init /\ [][Next]_vars

\* The exchange needs the lease.
ServedUnderLease == serving => leased
=============================================================================
