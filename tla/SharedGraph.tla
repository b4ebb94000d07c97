----------------------------- MODULE SharedGraph -----------------------------
(***************************************************************************)
(* What q6apm promises its clients about the graph of one id: it comes up  *)
(* with its first user, is shared while it is up, goes down with its last  *)
(* user, and is not touched while it goes.  The one way the promise breaks *)
(* is a client that takes the graph while it is going or gone: from there  *)
(* on nothing is promised.                                                 *)
(***************************************************************************)
CONSTANT Client

VARIABLES phase, users
vars == <<phase, users>>

Init == phase = "absent" /\ users = {}

FirstUser(c) == phase = "absent" /\ phase' = "opening" /\ users' = {c}
Opened == phase = "opening" /\ phase' = "present" /\ UNCHANGED users
OpenFails == phase = "opening" /\ phase' = "closing" /\ users' = {}
Join(c) ==
  /\ phase = "present" /\ c \notin users
  /\ users' = users \cup {c} /\ UNCHANGED phase
Drop(c) ==
  /\ phase = "present" /\ c \in users
  /\ users' = users \ {c}
  /\ phase' = IF users = {c} THEN "closing" ELSE "present"
Gone == phase = "closing" /\ phase' = "absent" /\ UNCHANGED users
TakeDying == phase \in {"closing", "absent"} /\ phase' = "broken" /\ users' = {}

Next ==
  \/ \E c \in Client : FirstUser(c) \/ Join(c) \/ Drop(c)
  \/ Opened \/ OpenFails \/ Gone \/ TakeDying
Spec == Init /\ [][Next]_vars
=============================================================================
