------------------------------- MODULE OneShot -------------------------------
(***************************************************************************)
(* What the Idempotency-Key header promises a client, without the table,   *)
(* the sessions or the exceptions: of all the attempts made with one key,  *)
(* one at a time holds the operation; once it has settled, it has settled  *)
(* for good and later attempts are given its result; a refusal is given    *)
(* only while the operation is held or settled.                            *)
(***************************************************************************)
CONSTANTS
  Attempts,   \* the requests made with the same key
  Nobody      \* no attempt

VARIABLES
  phase,      \* what became of the operation
  holder,     \* the attempt that runs it, or that settled it
  got         \* what each attempt has been told

vars == <<phase, holder, got>>

Init ==
  /\ phase = "open"
  /\ holder = Nobody
  /\ got = [a \in Attempts |-> "nothing"]

Take(a) ==
  /\ phase = "open"
  /\ phase' = "taken"
  /\ holder' = a
  /\ UNCHANGED got

Settle ==
  /\ phase = "taken"
  /\ phase' = "settled"
  /\ UNCHANGED <<holder, got>>

(* The holder fails and gives the operation back.                          *)
Release(a) ==
  /\ phase = "taken" /\ holder = a
  /\ got[a] = "nothing"
  /\ phase' = "open"
  /\ holder' = Nobody
  /\ got' = [got EXCEPT ![a] = "error"]

Tell(a, what) ==
  /\ got[a] = "nothing"
  /\ got' = [got EXCEPT ![a] = what]
  /\ UNCHANGED <<phase, holder>>

Result(a) == phase = "settled" /\ Tell(a, "result")
Refuse(a) == phase # "open" /\ Tell(a, "busy")
Fail(a)   == Tell(a, "error") \/ Tell(a, "lost")

Next ==
  \/ \E a \in Attempts : Take(a) \/ Result(a) \/ Refuse(a) \/ Fail(a) \/ Release(a)
  \/ Settle

Spec == Init /\ [][Next]_vars
=============================================================================
