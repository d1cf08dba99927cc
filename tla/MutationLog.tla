----------------------------- MODULE MutationLog -----------------------------
(***************************************************************************)
(* What externally fenced mutations promise: all databases of the scope    *)
(* share one log.  A mutation is first durable in its database and then    *)
(* published in the log, which permits its side effects, and at no time is *)
(* more than one mutation, of all databases, durable and unpublished.      *)
(***************************************************************************)
EXTENDS Sequences, Functions

CONSTANT Mutations

VARIABLES log, pending

Init == log = <<>> /\ pending = {}

\* m becomes durable in its database.
Commit(m) ==
  /\ pending = {} /\ m \notin Range(log)
  /\ pending' = {m}
  /\ UNCHANGED log

\* The durable mutation m enters the log.
Publish(m) ==
  /\ m \in pending
  /\ log' = Append(log, m)
  /\ pending' = {}

Next == \E m \in Mutations : Commit(m) \/ Publish(m)

Spec == Init /\ [][Next]_<<log, pending>>
=============================================================================
