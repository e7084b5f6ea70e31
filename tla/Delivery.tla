------------------------------ MODULE Delivery ------------------------------
(***************************************************************************)
(* What the spool promises, without directories, queues or processes: a    *)
(* chunk that got to the disk stays there until every configured           *)
(* destination has it (at-least-once delivery: a chunk may be delivered to *)
(* a destination again, and to one that is no longer configured it need    *)
(* not be delivered at all).  Where the receipt of a destination may turn  *)
(* out unreadable, the chunk may be given up without it.                   *)
(***************************************************************************)
CONSTANTS Files, Tables,
          MayDoubt    \* whether a receipt may turn out unreadable

VARIABLES stored,     \* chunks on disk
          delivered,  \* [Tables -> chunks the destination has]
          dests,      \* configured destinations
          doubted     \* <<destination, chunk>> pairs whose receipt is unreadable

vars == <<stored, delivered, dests, doubted>>

Init ==
  /\ stored = {}
  /\ delivered = [t \in Tables |-> {}]
  /\ dests = {} /\ doubted = {}

\* a new process with another configuration
Configure ==
  /\ dests' \in SUBSET Tables
  /\ UNCHANGED <<stored, delivered, doubted>>

\* a chunk that was delivered does not come back
Create(f) ==
  /\ f \notin stored /\ \A t \in Tables : f \notin delivered[t]
  /\ stored' = stored \cup {f}
  /\ UNCHANGED <<delivered, dests, doubted>>

\* a chunk that was given up in doubt may still reach a destination that had
\* begun to read it
Deliver(t, f) ==
  /\ t \in dests /\ (f \in stored \/ MayDoubt)
  /\ delivered' = [delivered EXCEPT ![t] = @ \cup {f}]
  /\ UNCHANGED <<stored, dests, doubted>>

\* the receipt of t for f cannot be read; such doubts do not last
Doubt(t, f) ==
  /\ MayDoubt /\ t \in dests
  /\ doubted' = doubted \cup {<<t, f>>}
  /\ UNCHANGED <<stored, delivered, dests>>

Forget ==
  /\ doubted' = {}
  /\ UNCHANGED <<stored, delivered, dests>>

Remove(f) ==
  /\ dests # {} /\ \A t \in dests : f \in delivered[t] \/ <<t, f>> \in doubted
  /\ stored' = stored \ {f} /\ doubted' = {}
  /\ UNCHANGED <<delivered, dests>>

Next ==
  \/ Configure \/ Forget
  \/ \E f \in Files : Create(f) \/ Remove(f)
  \/ \E t \in Tables, f \in Files : Deliver(t, f) \/ Doubt(t, f)

Spec == Init /\ [][Next]_vars
=============================================================================
