------------------------------ MODULE SealedLog ------------------------------
(***************************************************************************)
(* What the tamper-evident audit log promises ("an append-only hash chain",*)
(* docs/tamper-evident-audit.md), with no reservation, predecessor or race *)
(* in sight: a log to which one event at a time is added, and of which a   *)
(* longer and longer prefix is under a signed checkpoint.                  *)
(***************************************************************************)
EXTENDS Integers, Sequences

CONSTANT Events

VARIABLES log,    \* the events, in order
          sealed  \* how many of them a checkpoint covers

sealedVars == <<log, sealed>>

Init == log = <<>> /\ sealed = 0

Add(e) == /\ log' = Append(log, e)
          /\ UNCHANGED sealed

Seal(n) == /\ sealed < n /\ n <= Len(log)
           /\ sealed' = n
           /\ UNCHANGED log

Next == \/ \E e \in Events : Add(e)
        \/ \E n \in 1..Len(log) : Seal(n)

Spec == Init /\ [][Next]_sealedVars
=============================================================================
