----------------------------- MODULE AuditTrail -----------------------------
(***************************************************************************)
(* What the Admin audit trail promises, whoever writes to it: a log that   *)
(* only grows and holds an operation once; a public copy that follows it   *)
(* in order and is at most one record behind; and operations that are      *)
(* reported complete only once the copy shows them.                        *)
(***************************************************************************)
EXTENDS Naturals, Sequences

CONSTANT Op

VARIABLES
    log,        \* the operations, in the order they were recorded
    shown,      \* the positions of the log that the public copy has
    complete    \* the operations reported complete

vars == <<log, shown, complete>>

Init == log = <<>> /\ shown = {} /\ complete = {}

Record(o) ==
    /\ \A i \in DOMAIN log : log[i] # o
    /\ shown = DOMAIN log
    /\ log' = Append(log, o)
    /\ UNCHANGED <<shown, complete>>

Show ==
    /\ shown' = DOMAIN log
    /\ UNCHANGED <<log, complete>>

Complete(o) ==
    /\ \E i \in shown : log[i] = o
    /\ complete' = complete \cup {o}
    /\ UNCHANGED <<log, shown>>

Next == Show \/ \E o \in Op : Record(o) \/ Complete(o)

Spec == Init /\ [][Next]_vars
==============================================================================
