------------------------- MODULE NestedTransactions -------------------------
(***************************************************************************)
(* What nested transaction scopes promise about the database: only the     *)
(* end of the outermost scope makes writes durable, all at once; a failure *)
(* inside the outermost scope dooms it, even if its exception is caught;    *)
(* and a scope that fails takes back what it wrote, or leaves it to the end *)
(* of the transaction it has doomed.                                       *)
(***************************************************************************)
EXTENDS Naturals, Sequences

CONSTANT Tables

VARIABLES
  view,      \* what the connection sees
  durable,   \* what other connections see
  stack,     \* the view at the start of each open scope
  poisoned   \* an inner scope of the running transaction has failed

vars == <<view, durable, stack, poisoned>>

Shorter == SubSeq(stack, 1, Len(stack) - 1)
Single  == Len(stack) = 1

Init == view \in Tables /\ durable = view /\ stack = <<>> /\ poisoned = FALSE

Begin ==
  /\ stack' = Append(stack, view)
  /\ poisoned' = (poisoned /\ stack # <<>>)
  /\ UNCHANGED <<view, durable>>

(* One statement; outside every scope it commits by itself.                *)
Write ==
  /\ view' \in Tables
  /\ durable' = IF stack = <<>> THEN view' ELSE durable
  /\ UNCHANGED <<stack, poisoned>>

EndSuccess ==
  /\ stack # <<>> /\ ~poisoned
  /\ stack' = Shorter
  /\ durable' = IF Single THEN view ELSE durable
  /\ UNCHANGED <<view, poisoned>>

EndFailure ==
  /\ stack # <<>>
  /\ stack' = Shorter
  /\ view' = stack[Len(stack)] \/ (~Single /\ view' = view)
  /\ poisoned' = ~Single
  /\ UNCHANGED durable

Next == Begin \/ Write \/ EndSuccess \/ EndFailure

Spec == Init /\ [][Next]_vars
=============================================================================
