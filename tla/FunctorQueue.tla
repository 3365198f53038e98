---------------------------- MODULE FunctorQueue ----------------------------
(***************************************************************************)
(* What EventLoop promises to the callers of queueInLoop: a functor handed *)
(* over by any thread is run by the loop thread, one at a time, in the     *)
(* order of the hand-over, and exactly once.  How the two vectors, the     *)
(* mutex and the eventfd bring this about is EventLoop's business.         *)
(***************************************************************************)
EXTENDS Sequences, Functions

CONSTANTS Functors, NoFunctor

VARIABLES
    todo,       \* functors handed over and not yet begun, oldest first
    executing   \* the functor the loop thread is in, or NoFunctor

vars == <<todo, executing>>

Init ==
    /\ todo = <<>>
    /\ executing = NoFunctor

Submit(f) ==
    /\ f \notin Range(todo)
    /\ todo' = Append(todo, f)
    /\ UNCHANGED executing

Begin ==
    /\ executing = NoFunctor
    /\ todo # <<>>
    /\ executing' = Head(todo)
    /\ todo' = Tail(todo)

End ==
    /\ executing # NoFunctor
    /\ executing' = NoFunctor
    /\ UNCHANGED todo

Next ==
    \/ \E f \in Functors : Submit(f)
    \/ Begin
    \/ End

Spec == Init /\ [][Next]_vars

=============================================================================
