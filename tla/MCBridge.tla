------------------------------ MODULE MCBridge ------------------------------
EXTENDS Bridge

CONSTANT r1

Body(reset, fresh, thread) ==
  [path |-> "prompt", reset |-> reset, fresh |-> fresh, thread |-> thread]

ResetCall == [path |-> "reset", reset |-> FALSE, fresh |-> FALSE, thread |-> None]

\* Each way through the handlers: shared, shared after a reset, isolated fresh,
\* isolated on the thread of the first request, contradictory, and the reset call.
EveryBody ==
  { Body(FALSE, FALSE, None), Body(TRUE, FALSE, None), Body(FALSE, TRUE, None),
    Body(TRUE, TRUE, None), Body(FALSE, FALSE, r1), ResetCall }
=============================================================================
