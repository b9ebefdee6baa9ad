----------------------------- MODULE MCGateway -----------------------------
(***************************************************************************)
(* Instances of Gateway.tla for TLC.  The constants that are sets of       *)
(* records are defined here and given to Requests by the configurations.   *)
(***************************************************************************)
EXTENDS Gateway, TLC

CONSTANTS r1, r2, m1, m2, h1, h2

One      == [calls |-> 1, seconds |-> None]
Two      == [calls |-> 2, seconds |-> 1]
NoBudget == [calls |-> None, seconds |-> None]

Call(mode, run, msg, hash, budget, kind) ==
  [mode |-> mode, run |-> run, msg |-> msg, hash |-> hash, budget |-> budget, kind |-> kind]

\* Every mode and every kind of envelope the constructor admits on one run and one message, and the
\* message with a changed body.
EveryCall ==
  {q \in {Call(mode, r1, m1, h1, One, kind) : mode \in Modes, kind \in Kinds} :
     q.kind = "unregistered" => q.mode # "enforce"}
  \cup {Call(mode, r1, m1, h2, One, "plain") : mode \in Modes}
  \cup {Call(mode, r1, m2, h1, One, "plain") : mode \in Modes}

\* Governed calls that reach the reservation, and enforced ones of the same
\* message with a changed body and of another message.
ReservingCalls ==
  {Call(mode, r1, m1, h1, NoBudget, kind) : mode \in {"shadow", "enforce"},
                                            kind \in {"plain", "dated", "untimed", "misrouted"}}
  \cup {Call("enforce", r1, m1, h2, One, "plain"),
        Call("enforce", r1, m2, h1, NoBudget, "plain")}

FaultyCalls ==
  {Call("enforce", r1, m1, h1, One, kind) :
     kind \in {"plain", "spoofed", "malformed", "unauthorized", "misrouted"}}
  \cup {Call("shadow", r1, m1, h1, One, kind) : kind \in {"plain", "unregistered"}}
  \cup {Call("enforce", r1, m1, h2, One, "dated"), Call("enforce", r1, m2, h1, One, "untimed"),
        Call("off", r1, m1, h2, One, "dated")}

\* Dispatches are interchangeable for the invariants; not used with liveness.
NodeSymmetry == Permutations(Nodes)

\* Governed calls of two runs and two messages that may wait for each other.
GovernedCalls ==
  {Call("enforce", r1, m1, h1, One, kind) : kind \in {"plain", "dated"}}
  \cup {Call("enforce", r1, m2, h1, One, kind) : kind \in {"plain", "untimed"}}
  \cup {Call("enforce", r2, m2, h1, NoBudget, "plain")}
  \cup {Call("shadow", r1, m1, h1, One, "dated"), Call("shadow", r2, m2, h1, NoBudget, "plain")}

\* Two envelopes of one run that declare different budgets.
RaisingCalls ==
  {Call("enforce", r1, m1, h1, One, "plain"), Call("enforce", r1, m2, h1, Two, "plain")}

PlainCalls(mode) ==
  {Call(mode, r1, m1, h1, One, "plain"), Call(mode, r2, m2, h1, One, "plain")}

PlainEnforced == PlainCalls("enforce")
PlainShadow   == PlainCalls("shadow")

=============================================================================
