---------------------------- MODULE CallContract ----------------------------
(***************************************************************************)
(* What one upstream call promises the endpoint that makes it, whatever    *)
(* the upstream does: it sends a bounded number of times, nothing is sent  *)
(* once the call is answered or its stream is open, an answer is final,    *)
(* and the call does come to an answer or an open stream.                  *)
(***************************************************************************)
EXTENDS Naturals

CONSTANTS
  Calls,    \* the calls
  MaxSends  \* how often one call may reach the upstream

VARIABLES
  phase,    \* "idle", "working", "open" or "answered", per call
  fuel      \* sends the call still has

contractVars == <<phase, fuel>>

ContractInit ==
  /\ phase = [c \in Calls |-> "idle"]
  /\ fuel = [c \in Calls |-> MaxSends]

Begin(c) ==
  /\ phase[c] = "idle"
  /\ phase' = [phase EXCEPT ![c] = "working"]
  /\ UNCHANGED fuel

Attempt(c) ==
  /\ phase[c] = "working"
  /\ fuel[c] > 0
  /\ fuel' = [fuel EXCEPT ![c] = @ - 1]
  /\ UNCHANGED phase

Answer(c) ==
  /\ phase[c] = "working"
  /\ phase' = [phase EXCEPT ![c] = "answered"]
  /\ UNCHANGED fuel

Open(c) ==
  /\ phase[c] = "working"
  /\ phase' = [phase EXCEPT ![c] = "open"]
  /\ UNCHANGED fuel

Close(c) ==
  /\ phase[c] = "open"
  /\ phase' = [phase EXCEPT ![c] = "answered"]
  /\ UNCHANGED fuel

ContractNext ==
  \E c \in Calls : Begin(c) \/ Attempt(c) \/ Answer(c) \/ Open(c) \/ Close(c)

Safety == ContractInit /\ [][ContractNext]_contractVars

Conclude(c) == Answer(c) \/ Open(c)

Contract == Safety /\ \A c \in Calls : WF_contractVars(Conclude(c))
=============================================================================
