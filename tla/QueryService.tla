---------------------------- MODULE QueryService ----------------------------
(***************************************************************************)
(* What the user of the jobExecutor's console is promised: one command is  *)
(* served at a time, each command is answered or refused at most once, no  *)
(* answer of a worker is shown twice or after a newer one, and, until the  *)
(* console has admitted a failure, a command is only ever answered with    *)
(* answers to that command.                                                *)
(***************************************************************************)
EXTENDS Naturals

CONSTANT Workers

VARIABLES
  phase,    \* where the session is
  request,  \* number of the last command typed
  shown,    \* shown[w]: number of the command that the last answer of w shown
            \* to the user answers
  trusted   \* no failure has been reported in this session

vars == <<phase, request, shown, trusted>>

Init ==
  /\ phase = "ready"
  /\ request = 0
  /\ shown = [w \in Workers |-> 0]
  /\ trusted = TRUE

Ask ==
  /\ phase = "ready"
  /\ phase' = "busy"
  /\ request' = request + 1
  /\ UNCHANGED <<shown, trusted>>

Leave ==
  /\ phase = "ready"
  /\ phase' = "closing"
  /\ request' = request + 1
  /\ UNCHANGED <<shown, trusted>>

\* "x/N Workers answered in time."
Warn ==
  /\ phase = "busy"
  /\ trusted' = FALSE
  /\ UNCHANGED <<phase, request, shown>>

\* The answers of some of the workers are shown.
Respond ==
  /\ phase = "busy"
  /\ phase' = "ready"
  /\ \A w \in Workers : shown'[w] # shown[w] =>
       IF trusted THEN shown'[w] = request ELSE shown'[w] \in shown[w]+1 .. request
  /\ DOMAIN shown' = Workers
  /\ UNCHANGED <<request, trusted>>

\* "Try again."
Refuse ==
  /\ phase = "busy"
  /\ phase' = "ready"
  /\ trusted' = FALSE
  /\ UNCHANGED <<request, shown>>

Close ==
  /\ phase = "closing"
  /\ phase' = "closed"
  /\ UNCHANGED <<request, shown, trusted>>

\* The process is killed by a signal of its own making.
Fail ==
  /\ phase \in {"ready", "busy"}
  /\ phase' = "failed"
  /\ UNCHANGED <<request, shown, trusted>>

Next == Ask \/ Leave \/ Warn \/ Respond \/ Refuse \/ Close \/ Fail

Spec == Init /\ [][Next]_vars

=============================================================================
