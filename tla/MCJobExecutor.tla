--------------------------- MODULE MCJobExecutor ---------------------------
(* Instances of JobExecutor for TLC, and the console as a QueryService. *)
EXTENDS JobExecutor

AllKinds      == {"search", "count", "wc", "exit"}
AnyDeadline   == {TRUE, FALSE}
NoDeadline    == {FALSE}
WcOnly        == {"wc"}

phase ==
  CASE pc \in {"open", "distribute", "check", "reopen", "redistribute", "prompt"} -> "ready"
    [] pc \in {"poll", "read", "print"} -> "busy"
    [] pc = "send" -> IF cmd.kind = "exit" THEN "closing" ELSE "busy"
    [] pc = "wait" -> "closing"
    [] pc = "done" -> "closed"
    [] pc = "crashed" -> "failed"

Service == INSTANCE QueryService WITH
             request <- cmd.id, trusted <- clean

\* Every session of the jobExecutor, with any deaths and deadlines, is a
\* session of the service: commands are served one at a time, no answer is shown
\* twice, and none is shown for the wrong command before a diagnostic.
ImplementsService == Service!Spec

\* Console.h:12, "Check if all children are still alive, revive these that are
\* dead": a dead worker should not take the jobExecutor with it.
NoSelfCrash == pc # "crashed"

=============================================================================
