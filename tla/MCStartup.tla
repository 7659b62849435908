----------------------------- MODULE MCStartup -----------------------------
(* Instances of Startup for TLC. *)
EXTENDS Startup

\* No line or one of each form, two with a path in them, and three.
SmallFiles ==
  {<<>>} \cup {<<k>> : k \in LineKinds}
         \cup {<<"path", k>> : k \in LineKinds} \cup {<<k, "path">> : k \in LineKinds}
         \cup {<<"path", "path", "path">>, <<"path", "blank", "path">>}

=============================================================================
