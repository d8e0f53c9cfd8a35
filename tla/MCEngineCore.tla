---------------------------- MODULE MCEngineCore ----------------------------
(* Small instances of EngineCore for TLC. *)
EXTENDS EngineCore

\* Some of the restored threads stay blocked: no thread is left that starts the
\* restore, or one, or (with only the supervisor blocked) two of them.
SomeStuck ==
  {{Main}, {Main, "in"}, {Main, Watcher, "out"}, {Main, Supervisor},
   {Main, Watcher, Supervisor}, {Watcher, Supervisor, "in"},
   {Watcher, Supervisor, "in", "out"}, {Supervisor, "in", "out"}}

\* Nothing stays blocked.
NoneStuck == {{}}
=============================================================================
