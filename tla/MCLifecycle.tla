---------------------------- MODULE MCLifecycle ----------------------------
(* Instances of Lifecycle for TLC.                                         *)
EXTENDS Lifecycle

\* The second generation starts when the last monitor of the first has ended
\* its goroutine; its debounce window, with no edit left, does not matter.
OneLingers ==
  gen = MaxGen =>
    /\ at[<<1, N, T>>] = "idle"
    /\ op["watcher"] = "idle" => cool
=============================================================================
