-------------------------------- MODULE Tune --------------------------------
(***************************************************************************)
(* The tunables that a Tuner (body-image/src/lib.rs) and a FutioTuner        *)
(* (body-image-futio/src/tune.rs) let their users build: anything else       *)
(* panics in a setter or in finish.  Durations are in units of one second;    *)
(* None is 0, which no timeout is worth setting to.                          *)
(***************************************************************************)
EXTENDS Naturals

None == 0

\* Setters assert that sizes and estimates are positive, finish the order of limits.
Tuned(t) ==
  /\ \A f \in {"max_body_ram", "max_body"} : t[f] \in Nat
  /\ \A f \in {"buffer_size_ram", "buffer_size_fs", "size_estimate_deflate",
               "size_estimate_gzip", "size_estimate_brotli"} : t[f] \in Nat \ {0}
  /\ t.max_body_ram <= t.max_body

\* FutioTuner::finish: a response may not be waited for longer than a body.
FutioTuned(t) ==
  /\ Tuned(t.image)
  /\ t.stream_item_size \in Nat \ {0}
  /\ t.res_timeout # None /\ t.body_timeout # None => t.res_timeout <= t.body_timeout

\* Tunables::new, with sizes in units of 64 KiB, rounded up.
DefaultTunables ==
  [max_body_ram |-> 3, max_body |-> 16384, buffer_size_ram |-> 1, buffer_size_fs |-> 1,
   size_estimate_deflate |-> 4, size_estimate_gzip |-> 5, size_estimate_brotli |-> 6]

\* FutioTunables::new: without a timeout for the response.
DefaultFutioTunables ==
  [image |-> DefaultTunables, res_timeout |-> None, body_timeout |-> 60, stream_item_size |-> 8]
=============================================================================
