-------------------------- MODULE MCCircuitBreaker --------------------------
(* A small instance of CircuitBreaker for TLC: two settings that differ in   *)
(* every field.                                                              *)
EXTENDS CircuitBreaker

Setting(threshold, window, recovery, attempts) ==
  [error_threshold |-> threshold, window_ms |-> window,
   recovery_timeout_ms |-> recovery, half_open_max_attempts |-> attempts]
TwoSettings == {Setting(2, 1, 1, 2), Setting(3, 2, 2, 1)}
OneSetting == {Setting(2, 1, 1, 2)}
=============================================================================
