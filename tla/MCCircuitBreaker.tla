-------------------------- MODULE MCCircuitBreaker --------------------------
(* Small instances of CircuitBreaker: a flapping provider with several       *)
(* callers, and two providers behind one semaphore.                          *)
EXTENDS CircuitBreaker, TLC

CONSTANTS c1, c2, c3, claude, ollama

OneProvider == [c \in {c1, c2, c3} |-> claude]
TwoProviders == (c1 :> claude) @@ (c2 :> claude) @@ (c3 :> ollama)
=============================================================================
