------------------------------- MODULE MCFuzzer -------------------------------
(***************************************************************************)
(* Programs for model checking the fuzzing mode, whose scheduler runs      *)
(* stores first and otherwise picks any thread.                            *)
(***************************************************************************)
EXTENDS Fuzzer, MCDriver

StoresFirstRandom(p) == {"wfr"}

\* A load that is made to read a store below the newest one may block its
\* thread for good: the run is abandoned.
Stuck == Prog3(<<Create(1), Create(2), W("x", 1)>>, <<R("x"), Assume(1, R("y"))>>, <<R("y"), W("x", 2)>>)

\* A store that depends on a load: a mutation of the load may take it away.
Guarded == Prog2(<<Create(1), W("y", 1), R("x")>>, <<R("y"), If(1, W("x", 1))>>)

Fuzzed == {SB, MP, LB, CasCas, AssumeFlag, JoinChild, Guarded, Fai3, Stuck}

\* Under SC a single litmus test shows what the fuzzer counts.
StoreBuffering == {SB}
=============================================================================
