----------------------------- MODULE MCExamples -----------------------------
(***************************************************************************)
(* TLC instance of what happens in the processes of an example program     *)
(* apart from the runtime: they choose their devices (Setup), they read    *)
(* and write images (Png), and they run kernels (Kernel).  These do not    *)
(* share state, and so each behaviour is about one of them.                *)
(***************************************************************************)
EXTENDS MCKernel, MCPng, Setup

VARIABLE part   \* "setup", "image" or "kernel"

\* What a process may find: CELERITY_DEVICES unset, right, too short, or with a word or a
\* number out of range in it; platforms with GPUs and other devices.
Numeral(n) == [numeric |-> TRUE, out_of_range |-> FALSE, value |-> n]
Word == [numeric |-> FALSE, out_of_range |-> FALSE, value |-> 0]
Huge == [numeric |-> TRUE, out_of_range |-> TRUE, value |-> 0]
MCMachine ==
    [hosts : UNION {[0 .. n -> {"a", "b"}] : n \in 0 .. 2},
     env : {<<>>, <<Numeral(1)>>, <<Numeral(0), Numeral(1)>>, <<Numeral(0), Numeral(1), Numeral(0), Numeral(2)>>,
            <<Numeral(0), Numeral(1), Huge, Numeral(0)>>, <<Word, Numeral(0), Word, Numeral(7)>>,
            <<Numeral(3), Numeral(0), Numeral(1)>>},
     platforms : {<<>>, <<<<"cpu">>>>, <<<<"cpu", "gpu">>, <<"gpu", "cpu", "gpu">>>>,
                  <<<<"gpu">>, <<"cpu">>, <<"gpu", "gpu", "gpu">>>>},
     user_device : BOOLEAN]

\* The state of a part that does nothing.
KernelRests == program = matmul(1, 1) /\ Start
PngRests == source = [file |-> <<>>, wanted |-> Null] /\ mode = "rest" /\ PngStart
SetupRests == machine = [hosts |-> <<>>, env |-> <<>>, platforms |-> <<>>, user_device |-> FALSE] /\ SetupStart

ExamplesInit ==
    \/ part = "setup" /\ SetupInit /\ PngRests /\ KernelRests
    \/ part = "image" /\ PngInit /\ SetupRests /\ KernelRests
    \/ part = "kernel" /\ Init /\ SetupRests /\ PngRests

ExamplesNext ==
    \/ part = "setup" /\ SetupNext /\ UNCHANGED <<part, vars, png_vars>>
    \/ part = "image" /\ PngNext /\ UNCHANGED <<part, vars, setup_vars>>
    \/ part = "kernel" /\ Next /\ UNCHANGED <<part, setup_vars, png_vars>>

ExamplesSpec == ExamplesInit /\ [][ExamplesNext]_<<part, vars, png_vars, setup_vars>>
=============================================================================
