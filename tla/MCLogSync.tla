------------------------------ MODULE MCLogSync ------------------------------
(* Constants of LogSync for TLC. *)
EXTENDS LogSync, TLC

Days(n)       == [all |-> FALSE, from |-> n - 1, to |-> 0]
FromTo(n, m)  == [all |-> FALSE, from |-> n, to |-> m]
Everything    == [all |-> TRUE, from |-> 0, to |-> 0]

OnlyAll       == {Everything}
OnlyToday     == {Days(1)}
OnlyYesterday == {FromTo(1, 1)}

(* One record in two reads the other's call with too few prompt tokens.    *)
Readings(misread) ==
    [f \in Files |-> [i \in 1..MaxRecords |->
        [model |-> "gpt-5", prompt |-> IF i % 2 = misread THEN 1 ELSE 2,
         completion |-> 1, cache |-> IF i % 2 = misread THEN 2 ELSE 0]]]

FirstMisread  == Readings(1)
SecondMisread == Readings(0)

MayForce == {TRUE, FALSE}
NoForce  == {FALSE}

ProcSymmetry == Permutations(Procs)
=============================================================================
