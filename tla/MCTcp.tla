------------------------------- MODULE MCTcp -------------------------------
(* Instances of Tcp: scenarios with one client, and with two.              *)
EXTENDS Tcp, TLC
CONSTANTS A, B
MCPort == A :> 1 @@ B :> 2
MCIsn  == <<SeqSpace - 1, 3>>

\* Only A comes: n times, sending i packets and being sent o.
Only(n, i, o) ==
    [maxConnections |-> 2, epochs |-> A :> n @@ B :> 0, in |-> A :> i @@ B :> 0,
     out |-> A :> o @@ B :> 0, again |-> 1, capIn |-> 1, capOut |-> 1, events |-> {}]

\* Both come once, and m connections are admitted.
Both(m) ==
    [maxConnections |-> m, epochs |-> A :> 1 @@ B :> 1, in |-> A :> 0 @@ B :> 0,
     out |-> A :> 0 @@ B :> 0, again |-> 0, capIn |-> 1, capOut |-> 1, events |-> {}]

MCPlans ==
    { Only(1, 1, 1),                                         \* a repetition
      [Only(1, 1, 1) EXCEPT !.again = 0, !.events = {"fin"}],
      [Only(1, 0, 0) EXCEPT !.capIn = 2, !.events = {"fin"}], \* a FIN or SYN again
      [Only(1, 0, 3) EXCEPT !.again = 0],                    \* the window fills
      [Only(1, 2, 0) EXCEPT !.again = 0, !.capIn = 2],       \* reordering
      [Only(2, 0, 1) EXCEPT !.again = 0, !.events = {"reset"}],
      [Only(2, 0, 0) EXCEPT !.events = {"reset"}],           \* the client starts again
      [Only(1, 0, 1) EXCEPT !.again = 0, !.events = {"link"}],
      Both(1), Both(2) }
=============================================================================
