-------------------------------- MODULE Lists --------------------------------
(* What the loops over lists make of them. *)
EXTENDS Integers, Sequences

\* What is left of a list when only the elements at the positions in K stay.
Selected(s, K) ==
  LET upto[n \in 0 .. Len(s)] ==
        IF n = 0 THEN <<>>
        ELSE IF n \in K THEN Append(upto[n - 1], s[n]) ELSE upto[n - 1]
  IN upto[Len(s)]

\* A list to which n is pushed, unless it is the same as one of the list's but the last.
Pushed(list, n, Same) ==
  IF \E i \in 1 .. Len(list) - 1 : <<list[i], n>> \in Same THEN list ELSE Append(list, n)

\* The numbers up to N that are in a list to whose end they are pushed in turn.
Linked(N, Same) ==
  LET upto[n \in 0 .. N] == IF n = 0 THEN <<>> ELSE Pushed(upto[n - 1], n, Same)
  IN upto[N]
==============================================================================
