---------------------------- MODULE MCUserAccounts ----------------------------
(* Symmetry and a view for the runs of UserAccounts.                         *)
EXTENDS UserAccounts, TLC

Symmetry == Permutations(Requests)

\* The ghost current, and what a request will add to it, matter to
\* PasswordChangeSticks alone.
WithoutCurrent ==
    <<users, [r \in Requests |-> IF request[r] = NoRequest THEN NoRequest
                                 ELSE [request[r] EXCEPT !.acks = NONE]],
      created, asked, starts>>
=============================================================================
