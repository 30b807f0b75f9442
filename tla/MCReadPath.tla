------------------------------ MODULE MCReadPath ------------------------------
(* Small instances of ReadPath: two users, one of them without a row in the  *)
(* users table, and one of the nine evidence queries.                        *)
EXTENDS ReadPath, TLC

CONSTANTS r1, r2, u1, u2, q1

Ask(kind, u, sub, q) == [kind |-> kind, user |-> u, sub |-> sub, query |-> q]

\* u2 is not in the users table: its metrics are empty, its profile is a 404.
EmptyMetrics == Ask("metrics", u2, u2, q1)
NoProfile    == Ask("profile", u2, u2, NULL)
Profile      == Ask("profile", u1, u1, NULL)
Foreign      == Ask("profile", u1, u2, NULL)
NoQuery      == Ask("metrics", u2, u2, NULL)

AllInputs     == {EmptyMetrics, NoProfile, Profile, Foreign, NoQuery}
ProfileInputs == {Profile}
LiveInputs    == {Ask("metrics", u1, u1, q1), Profile}

MCPathologies == <<"overtrading">>
MCShownFrom == [p \in {"overtrading"} |-> 0]
MCGroups == {{"overtrading"}}

Symmetric == Permutations(Reqs)

===============================================================================
