-------------------------------- MODULE MCAccess --------------------------------
EXTENDS Access

CONSTANTS a1, k1, q1, q2, pw1, pw2

MCAccounts == {a1}
MCKeys == {k1}
MCRequests == {q1, q2}
MCPasswords == {pw1, pw2}
MCEdits == {<<"qc", {}>>, <<"qc", {"po:receive"}>>}
MCGivenRoles == {{"qc"}}
================================================================================
