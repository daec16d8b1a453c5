------------------------------ MODULE MCFactory ------------------------------
(* Model-checking instance of Factory: a table of three command names, a   *)
(* name outside it, numbers on both sides of 0xff, and byte sequences that  *)
(* are too short, name a table entry, or carry an id beyond the table.     *)
EXTENDS Factory

\* Three of ids::table's names (the header is not in the repository).
MCTable == <<"public_key", "debug", "session_response">>

MCNames == {"debug", "session_response", "unknown"}

MCNumbers == {0, 255, 256}

\* Among them a session_response whose 2-byte key exceeds MaxKeySize.
MCSeqs == {<<1>>, <<1, 0>>, <<2, 0, 7, 0, 9, 9>>, <<0, 1, 7>>, <<3, 0>>}
=============================================================================
