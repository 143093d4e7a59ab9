------------------------------- MODULE MCTeam -------------------------------
(* Team, for TLC: two users, one request, one login, and no fault. *)
EXTENDS Team
=============================================================================
