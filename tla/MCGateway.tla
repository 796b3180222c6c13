----------------------------- MODULE MCGateway -----------------------------
(* Instances of Gateway for TLC: a Telegram chat, and jobs for it and for the terminal. *)
EXTENDS Gateway

Users == {"telegram:c1"}
Jobs == {"telegram:c1", Terminal}
Old == {"absent", "cli:direct"}
=============================================================================
