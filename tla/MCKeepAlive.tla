----------------------------- MODULE MCKeepAlive -----------------------------
(***************************************************************************)
(* KeepAlive with short delays: a second is one tick, a heartbeat two.     *)
(***************************************************************************)
EXTENDS KeepAlive, TLC

MCJobs == {"unset_keepalive", "heartbeat", "per_second_action"}

=============================================================================
