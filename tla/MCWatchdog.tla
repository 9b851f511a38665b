----------------------------- MODULE MCWatchdog -----------------------------
(***************************************************************************)
(* An instance of Watchdog for TLC, with the sinks build_alerter composes. *)
(***************************************************************************)
EXTENDS Watchdog

CONSTANTS log, webhook

LogThenWebhook == <<log, webhook>>

=============================================================================
