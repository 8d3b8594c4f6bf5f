----------------------------- MODULE MCSenseAuth -----------------------------
(***************************************************************************)
(* SenseAuth on a small instance: one requesting task against the          *)
(* WebSocket handler, with every liveness property.  (What is said of      *)
(* logins is proved for any number of requesting tasks.)                   *)
(***************************************************************************)
EXTENDS SenseAuth

CONSTANT periodic

MCOneRequest == {periodic}
MCCancellable == {periodic, Feed}
=============================================================================
