---------------------------- MODULE MCProxyRouting ----------------------------
(* ProxyRouting for TLC. *)
EXTENDS ProxyRouting
===============================================================================
