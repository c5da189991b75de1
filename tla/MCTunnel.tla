---- MODULE MCTunnel ----
EXTENDS Tunnel
====
