----------------------------- MODULE MCPushDelivery -----------------------------
(* PushDelivery on small instances.                                        *)
EXTENDS PushDelivery
=================================================================================
