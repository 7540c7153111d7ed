------------------------------- MODULE MCLogger -------------------------------
(* Small instances of Logger over RabbitSession. *)
EXTENDS Logger, TLC

CONSTANTS log, out, m1, m2
BothQueues == {log, out}
TwoMessages == {m1, m2}
=============================================================================
