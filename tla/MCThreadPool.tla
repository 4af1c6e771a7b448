---------------------------- MODULE MCThreadPool ----------------------------
(* A model of ThreadPool: three workers, two clients, tasks of two priorities. *)
EXTENDS ThreadPool, TLC

CONSTANTS w1, w2, w3, ui, net, t1, t2, t3

MCWorkers == {w1, w2, w3}
MCClients == {ui, net}
MCTasks == {t1, t2, t3}
MCPriorityOf == (t1 :> 1) @@ (t2 :> 1) @@ (t3 :> 3)
=============================================================================
