-------------------------- MODULE MCMessageService --------------------------
(* Five workloads: one task fills a queue of three places with messages of *)
(* every priority, or with messages to itself and to another task; two     *)
(* tasks exchange messages over a queue of two; one task replies to        *)
(* another that registers two queues; and three tasks use the registry,    *)
(* which has room for two.                                                 *)
EXTENDS MessageService, TLC

CONSTANTS t1, t2, t3, q1, q2, q3, q4

MCTasks == {t1, t2, t3}

MCQueues == {q1, q2, q3, q4}

MCCapacity == q1 :> 1 @@ q2 :> 1 @@ q3 :> 2 @@ q4 :> 3

MCWorkloads ==
  {[queues |-> {q4}, callers |-> {t1}, receivers |-> {t1}, owners |-> {}, priorities |-> 0 .. 3],
   [queues |-> {q4}, callers |-> {t1}, receivers |-> {t1, t2}, owners |-> {}, priorities |-> {1, 3}],
   [queues |-> {q3}, callers |-> {t1, t2}, receivers |-> {t2}, owners |-> {}, priorities |-> {1, 3}],
   [queues |-> {q1, q2}, callers |-> {t1}, receivers |-> {}, owners |-> {t2}, priorities |-> {}],
   [queues |-> {q1, q2}, callers |-> {}, receivers |-> {}, owners |-> {t1, t2, t3},
    priorities |-> {}]}

=============================================================================
