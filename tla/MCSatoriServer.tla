--------------------------- MODULE MCSatoriServer ---------------------------
(* Instances of the Satori server for TLC.  The beginning of a behaviour      *)
(* chooses one of a few: how many connections, events and webhooks meet,     *)
(* what the clients do, and whether the process is told to stop.  Each is    *)
(* small; together they would be beyond a small instance.                    *)
EXTENDS SatoriServer

CONSTANT Instances

VARIABLE instance

mcVars == <<vars, instance>>

Healthy(conns, sns) == [conns |-> conns, sns |-> sns, hooks |-> {}, ops |-> {"identify"},
                        faulty |-> {}, stop |-> FALSE]

(* One client that resumes while events are evicted; and two connections and *)
(* two Sends.                                                                *)
SafeInstances ==
  {[Healthy(Faulty, Sns) EXCEPT !.ops = ClientOps, !.faulty = Faulty],
   [Healthy(Conns, Sns \ {2}) EXCEPT !.faulty = Faulty]}

(* One client with every first message, one Send and a webhook; and two      *)
(* healthy connections or two Sends when the process is told to stop.        *)
LiveInstances ==
  {[Healthy(Faulty, {1}) EXCEPT !.ops = ClientOps, !.faulty = Faulty, !.hooks = Hooks],
   [Healthy(Conns, {0}) EXCEPT !.stop = MayShutdown],
   [Healthy(Faulty, Sns) EXCEPT !.stop = MayShutdown]}

MCInit == instance \in Instances /\ Init

(* Next, with what the instance has.                                         *)
MCNext ==
  /\ Running
  /\ \/ \E e \in instance.sns : \/ StartSend(e) \/ SendWork(e) \/ SendLock(e)
                                \/ \E c \in Conns : PostWork(e, c)
     \/ \E c \in instance.conns :
          \/ Connect(c) \/ HandlerWork(c) \/ HandlerLock(c) \/ AuthTimeout(c)
          \/ ReaderWork(c) \/ HeartWork(c) \/ ReadyFails(c)
          \/ \E op \in instance.ops : ReceiveAtOnce(c, op)
     \/ \E c \in instance.faulty : PeerGone(c) \/ HeartbeatTimeout(c)
     \/ \E u \in instance.hooks : \/ \E op \in {"create", "delete"} : ApiLock(u, op)
                                  \/ ApiWork(u)
     \/ instance.stop /\ CloseServer
     \/ CloseWork \/ CloseLock
  /\ UNCHANGED instance

MCSpec == MCInit /\ [][MCNext]_mcVars

MCFairSpec == MCSpec /\ Fairness
=============================================================================
