------------------------------ MODULE MCServer ------------------------------
(* Who is online, for TLC: on one instance of the server, in full, and on      *)
(* several of them. The two share no state: a behaviour follows one of them    *)
(* and leaves the other as it starts.                                          *)
EXTENDS PaxPresence, Cluster

VARIABLE focus

serverVars == <<focus, vars, clusterVars>>

(* The choices of a start matter only while its part is followed.              *)
ServerInit ==
  /\ focus \in {"presence", "cluster"}
  /\ Init
  /\ ClusterInit /\ (focus = "cluster" \/ http)

InPresence(A) == focus = "presence" /\ A /\ UNCHANGED <<focus, clusterVars>>
InCluster(A) == focus = "cluster" /\ A /\ UNCHANGED <<focus, vars>>

(* The fairness each part states, of its steps while it is followed. The part  *)
(* never changes, so that one condition on a step of either part says both.    *)
ServerFairness ==
  /\ \A s \in Socks:
       /\ WF_serverVars(InPresence(Resume(s)) \/ InCluster(Tick))
       /\ WF_serverVars(InPresence(sock[s] = "closing" /\ Close(s)) \/ InCluster(FrameArrives))
  /\ \A p \in Pax: WF_serverVars(InPresence(TimerFires(p)) \/ InCluster(ConsolePolls))
  /\ WF_serverVars(InCluster(\E i \in Instances: GraceFires(i)))
  /\ WF_serverVars(InCluster(\E i \in Instances: Beat(i)))
  /\ WF_serverVars(InCluster(\E i \in Instances: OrderDone(i)))

ServerSpec ==
  /\ ServerInit
  /\ [][InPresence(Next) \/ InCluster(ClusterNext)]_serverVars
  /\ ServerFairness
=============================================================================
