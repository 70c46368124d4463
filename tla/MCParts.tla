------------------------------ MODULE MCParts ------------------------------
(* The components that stand alone and have work of their own to finish      *)
(* (timers, queries, a queue), each in a small instance of its own: the      *)
(* beginning of a behaviour chooses one and the others stay where they are,  *)
(* so that the states are the sum of those of the parts, not the product.    *)
(* (The token endpoint that stays fails, so that nothing is owed to it.)     *)
EXTENDS FileStore, TokenRefresh, WebhookIngest

VARIABLE part

partsVars == <<part, filesVars, tokenVars, ingestVars>>

(* A group message; two channel events with the same data; an event nobody   *)
(* handles and one with a handler, with the same data; and one whose data    *)
(* cannot be decoded.                                                        *)
MCCallbacks ==
  {[id |-> 1, type |-> "GROUP_AT_MESSAGE_CREATE", data |-> 1],
   [id |-> 2, type |-> "CHANNEL_CREATE", data |-> 2],
   [id |-> 3, type |-> "CHANNEL_DELETE", data |-> 2],
   [id |-> 4, type |-> "MESSAGE_CREATE", data |-> 4],
   [id |-> 6, type |-> "AT_MESSAGE_CREATE", data |-> 4],
   [id |-> 5, type |-> "FRIEND_ADD", data |-> 5]}
-----------------------------------------------------------------------------
PartsInit ==
  /\ part \in {"files", "token", "ingest"}
  /\ FilesInit /\ TokenInit /\ IngestInit
  /\ part # "token" => endpoint = "fails"

(* A step of one part leaves the others alone.                               *)
OnlyFiles == part = "files" /\ UNCHANGED <<part, tokenVars, ingestVars>>
OnlyToken == part = "token" /\ UNCHANGED <<part, filesVars, ingestVars>>
OnlyIngest == part = "ingest" /\ UNCHANGED <<part, filesVars, tokenVars>>

PartsNext ==
  \/ OnlyFiles /\ FilesNext
  \/ OnlyToken /\ TokenNext
  \/ OnlyIngest /\ IngestNext

(* Each component's own fairness, for its own steps.                         *)
PartsFairness ==
  /\ WF_partsVars(OnlyFiles /\ TaskWork) /\ WF_partsVars(OnlyFiles /\ SaveWork)
  /\ WF_partsVars(OnlyFiles /\ Tick)
  /\ WF_partsVars(OnlyToken /\ (Timer \/ Forced)) /\ SF_partsVars(OnlyToken /\ Forced)
  /\ \A f \in Forcers : SF_partsVars(OnlyToken /\ ForceSends(f))
  /\ WF_partsVars(OnlyIngest /\ \E r \in Requests : Goroutine(r))
  /\ WF_partsVars(OnlyIngest /\ \E r \in Requests : Enqueue(r))
  /\ WF_partsVars(OnlyIngest /\ ListenMessageAndHandle)

PartsSpec == PartsInit /\ [][PartsNext]_partsVars /\ PartsFairness

PartsTypeOK == FilesTypeOK /\ TokenTypeOK /\ IngestTypeOK
=============================================================================
