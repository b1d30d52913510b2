---------------------------- MODULE MCRecorderParts ----------------------------
(***************************************************************************)
(* The parts of the session recorder, one of them in each behaviour: the   *)
(* recorder with its queues, the limiter of attribute changes, and the     *)
(* encoding of requests.  Which one runs is chosen in the initial state    *)
(* and the others stay in theirs; the states of the run are the sum of     *)
(* those of the parts.                                                     *)
(***************************************************************************)
EXTENDS SessionRecorder, MutationRateLimiter

VARIABLES part, batch, request, received, readBack

\* Values of logs: every scalar, lists and objects with them; and what the recorder
\* hands over, in batches of two.
Scalars ==
  {[json |-> "string", is |-> ""], [json |-> "string", is |-> "text"],
   [json |-> "number", is |-> 0], [json |-> "boolean", is |-> FALSE], [json |-> "null"]}
Undefined == [json |-> "undefined"]
Objects ==
  {[json |-> "object", is |-> entries] :
     entries \in {<<>>} \cup {<< <<"rr-web.offset", v>> >> : v \in Scalars}}
Arrays ==
  {[json |-> "array", is |-> values] :
     values \in {<<>>} \cup {<<v, o>> : v \in Scalars, o \in Objects}}
AnyLogs ==
  [body : Scalars \cup Arrays \cup {Undefined}, timeUnixNano : {0, 1, 3},
   attributes : Objects \cup {Undefined}]
RecorderLogs ==
  [body : {v \in Scalars : v.json = "string"}, timeUnixNano : {1, 3}, attributes : Objects]

OC == INSTANCE OtlpCodec WITH
  NanosPerMilli <- 10, MaxSafe <- 15, Spacing <- 4,
  Batches <- {<<l>> : l \in AnyLogs} \cup {<<k, l>> : k, l \in RecorderLogs},
  ResourceEntries <- << <<"service.name", [json |-> "string", is |-> ""]>> >>

ocVars == <<batch, request, received, readBack>>
partsVars == <<part, vars, limiterVars, ocVars>>

PartsInit ==
  /\ part \in {"recorder", "limiter", "codec"}
  /\ IF part = "recorder" THEN Init ELSE Init /\ ~hidden
  /\ LimiterInit
  /\ OC!OcInit

PartsNext ==
  /\ UNCHANGED part
  /\ \/ part = "recorder" /\ Next /\ UNCHANGED <<limiterVars, ocVars>>
     \/ part = "limiter" /\ LimiterNext /\ UNCHANGED <<vars, ocVars>>
     \/ part = "codec" /\ OC!OcNext /\ UNCHANGED <<vars, limiterVars>>

\* The fairness of the parts: their fair actions are not enabled in the initial states,
\* so it asks nothing of a part that is not chosen.
PartsSpec ==
  /\ PartsInit /\ [][PartsNext]_partsVars
  /\ WF_vars(FlushTimer) /\ WF_limiterVars(RefillBuckets)

-----------------------------------------------------------------------------
\* OtlpCodec: a request holds exactly the logs of the batch (OTLPLogExporter.ts:44-118).
RequestSaysTheBatch == OC!RequestSaysTheBatch

=============================================================================
