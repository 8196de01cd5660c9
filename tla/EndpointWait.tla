---------------------------- MODULE EndpointWait ----------------------------
(***************************************************************************)
(* wait_for_endpoint of tools/probe_cd_completion.py and                   *)
(* tools/probe_loader_state.py: connect to the debug endpoint of a product *)
(* somebody else started, and go on once it answers.  The listener is open *)
(* before the product can answer, and may go away at any time.             *)
(***************************************************************************)
EXTENDS Integers

VARIABLES
  at,            (* the place of the probe                                 *)
  client,        (* it holds a client                                      *)
  sockets,       (* connections it has open                                *)
  endpoint       (* of the product                                         *)

waitVars == <<at, client, sockets, endpoint>>

Endpoints == {"closed", "deaf", "answers"}

\* A call on the client returns; otherwise it is an OSError or RuntimeError.
Answered == endpoint = "answers"

EndpointInit == at = "connect" /\ client = FALSE /\ sockets = 0 /\ endpoint = "closed"

Connect ==
  /\ at = "connect"
  /\ IF endpoint = "closed"
     THEN at' = "sleep" /\ UNCHANGED <<client, sockets>>
     ELSE at' = "hello" /\ client' = TRUE /\ sockets' = sockets + 1
  /\ UNCHANGED endpoint

\* client.close(); mutated: it is forgotten.
Forget == client' = FALSE /\ UNCHANGED sockets
Close == client' = FALSE /\ sockets' = sockets - 1

\* client.send("frame"); a client that does not answer is closed.
Hello ==
  /\ at = "hello"
  /\ IF Answered THEN at' = "ready" /\ UNCHANGED <<client, sockets>>
     ELSE at' = "sleep" /\ Close
  /\ UNCHANGED endpoint

Sleep == at = "sleep" /\ at' = "connect" /\ UNCHANGED <<client, sockets, endpoint>>

\* The deadline has passed.
TimeIsUp == at = "connect" /\ at' = "no endpoint"

GivesUp == TimeIsUp /\ UNCHANGED <<client, sockets, endpoint>>

WaitStep == Connect \/ Hello \/ Sleep \/ GivesUp

\* The product opens its listener, starts and stops answering, and goes.
EndpointChanges ==
  endpoint' \in Endpoints \ {endpoint} /\ UNCHANGED <<at, client, sockets>>
=============================================================================
