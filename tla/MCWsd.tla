------------------------------- MODULE MCWsd -------------------------------
(***************************************************************************)
(* The instance of the WSD modules that TLC checks. Discovery, transport,  *)
(* job and decoders are separate objects or functions of the program that  *)
(* share no state but the cancel flag of a call; each behaviour exercises  *)
(* one of them.                                                            *)
(***************************************************************************)
EXTENDS WsdDiscoveryModel, WsdHttpTransport, WsdJobModel, WsdXmlDocument

CONSTANTS d1, d2, d3, h1, h2, s1, s2, token1, token2, tokenBad

VARIABLE activity   \* the object that this behaviour exercises

wsdVars == <<discoveryVars, httpVars, jobVars, documentVars, cancelled, activity>>

MCMatch ==
  {[device |-> d, scan |-> TRUE, xaddrs |-> {h1}] : d \in Device} \cup
  {[device |-> d1, scan |-> TRUE, xaddrs |-> {h2}],
   [device |-> d2, scan |-> FALSE, xaddrs |-> Host]}

MCAnswer ==
  [relates : {TRUE}, complete : {TRUE}, device : Device,
   services : {<<Blank, s1>>, <<s2, Unsafe>>}] \cup
  {[relates |-> r, complete |-> ~r, device |-> d1, services |-> <<s1>>] : r \in BOOLEAN} \cup
  {[relates |-> TRUE, complete |-> TRUE, device |-> d1, services |-> s] :
     s \in {<<>>, <<Unsafe, s1>>}}

Init ==
  /\ DiscoveryInit /\ HttpInit /\ JobInit /\ DocumentInit
  /\ cancelled = FALSE
  /\ \/ activity \in {"discovery", "post", "job"} /\ message = "probe"
     \/ activity = "decoding"

Next ==
  /\ UNCHANGED activity
  /\ \/ activity = "discovery" /\ DiscoveryNext /\ UNCHANGED <<httpVars, jobVars, documentVars>>
     \/ activity = "post" /\ HttpNext /\ UNCHANGED <<discoveryVars, jobVars, documentVars>>
     \/ activity = "job" /\ JobNext /\ UNCHANGED <<discoveryVars, httpVars, documentVars, cancelled>>
     \/ /\ activity = "decoding" /\ DocumentNext
        /\ UNCHANGED <<discoveryVars, httpVars, jobVars, cancelled>>

Spec == Init /\ [][Next]_wsdVars /\ DiscoveryFairness /\ HttpFairness

-----------------------------------------------------------------------------
\* A call that is cancelled while it waits for the network, be it a search or a
\* request, ends at the next answer and does not ask the network again.
CancelEndsCalls == CancelEndsRefresh /\ CancelEndsPost

\* A search and a request end, whatever the network answers.
CallsReturn == RefreshReturns /\ PostReturns
=============================================================================
