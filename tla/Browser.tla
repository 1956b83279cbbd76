------------------------------- MODULE Browser -------------------------------
(***************************************************************************)
(* A browser with the web app: the send form beside the profile and review *)
(* pages, the pages that follow a payment, or the form that makes one,     *)
(* whichever scene it is used for.  The scenes share the demo client and   *)
(* no state, so each behaviour is one of one scene; the other parts stay   *)
(* as they were.                                                           *)
(***************************************************************************)
EXTENDS SendPage, PaymentPages, NewPayment

CONSTANT Scenes

ASSUME BrowserAssumption ==
  /\ Scenes \subseteq [page : {"send", "track", "create"}, http : BOOLEAN,
                       open : SUBSET Tabs, ahead : Nat]
  /\ \A s \in Scenes : s.page = "create" => s.ahead > 0

vars == <<scene, sendVars, trackVars, createVars>>

\* What is not used stays at one of its initial states.
BrowserInit ==
  /\ scene \in Scenes
  /\ SendPageInit /\ TrackInit /\ CreateInit
  /\ scene.page # "send" =>
       /\ subjects = CHOOSE L \in Listings : TRUE
       /\ \A pg \in SendPages : acting[pg] = CHOOSE i \in Importers \intersect subjects : TRUE
  /\ scene.page # "track" => record = MakePayment("AwaitingFunding")

BrowserNext ==
  \/ scene.page = "send" /\ SendPageNext /\ UNCHANGED <<scene, trackVars, createVars>>
  \/ scene.page = "track" /\ TrackNext /\ UNCHANGED <<scene, sendVars, createVars>>
  \/ scene.page = "create" /\ CreateNext /\ UNCHANGED <<scene, sendVars, trackVars>>

BrowserSpec == BrowserInit /\ [][BrowserNext]_vars /\ TrackFairness

BrowserTypeOK ==
  /\ scene \in Scenes
  /\ scene.page = "track" => TrackTypeOK
  /\ scene.page = "create" => CreateTypeOK

=============================================================================
