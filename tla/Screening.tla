----------------------------- MODULE Screening -----------------------------
(***************************************************************************)
(* apps/web/lib/compliance.ts, use-profile.ts, the profile page and the    *)
(* review page: KYC/AML profiles in localStorage, read and written by      *)
(* several browser tabs.  Each call of compliance.ts runs to its end before *)
(* another tab can touch the store; between two calls a tab acts on what it *)
(* rendered last.                                                          *)
(***************************************************************************)
EXTENDS Naturals, FiniteSets

CONSTANTS
  Importers,
  Suppliers,
  Traits,        \* what the words in a name suggest: "unverifiable", "denied", "pep", "review"
  Seeded,        \* subjects whose view says verified or validated
  Listings,      \* what the API may list at the start
  ProfilePages,  \* tabs that show an importer's profile
  ReviewPages,   \* tabs that show the review queue
  SendPages      \* tabs that show the send form

Subjects == Importers \union Suppliers
Pages == ProfilePages \union ReviewPages \union SendPages

ASSUME ScreeningAssumption ==
  /\ Importers \intersect Suppliers = {}
  /\ Seeded \subseteq Subjects /\ Listings \subseteq SUBSET Subjects
  /\ Traits \in [Subjects -> SUBSET {"unverifiable", "denied", "pep", "review"}]
  /\ ProfilePages \intersect ReviewPages = {}
  /\ SendPages \intersect (ProfilePages \union ReviewPages) = {}

VARIABLES
  store,     \* the stored profiles: status and whether submittedAt and decidedAt are set
  ripe,      \* subjects that were submitted at least SCREEN_MS ago
  subjects,  \* the subjects the API lists
  shown,     \* the status of a subject that a tab rendered last, or "none"
  decision,  \* history: the last decision of the review page on a subject
  approved   \* history: the subjects the review page ever approved

screening == <<store, ripe, subjects, shown, decision, approved>>

ComplianceStatuses == {"not_started", "screening", "in_review", "verified", "rejected"}

ScreeningResult ==
  [status : ComplianceStatuses, submittedAt : BOOLEAN, decidedAt : BOOLEAN]

Result(status, submitted, decided) ==
  [status |-> status, submittedAt |-> submitted, decidedAt |-> decided]

ScreeningInit ==
  /\ store = [s \in {} |-> Result("not_started", FALSE, FALSE)]
  /\ ripe = {}
  /\ subjects \in Listings
  /\ shown = [pg \in Pages |-> [s \in Subjects |-> "none"]]
  /\ decision = [s \in Subjects |-> "none"]
  /\ approved = {}

\* The layers of a screening decide in this order.
Resolve(s) ==
  IF "unverifiable" \in Traits[s] THEN "rejected"
  ELSE IF Traits[s] # {} THEN "in_review"
  ELSE "verified"

\* Faulty variant of the next: a flagged name is screened like any other.
InitialForUnflagged(s) ==
  IF s \in Seeded THEN Result(Resolve(s), TRUE, TRUE)
  ELSE IF s \in Suppliers THEN Result("screening", TRUE, FALSE)
  ELSE Result("not_started", FALSE, FALSE)

InitialFor(s) ==
  IF Resolve(s) # "verified" THEN Result(Resolve(s), TRUE, FALSE)
  ELSE IF s \in Seeded THEN Result("verified", TRUE, TRUE)
  ELSE IF s \in Suppliers THEN Result("screening", TRUE, FALSE)
  ELSE Result("not_started", FALSE, FALSE)

\* Faulty variant of the next: the time of submission is not looked at.
ProfileAtOnce(map, s) ==
  LET rec == IF s \in DOMAIN map THEN map[s] ELSE InitialFor(s)
  IN IF rec.status = "screening" /\ ~rec.decidedAt
     THEN Result(Resolve(s), rec.submittedAt, FALSE) ELSE rec

\* getProfile: what it returns, and leaves in the store.
Profile(map, s) ==
  LET rec == IF s \in DOMAIN map THEN map[s] ELSE InitialFor(s)
  IN IF rec.status = "screening" /\ rec.submittedAt /\ ~rec.decidedAt /\ s \in ripe
     THEN Result(Resolve(s), rec.submittedAt, FALSE) ELSE rec

Put(map, s, rec) == [t \in DOMAIN map \union {s} |-> IF t = s THEN rec ELSE map[t]]

Looked(map, S) == [s \in DOMAIN map \union S |-> IF s \in S THEN Profile(map, s) ELSE map[s]]

\* A tab reads the profiles of S and renders them.  The rows of the review page are
\* rendered one by one; another page shows nothing but S.
Render(pg, map, S) ==
  /\ store' = Looked(map, S)
  /\ shown' = [shown EXCEPT ![pg] =
                 [s \in Subjects |-> IF s \in S THEN Profile(map, s).status
                                     ELSE IF pg \in ReviewPages THEN @[s] ELSE "none"]]

\* The timers of use-profile.ts and of the review page.
Poll(pg, s) ==
  /\ s \in subjects
  /\ pg \in ProfilePages => s \in Importers
  /\ Render(pg, store, {s})
  /\ UNCHANGED <<ripe, subjects, decision, approved>>

TimePasses(s) ==
  /\ s \in DOMAIN store /\ store[s].status = "screening" /\ s \notin ripe
  /\ ripe' = ripe \union {s}
  /\ UNCHANGED <<store, subjects, shown, decision, approved>>

\* The profile page has its form, and the button under it, while it shows not_started.
HasForm(pg, s) == s \in Importers /\ shown[pg][s] = "not_started"

StartVerification(pg, s) ==
  /\ HasForm(pg, s)
  /\ store' = Put(store, s, Result("screening", TRUE, FALSE))
  /\ ripe' = ripe \ {s}
  /\ UNCHANGED <<subjects, shown, decision, approved>>

\* The review page lists s in its queue, with the two buttons.
InQueue(pg, s) == shown[pg][s] = "in_review"

\* A decision of the review; the page then renders again.
Decide(pg, s, verdict) ==
  /\ InQueue(pg, s) /\ s \in DOMAIN store
  /\ Render(pg,
            Put(store, s, [store[s] EXCEPT !.status = verdict, !.decidedAt = TRUE]), {s})
  /\ decision' = [decision EXCEPT ![s] = verdict]
  /\ approved' = approved \union (IF verdict = "verified" THEN {s} ELSE {})
  /\ UNCHANGED <<ripe, subjects>>

ScreeningNext ==
  \/ \E s \in Subjects :
       \/ TimePasses(s)
       \/ \E pg \in ProfilePages : Poll(pg, s) \/ StartVerification(pg, s)
       \/ \E pg \in ReviewPages :
            Poll(pg, s) \/ \E verdict \in {"verified", "rejected"} : Decide(pg, s, verdict)

(***************************************************************************)
(* Properties                                                              *)
(***************************************************************************)
ScreeningTypeOK ==
  /\ DOMAIN store \subseteq subjects
  /\ \A s \in DOMAIN store : store[s] \in ScreeningResult
  /\ ripe \subseteq DOMAIN store
  /\ subjects \subseteq Subjects
  /\ shown \in [Pages -> [Subjects -> ComplianceStatuses \union {"none"}]]
  /\ decision \in [Subjects -> {"none", "verified", "rejected"}]
  /\ approved \subseteq subjects

\* A profile is verified because the review approved it, or because its name is
\* clean and it came verified or has been in screening for its time: no order of
\* looks, clicks and stale tabs gets a name past its screening.
VerifiedIsEarned ==
  \A s \in DOMAIN store : store[s].status = "verified" =>
    \/ decision[s] = "verified"
    \/ Resolve(s) = "verified" /\ decision[s] = "none" /\ s \in Seeded \union ripe

\* The last decision of the review stands, whatever timers run and whichever tab
\* still shows the state from before it.
DecisionStands ==
  \A s \in Subjects : decision[s] # "none" =>
    s \in DOMAIN store /\ store[s].status = decision[s]

=============================================================================
