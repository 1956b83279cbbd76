--------------------------- MODULE BrowserProofs ---------------------------
(***************************************************************************)
(* Proofs about Browser, for any names, tabs, amounts, scenes and bounds:  *)
(* on the send form and the screening beneath it, a status is earned, a    *)
(* decision stands, and who is paid by an importer of his own has passed;  *)
(* the form that makes a payment pays once for a click and fits together   *)
(* when it rests; the pages that follow a payment tell the truth, end with *)
(* it and take back no progress.                                           *)
(***************************************************************************)
EXTENDS Browser, FiniteSetTheorems, SequenceTheorems, TLAPS

(***************************************************************************)
(* The inductive invariant.  No status is stored, or still shown by a tab, *)
(* that the name could not have come to: not_started and screening are for *)
(* clean names, in_review for flagged ones.  So the buttons that start a   *)
(* screening and those that decide never concern the same subject, however *)
(* old what their tabs show.                                               *)
(***************************************************************************)
Fits(s, status) ==
  /\ status \in {"not_started", "screening"} => Resolve(s) = "verified"
  /\ status = "in_review" => Resolve(s) = "in_review"

Earned(s) == Resolve(s) = "verified" /\ decision[s] = "none" /\ s \in Seeded \union ripe

StoreInv ==
  \A s \in DOMAIN store :
    /\ Fits(s, store[s].status)
    /\ store[s].status = "verified" => decision[s] = "verified" \/ Earned(s)

DecisionInv ==
  \A s \in Subjects :
    /\ decision[s] # "none" =>
         Resolve(s) = "in_review" /\ s \in DOMAIN store /\ store[s].status = decision[s]
    /\ decision[s] = "verified" => s \in approved

ShownInv ==
  \A pg \in Pages, s \in Subjects :
    /\ Fits(s, shown[pg][s])
    /\ shown[pg][s] = "verified" => Screened(s)
    /\ shown[pg][s] # "none" => s \in DOMAIN store

ScreeningInv == ScreeningTypeOK /\ StoreInv /\ DecisionInv /\ ShownInv

FormInv ==
  /\ owner \in [Suppliers -> Importers \union {Nobody}]
  /\ acting \in [SendPages -> Importers]
  /\ form \in [SendPages -> Form]
  /\ payments \subseteq [importer : Importers, supplier : Suppliers]
  /\ \A s \in Suppliers : s \in subjects <=> owner[s] # Nobody
  /\ \A pg \in SendPages :
       /\ acting[pg] \in subjects
       /\ form[pg].supplier \in subjects \union {Nobody}
       /\ form[pg].saving \in subjects \union {Nobody}
  /\ \A p \in payments : p.supplier \in subjects

SendInv == ScreeningInv /\ FormInv /\ OwnPaymentsAreScreened

\* The initial state.
LEMMA SendPageStarts == SendPageInit => SendInv
<1> SUFFICES ASSUME SendPageInit PROVE SendInv
  OBVIOUS
<1> USE ScreeningAssumption, SendPageAssumption
<1>1. DOMAIN store = {}
  BY DEF SendPageInit, ScreeningInit
<1>2. ScreeningTypeOK
  BY <1>1 DEF SendPageInit, ScreeningInit, ScreeningTypeOK
<1>3. StoreInv /\ DecisionInv /\ ShownInv
  BY <1>1 DEF SendPageInit, ScreeningInit, StoreInv, DecisionInv, ShownInv, Fits
<1>4. FormInv
  BY DEF SendPageInit, ScreeningInit, FormInv, Form, EmptyForm
<1>5. OwnPaymentsAreScreened
  BY DEF SendPageInit, OwnPaymentsAreScreened
<1> QED
  BY <1>2, <1>3, <1>4, <1>5 DEF SendInv, ScreeningInv

\* What getProfile returns fits the name, is earned, and is the decision if there
\* was one.
LEMMA ProfileFits ==
  ASSUME ScreeningInv, NEW s \in Subjects
  PROVE  /\ Profile(store, s) \in ScreeningResult
         /\ Fits(s, Profile(store, s).status)
         /\ Profile(store, s).status = "verified" => decision[s] = "verified" \/ Earned(s)
         /\ decision[s] # "none" => Profile(store, s).status = decision[s]
<1> DEFINE rec == IF s \in DOMAIN store THEN store[s] ELSE InitialFor(s)
<1>1. Resolve(s) \in {"verified", "in_review", "rejected"}
  BY DEF Resolve
<1>2. rec \in ScreeningResult
  BY <1>1 DEF ScreeningInv, ScreeningTypeOK, InitialFor, Result, ScreeningResult,
              ComplianceStatuses
<1>3. Fits(s, rec.status)
  BY <1>1 DEF ScreeningInv, StoreInv, InitialFor, Result, Fits
<1>4. rec.status = "verified" => decision[s] = "verified" \/ Earned(s)
  BY <1>1 DEF ScreeningInv, ScreeningTypeOK, StoreInv, DecisionInv, InitialFor, Result, Earned
<1>5. decision[s] # "none" => rec.status = decision[s] /\ rec.status # "screening"
  BY <1>1, <1>3 DEF ScreeningInv, ScreeningTypeOK, DecisionInv, Fits
<1>6. CASE rec.status = "screening" /\ rec.submittedAt /\ ~rec.decidedAt /\ s \in ripe
  <2>1. Profile(store, s) = Result(Resolve(s), rec.submittedAt, FALSE)
    BY <1>6 DEF Profile
  <2>2. Resolve(s) = "verified" /\ decision[s] = "none"
    BY <1>3, <1>5, <1>6 DEF Fits
  <2> QED
    BY <1>2, <1>6, <2>1, <2>2 DEF Result, ScreeningResult, ComplianceStatuses, Fits, Earned
<1>7. CASE ~(rec.status = "screening" /\ rec.submittedAt /\ ~rec.decidedAt /\ s \in ripe)
  <2>1. Profile(store, s) = rec
    BY <1>7 DEF Profile
  <2> QED
    BY <1>2, <1>3, <1>4, <1>5, <2>1
<1> QED
  BY <1>6, <1>7

\* A tab that reads profiles and renders them preserves the invariant.
LEMMA RenderKeeps ==
  ASSUME ScreeningInv, NEW pg \in Pages, NEW S \in SUBSET subjects,
         Render(pg, store, S), UNCHANGED <<ripe, subjects, decision, approved>>
  PROVE  /\ ScreeningInv'
         /\ \A s \in S : shown'[pg][s] # "none"
<1>1. S \subseteq Subjects
  BY DEF ScreeningInv, ScreeningTypeOK
<1>2. /\ DOMAIN store' = DOMAIN store \union S
      /\ \A s \in S : store'[s] = Profile(store, s)
      /\ \A s \in DOMAIN store \ S : store'[s] = store[s]
  BY DEF Render, Looked
<1>3. /\ shown' \in [Pages -> [Subjects -> ComplianceStatuses \union {"none"}]]
      /\ \A q \in Pages \ {pg} : shown'[q] = shown[q]
      /\ \A s \in S : shown'[pg][s] = Profile(store, s).status
      /\ \A s \in Subjects \ S : shown'[pg][s] \in {shown[pg][s], "none"}
  <2>1. \A s \in S : Profile(store, s).status \in ComplianceStatuses
    BY <1>1, ProfileFits DEF ScreeningResult
  <2> QED
    BY <1>1, <2>1 DEF Render, ScreeningInv, ScreeningTypeOK
<1>4. ScreeningTypeOK'
  BY <1>1, <1>2, <1>3, ProfileFits DEF ScreeningInv, ScreeningTypeOK
<1>5. StoreInv'
  BY <1>1, <1>2, ProfileFits DEF ScreeningInv, StoreInv, Earned
<1>6. DecisionInv'
  BY <1>1, <1>2, ProfileFits DEF ScreeningInv, DecisionInv
<1>7. ShownInv'
  <2> SUFFICES ASSUME NEW q \in Pages, NEW s \in Subjects
               PROVE  /\ Fits(s, shown'[q][s])
                      /\ shown'[q][s] = "verified" => Screened(s)
                      /\ shown'[q][s] # "none" => s \in DOMAIN store'
    BY DEF ShownInv, Screened
  <2>1. CASE q = pg /\ s \in S
    <3>1. shown'[q][s] = Profile(store, s).status
      BY <1>3, <2>1
    <3>2. shown'[q][s] = "verified" => Screened(s)
      BY <3>1, ProfileFits DEF ScreeningInv, DecisionInv, Screened, Earned
    <3> QED
      BY <1>2, <2>1, <3>1, <3>2, ProfileFits
  <2>2. CASE ~(q = pg /\ s \in S)
    <3>1. shown'[q][s] \in {shown[q][s], "none"}
      BY <1>3, <2>2
    <3>2. Fits(s, "none")
      BY DEF Fits
    <3> QED
      BY <1>2, <3>1, <3>2 DEF ScreeningInv, ShownInv
  <2> QED
    BY <2>1, <2>2
<1>8. \A s \in S : shown'[pg][s] # "none"
  BY <1>1, <1>3, ProfileFits DEF ScreeningResult, ComplianceStatuses
<1> QED
  BY <1>4, <1>5, <1>6, <1>7, <1>8 DEF ScreeningInv

\* The actions of Screening preserve its invariant.
LEMMA TimeKeeps ==
  ASSUME ScreeningInv, NEW s \in Subjects, TimePasses(s)
  PROVE  ScreeningInv'
  BY DEF ScreeningInv, ScreeningTypeOK, StoreInv, DecisionInv, ShownInv, TimePasses, Earned,
         Screened

LEMMA StartKeeps ==
  ASSUME ScreeningInv, NEW pg \in ProfilePages, NEW s \in Subjects, StartVerification(pg, s)
  PROVE  ScreeningInv'
<1>1. /\ shown[pg][s] = "not_started" /\ Resolve(s) = "verified"
      /\ s \in DOMAIN store /\ decision[s] = "none"
  BY DEF StartVerification, HasForm, ScreeningInv, ShownInv, DecisionInv, Fits, Pages
<1>2. /\ DOMAIN store' = DOMAIN store
      /\ store'[s] = Result("screening", TRUE, FALSE)
      /\ \A t \in DOMAIN store \ {s} : store'[t] = store[t]
  BY <1>1 DEF StartVerification, HasForm, Put
<1>3. ripe' = ripe \ {s} /\ UNCHANGED <<subjects, shown, decision, approved>>
  BY DEF StartVerification
<1>4. ScreeningTypeOK'
  <2>1. Result("screening", TRUE, FALSE) \in ScreeningResult
    BY DEF Result, ScreeningResult, ComplianceStatuses
  <2>2. \A t \in DOMAIN store' : store'[t] \in ScreeningResult
    BY <1>2, <2>1 DEF ScreeningInv, ScreeningTypeOK
  <2> QED
    BY <1>2, <1>3, <2>2 DEF ScreeningInv, ScreeningTypeOK
<1>5. StoreInv'
  BY <1>1, <1>2, <1>3 DEF ScreeningInv, StoreInv, Fits, Earned, Result
<1>6. DecisionInv'
  BY <1>1, <1>2, <1>3 DEF ScreeningInv, DecisionInv
<1>7. ShownInv'
  BY <1>2, <1>3 DEF ScreeningInv, ShownInv, Screened
<1> QED
  BY <1>4, <1>5, <1>6, <1>7 DEF ScreeningInv

LEMMA DecideKeeps ==
  ASSUME ScreeningInv, NEW pg \in ReviewPages, NEW s \in Subjects,
         NEW verdict \in {"verified", "rejected"}, Decide(pg, s, verdict)
  PROVE  ScreeningInv'
<1> DEFINE rec == [store[s] EXCEPT !.status = verdict, !.decidedAt = TRUE]
           map == Put(store, s, rec)
<1>1. s \in DOMAIN store /\ store[s] \in ScreeningResult /\ s \in subjects
      /\ Resolve(s) = "in_review"
  BY DEF Decide, InQueue, ScreeningInv, ScreeningTypeOK, ShownInv, Fits, Pages
<1>2. rec \in ScreeningResult /\ rec.status = verdict
  BY <1>1 DEF ScreeningResult, ComplianceStatuses
<1>3. /\ DOMAIN map = DOMAIN store /\ map[s] = rec
      /\ \A t \in DOMAIN store \ {s} : map[t] = store[t]
  BY <1>1 DEF Put
<1>4. Profile(map, s) = rec
  BY <1>1, <1>2, <1>3 DEF Profile
<1>5. /\ DOMAIN store' = DOMAIN store /\ store'[s] = rec
      /\ \A t \in DOMAIN store \ {s} : store'[t] = store[t]
  BY <1>1, <1>3, <1>4 DEF Decide, Render, Looked
<1>6. /\ shown' \in [Pages -> [Subjects -> ComplianceStatuses \union {"none"}]]
      /\ shown'[pg][s] = verdict
      /\ \A q \in Pages, t \in Subjects :
           q # pg \/ t # s => shown'[q][t] \in {shown[q][t], "none"}
  <2>1. shown \in [Pages -> [Subjects -> ComplianceStatuses \union {"none"}]] /\ pg \in Pages
    BY DEF ScreeningInv, ScreeningTypeOK, Pages
  <2>2. Profile(map, s).status = verdict /\ verdict \in ComplianceStatuses
    BY <1>2, <1>4 DEF ComplianceStatuses
  <2> DEFINE row == [t \in Subjects |->
                       IF t \in {s} THEN Profile(map, t).status
                       ELSE IF pg \in ReviewPages THEN shown[pg][t] ELSE "none"]
  <2>3. shown' = [shown EXCEPT ![pg] = row]
    BY <2>1 DEF Decide, Render
  <2>4. /\ row \in [Subjects -> ComplianceStatuses \union {"none"}]
        /\ row[s] = verdict
        /\ \A t \in Subjects : t # s => row[t] \in {shown[pg][t], "none"}
    BY <2>1, <2>2
  <2> HIDE DEF row
  <2> QED
    BY <2>1, <2>3, <2>4
<1>7. /\ decision' = [decision EXCEPT ![s] = verdict]
      /\ approved' = approved \union (IF verdict = "verified" THEN {s} ELSE {})
      /\ UNCHANGED <<ripe, subjects>>
  BY DEF Decide
<1>8. ScreeningTypeOK'
  <2>1. \A t \in DOMAIN store' : store'[t] \in ScreeningResult
    BY <1>2, <1>5 DEF ScreeningInv, ScreeningTypeOK
  <2>2. decision' \in [Subjects -> {"none", "verified", "rejected"}]
    BY <1>7 DEF ScreeningInv, ScreeningTypeOK
  <2>3. approved' \subseteq subjects'
    BY <1>1, <1>7 DEF ScreeningInv, ScreeningTypeOK
  <2> QED
    BY <1>5, <1>6, <1>7, <2>1, <2>2, <2>3 DEF ScreeningInv, ScreeningTypeOK
<1>9. StoreInv'
  BY <1>2, <1>5, <1>7 DEF ScreeningInv, ScreeningTypeOK, StoreInv, Fits, Earned
<1>10. DecisionInv'
  BY <1>1, <1>2, <1>5, <1>7 DEF ScreeningInv, ScreeningTypeOK, DecisionInv
<1>11. ShownInv'
  <2> SUFFICES ASSUME NEW q \in Pages, NEW t \in Subjects
               PROVE  /\ Fits(t, shown'[q][t])
                      /\ shown'[q][t] = "verified" => Screened(t)'
                      /\ shown'[q][t] # "none" => t \in DOMAIN store'
    BY DEF ShownInv
  <2>1. CASE q = pg /\ t = s
    BY <1>1, <1>5, <1>6, <1>7, <2>1 DEF Fits, Screened
  <2>2. CASE q # pg \/ t # s
    <3>1. shown'[q][t] \in {shown[q][t], "none"}
      BY <1>6, <2>2
    <3>2. Screened(t) => Screened(t)'
      BY <1>7 DEF Screened
    <3>3. Fits(t, "none")
      BY DEF Fits
    <3> QED
      BY <1>5, <3>1, <3>2, <3>3 DEF ScreeningInv, ShownInv
  <2> QED
    BY <2>1, <2>2
<1> QED
  BY <1>8, <1>9, <1>10, <1>11 DEF ScreeningInv

LEMMA PollKeeps ==
  ASSUME ScreeningInv, NEW pg \in Pages, NEW s \in Subjects, Poll(pg, s)
  PROVE  ScreeningInv'
  BY RenderKeeps DEF Poll

LEMMA ScreeningKeeps ==
  ASSUME ScreeningInv, ScreeningNext
  PROVE  ScreeningInv' /\ UNCHANGED subjects
<1>1. PICK s \in Subjects :
        \/ TimePasses(s)
        \/ \E pg \in ProfilePages : Poll(pg, s) \/ StartVerification(pg, s)
        \/ \E pg \in ReviewPages :
             Poll(pg, s) \/ \E verdict \in {"verified", "rejected"} : Decide(pg, s, verdict)
  BY DEF ScreeningNext
<1>2. CASE TimePasses(s)
  BY <1>2, TimeKeeps DEF TimePasses
<1>3. CASE \E pg \in ProfilePages \union ReviewPages : Poll(pg, s)
  BY <1>3, PollKeeps DEF Poll, Pages
<1>4. CASE \E pg \in ProfilePages : StartVerification(pg, s)
  BY <1>4, StartKeeps DEF StartVerification, HasForm
<1>5. CASE \E pg \in ReviewPages, verdict \in {"verified", "rejected"} : Decide(pg, s, verdict)
  BY <1>5, DecideKeeps DEF Decide
<1> QED
  BY <1>1, <1>2, <1>3, <1>4, <1>5

\* What the review has approved stays approved.
LEMMA ApprovalLasts ==
  ASSUME SendPageNext
  PROVE  approved \subseteq approved'
  BY DEF SendPageNext, ScreeningNext, TimePasses, Poll, StartVerification, Decide, SetImporterId,
         SelectSupplier, AddSupplier, SupplierAdded, Send, Leave, screening

\* The choice of a supplier, by hand or by an effect.
LEMMA ChosenKeeps ==
  ASSUME SendInv, NEW pg \in SendPages, NEW i \in Importers \intersect subjects,
         NEW supplier \in (Suppliers \intersect subjects) \union {Nobody},
         Chosen(pg, i, supplier), acting' = [acting EXCEPT ![pg] = i],
         UNCHANGED <<ripe, subjects, decision, approved, owner, payments>>
  PROVE  SendInv'
<1>1. PICK s \in Suppliers \union {Nobody} :
        /\ s \in MySuppliers(i) \union {supplier}
        /\ Render(pg, store, {i} \union ({s} \intersect MySuppliers(i)))
        /\ form' = [form EXCEPT ![pg].supplier = s]
  BY DEF Chosen
<1>2. ScreeningInv'
  <2>1. {i} \union ({s} \intersect MySuppliers(i)) \in SUBSET subjects
    BY DEF MySuppliers
  <2>2. pg \in Pages
    BY DEF Pages
  <2> QED
    BY <1>1, <2>1, <2>2, RenderKeeps DEF SendInv
<1>3. s \in subjects \union {Nobody}
  BY <1>1 DEF MySuppliers
<1>4. FormInv'
  BY <1>1, <1>3 DEF SendInv, FormInv, Form
<1>5. OwnPaymentsAreScreened'
  BY DEF SendInv, OwnPaymentsAreScreened, Screened
<1> QED
  BY <1>2, <1>4, <1>5 DEF SendInv

LEMMA SupplierAddedKeeps ==
  ASSUME SendInv, NEW pg \in SendPages, SupplierAdded(pg)
  PROVE  SendInv'
<1> DEFINE s == form[pg].saving
           S == {acting[pg]} \union ({s} \intersect MySuppliers(acting[pg]))
<1>1. ScreeningInv'
  <2>1. S \in SUBSET subjects
    BY DEF SendInv, FormInv, MySuppliers
  <2>2. pg \in Pages
    BY DEF Pages
  <2>3. Render(pg, store, S) /\ UNCHANGED <<ripe, subjects, decision, approved>>
    BY DEF SupplierAdded
  <2> QED
    BY <2>1, <2>2, <2>3, RenderKeeps DEF SendInv
<1>2. FormInv'
  <2>1. s \in Suppliers /\ s \in subjects
    BY DEF SendInv, FormInv, Form, SupplierAdded
  <2>2. form' = [form EXCEPT ![pg] = [supplier |-> s, saving |-> Nobody]]
    BY DEF SendInv, FormInv, Form, SupplierAdded
  <2> QED
    BY <2>1, <2>2 DEF SendInv, FormInv, Form, SupplierAdded
<1>3. OwnPaymentsAreScreened'
  BY DEF SendInv, OwnPaymentsAreScreened, Screened, SupplierAdded
<1> QED
  BY <1>1, <1>2, <1>3 DEF SendInv

LEMMA AddSupplierKeeps ==
  ASSUME SendInv, NEW pg \in SendPages, NEW s \in Suppliers, AddSupplier(pg, s)
  PROVE  SendInv'
<1>1. /\ subjects' = subjects \union {s} /\ s \notin subjects
      /\ owner' = [owner EXCEPT ![s] = acting[pg]]
      /\ form' = [form EXCEPT ![pg].saving = s]
      /\ UNCHANGED <<store, ripe, shown, decision, approved, acting, payments>>
  BY DEF AddSupplier
<1>2. ScreeningInv'
  BY <1>1 DEF SendInv, ScreeningInv, ScreeningTypeOK, StoreInv, DecisionInv, ShownInv, Earned,
              Screened, Subjects
<1>3. FormInv'
  <2>1. acting[pg] \in Importers /\ acting[pg] # Nobody
    BY SendPageAssumption DEF SendInv, FormInv, Subjects
  <2> QED
    BY <1>1, <2>1 DEF SendInv, FormInv, Form
<1>4. OwnPaymentsAreScreened'
  <2> SUFFICES ASSUME NEW p \in payments, owner'[p.supplier] = p.importer
               PROVE  Screened(p.importer) /\ Screened(p.supplier)
    BY <1>1 DEF OwnPaymentsAreScreened, Screened
  <2>1. owner[p.supplier] = p.importer
    BY <1>1 DEF SendInv, FormInv
  <2> QED
    BY <2>1 DEF SendInv, OwnPaymentsAreScreened
<1> QED
  BY <1>2, <1>3, <1>4 DEF SendInv

\* A tab that shows two verified names sends for two screened names.
LEMMA SendKeeps ==
  ASSUME SendInv, NEW pg \in SendPages, Send(pg)
  PROVE  SendInv'
<1> DEFINE i == acting[pg]
           s == form[pg].supplier
<1>1. /\ i \in Importers /\ s \in Suppliers /\ s \in subjects
      /\ i \in Subjects /\ s \in Subjects /\ pg \in Pages
  BY DEF SendInv, FormInv, Form, Send, CanSend, Subjects, Pages
<1>2. /\ payments' = payments \union {[importer |-> i, supplier |-> s]}
      /\ form' = [form EXCEPT ![pg] = EmptyForm]
      /\ UNCHANGED <<store, ripe, subjects, shown, decision, approved, owner, acting>>
  BY DEF Send, screening
<1>3. ScreeningInv'
  BY <1>2 DEF SendInv, ScreeningInv, ScreeningTypeOK, StoreInv, DecisionInv, ShownInv, Earned,
              Screened
<1>4. FormInv'
  BY <1>1, <1>2 DEF SendInv, FormInv, Form, EmptyForm
<1>5. OwnPaymentsAreScreened'
  <2>1. Screened(i)
    BY <1>1 DEF SendInv, ScreeningInv, ShownInv, Send, CanSend, ImporterVerified
  <2>2. owner[s] = i => Screened(s)
    BY <1>1 DEF SendInv, ScreeningInv, ShownInv, Send, CanSend, SupplierCleared, MySuppliers
  <2> QED
    BY <1>2, <2>1, <2>2 DEF SendInv, OwnPaymentsAreScreened, Screened
<1> QED
  BY <1>3, <1>4, <1>5 DEF SendInv

LEMMA SendPageKeeps == SendInv /\ [SendPageNext]_sendVars => SendInv'
<1> SUFFICES ASSUME SendInv, [SendPageNext]_sendVars PROVE SendInv'
  OBVIOUS
<1>1. CASE ScreeningNext /\ UNCHANGED <<owner, acting, form, payments>>
  <2>1. ScreeningInv' /\ UNCHANGED subjects
    BY <1>1, ScreeningKeeps DEF SendInv
  <2>2. FormInv'
    BY <1>1, <2>1 DEF SendInv, FormInv
  <2>3. approved \subseteq approved'
    BY <1>1, ApprovalLasts DEF SendPageNext
  <2>4. OwnPaymentsAreScreened'
    BY <1>1, <2>3 DEF SendInv, OwnPaymentsAreScreened, Screened
  <2> QED
    BY <2>1, <2>2, <2>4 DEF SendInv
<1>2. ASSUME NEW pg \in SendPages, NEW i \in Importers, SetImporterId(pg, i) PROVE SendInv'
  <2>1. form[pg].supplier \in (Suppliers \intersect subjects) \union {Nobody}
    BY DEF SendInv, FormInv, Form
  <2> QED
    BY <1>2, <2>1, ChosenKeeps DEF SetImporterId
<1>3. ASSUME NEW pg \in SendPages, NEW s \in Suppliers, SelectSupplier(pg, s) PROVE SendInv'
  <2>1. s \in Suppliers \intersect subjects /\ acting[pg] \in Importers \intersect subjects
    BY <1>3 DEF SelectSupplier, MySuppliers, SendInv, FormInv
  <2>2. acting' = [acting EXCEPT ![pg] = acting[pg]]
    BY <1>3 DEF SelectSupplier, SendInv, FormInv
  <2> QED
    BY <1>3, <2>1, <2>2, ChosenKeeps DEF SelectSupplier
<1>4. ASSUME NEW pg \in SendPages, Leave(pg) PROVE SendInv'
  <2>1. ScreeningInv'
    BY <1>4 DEF Leave, screening, SendInv, ScreeningInv, ScreeningTypeOK, StoreInv, DecisionInv,
                ShownInv, Earned, Screened
  <2>2. FormInv' /\ OwnPaymentsAreScreened'
    BY <1>4 DEF Leave, screening, SendInv, FormInv, Form, EmptyForm, OwnPaymentsAreScreened,
                Screened
  <2> QED
    BY <2>1, <2>2 DEF SendInv
<1>5. CASE UNCHANGED sendVars
  BY <1>5 DEF sendVars, screening, SendInv, ScreeningInv, ScreeningTypeOK, StoreInv, DecisionInv,
              ShownInv, FormInv, OwnPaymentsAreScreened, Earned, Screened
<1> QED
  BY <1>1, <1>2, <1>3, <1>4, <1>5, AddSupplierKeeps, SupplierAddedKeeps, SendKeeps DEF SendPageNext

LEMMA SendInvHolds == BrowserSpec => []SendInv
<1>1. BrowserInit => SendInv
  BY SendPageStarts DEF BrowserInit
<1>2. SendInv /\ [BrowserNext]_vars => SendInv'
  BY SendPageKeeps DEF BrowserNext, vars
<1> QED BY <1>1, <1>2, PTL DEF BrowserSpec

\* Every step of the send form and of the screening beneath it keeps the state well
\* formed; in particular a supplier is listed exactly if it belongs to an importer.
THEOREM SendPageTypeCorrect == BrowserSpec => []SendPageTypeOK
<1>1. SendInv => SendPageTypeOK
  BY DEF SendInv, ScreeningInv, FormInv, SendPageTypeOK
<1> QED
  BY <1>1, SendInvHolds, PTL

\* No order of reads, clicks and stale tabs makes compliance.ts show a profile
\* verified that neither the review approved nor its screening cleared.
THEOREM StatusEarned == BrowserSpec => []VerifiedIsEarned
<1>1. SendInv => VerifiedIsEarned
  BY DEF SendInv, ScreeningInv, StoreInv, VerifiedIsEarned, Earned
<1> QED
  BY <1>1, SendInvHolds, PTL

\* No timer of use-profile.ts and no tab that shows an older state undoes what the
\* review page decided last.
THEOREM DecisionsStand == BrowserSpec => []DecisionStands
<1>1. SendInv => DecisionStands
  BY DEF SendInv, ScreeningInv, DecisionInv, DecisionStands
<1> QED
  BY <1>1, SendInvHolds, PTL

\* An importer and a supplier of that importer are both clean or approved when the
\* send form makes a payment between them, however old what its tab shows.
THEOREM OwnPaid == BrowserSpec => []OwnPaymentsAreScreened
<1>1. SendInv => OwnPaymentsAreScreened
  BY DEF SendInv
<1> QED
  BY <1>1, SendInvHolds, PTL

(***************************************************************************)
(* The form that makes a payment.  Its requests, by what they are for, and *)
(* what asking, answering and losing one leaves.                           *)
(***************************************************************************)
RowSet == [importers : Seq(FormImporters), suppliers : [FormImporters -> Seq(FormSuppliers)]]

DraftSet ==
  [importers : Seq(FormImporters), suppliers : Seq(FormSuppliers),
   importer : FormImporters \union {NoId}, supplier : FormSuppliers \union {NoId},
   amount : Amounts \union {0}, timer : Amounts \union {0}, quote : Amounts \union {0},
   busy : BOOLEAN]

IntentSet == [saved : FormSuppliers \union {NoId}, crossed : BOOLEAN]

RequestSet(kinds, args, closures, lists) ==
  [kind : kinds, arg : args, closure : closures, served : BOOLEAN, list : lists]

FormRequests ==
  UNION {RequestSet({"listImporters"}, FormImporters \union {NoId},
                    FormImporters \union {NoId}, Seq(FormImporters)),
         RequestSet({"createImporter"}, FormImporters, FormImporters \union {NoId}, {<<>>}),
         RequestSet({"listSuppliers"}, FormImporters, {"chosen", "saved"}, Seq(FormSuppliers)),
         RequestSet({"createSupplier"}, FormSuppliers, FormImporters, {<<>>}),
         RequestSet({"createQuote"}, Amounts, {NoId}, {<<>>}),
         RequestSet({"createPayment"}, Amounts \union {0}, FormImporters, {<<>>})}

FormTypes ==
  /\ rows \in RowSet /\ draft \in DraftSet /\ intent \in IntentSet
  /\ asked \in Seq(FormRequests) /\ (scene.page = "create" => Len(asked) <= scene.ahead)

LEMMA RequestKinds ==
  ASSUME NEW r \in FormRequests
  PROVE  /\ r \in RequestSet({r.kind}, {r.arg}, {r.closure}, {r.list})
         /\ r.kind \in {"listImporters", "createImporter", "listSuppliers", "createSupplier",
                        "createQuote", "createPayment"}
         /\ r.kind = "listImporters" =>
              /\ {r.arg, r.closure} \subseteq FormImporters \union {NoId}
              /\ r.list \in Seq(FormImporters)
         /\ r.kind = "createImporter" =>
              r.arg \in FormImporters /\ r.closure \in FormImporters \union {NoId}
         /\ r.kind = "listSuppliers" =>
              /\ r.arg \in FormImporters /\ r.closure \in {"chosen", "saved"}
              /\ r.list \in Seq(FormSuppliers)
         /\ r.kind = "createSupplier" => r.arg \in FormSuppliers /\ r.closure \in FormImporters
         /\ r.kind = "createQuote" => r.arg \in Amounts
         /\ r.kind = "createPayment" => r.arg \in Amounts \union {0}
  BY DEF FormRequests, RequestSet

LEMMA AskingIsRequest ==
  /\ \A arg, closure \in FormImporters \union {NoId} :
       Asking("listImporters", arg, closure) \in FormRequests
  /\ \A arg \in FormImporters, closure \in FormImporters \union {NoId} :
       Asking("createImporter", arg, closure) \in FormRequests
  /\ \A arg \in FormImporters, closure \in {"chosen", "saved"} :
       Asking("listSuppliers", arg, closure) \in FormRequests
  /\ \A arg \in FormSuppliers, closure \in FormImporters :
       Asking("createSupplier", arg, closure) \in FormRequests
  /\ \A arg \in Amounts : Asking("createQuote", arg, NoId) \in FormRequests
  /\ \A arg \in Amounts \union {0}, closure \in FormImporters :
       Asking("createPayment", arg, closure) \in FormRequests
<1>1. <<>> \in Seq(FormImporters) /\ <<>> \in Seq(FormSuppliers)
  OBVIOUS
<1> QED BY <1>1 DEF Asking, FormRequests, RequestSet

LEMMA ReverseIsSeq ==
  ASSUME NEW S, NEW s \in Seq(S)
  PROVE  Reverse(s) \in Seq(S)
  BY DEF Reverse

\* A served request is the same request, with its answer.
LEMMA ServedPuts ==
  ASSUME rows \in RowSet, NEW r \in FormRequests
  PROVE  /\ ServedCall(r) \in FormRequests
         /\ ServedCall(r).kind = r.kind /\ ServedCall(r).arg = r.arg
         /\ ServedCall(r).closure = r.closure /\ ServedCall(r).served
         /\ ~http /\ r.kind = "listSuppliers" => ServedCall(r).list = rows.suppliers[r.arg]
         /\ ServedRows(r) \in RowSet
<1>1. PICK list : list = IF r.kind \in {"listImporters", "listSuppliers"} THEN Listed(r) ELSE <<>>
  OBVIOUS
<1>2. /\ r.kind = "listImporters" => DemoListed(r) \in Seq(FormImporters)
      /\ r.kind = "listSuppliers" => DemoListed(r) \in Seq(FormSuppliers)
                                     /\ DemoListed(r) = rows.suppliers[r.arg]
  BY RequestKinds DEF DemoListed, RowSet
<1>3. /\ r.kind = "listImporters" => list \in Seq(FormImporters)
      /\ r.kind = "listSuppliers" => list \in Seq(FormSuppliers)
      /\ ~http /\ r.kind = "listSuppliers" => list = rows.suppliers[r.arg]
      /\ r.kind \notin {"listImporters", "listSuppliers"} => list = <<>>
  BY <1>1, <1>2, ReverseIsSeq DEF Listed, ApiListed
<1>4. ServedCall(r) = [r EXCEPT !.served = TRUE, !.list = list]
  BY <1>1 DEF ServedCall
<1>5. /\ ServedCall(r) \in FormRequests
      /\ ServedCall(r).kind = r.kind /\ ServedCall(r).arg = r.arg
      /\ ServedCall(r).closure = r.closure /\ ServedCall(r).served
      /\ ServedCall(r).list = list
  <2>1. r \in RequestSet({r.kind}, {r.arg}, {r.closure}, {r.list})
    BY RequestKinds
  <2>2. /\ ServedCall(r) \in RequestSet({r.kind}, {r.arg}, {r.closure}, {list})
        /\ ServedCall(r).kind = r.kind /\ ServedCall(r).arg = r.arg
        /\ ServedCall(r).closure = r.closure /\ ServedCall(r).served
        /\ ServedCall(r).list = list
    BY <1>4, <2>1 DEF RequestSet
  <2>3. ServedCall(r) \in FormRequests
    BY <1>3, <2>2 DEF FormRequests, RequestSet
  <2> QED BY <2>2, <2>3
<1>6. ServedRows(r) \in RowSet
  <2>1. CASE r.kind = "createImporter"
    <3>1. PICK new : new = Append(rows.importers, r.arg)
      OBVIOUS
    <3>2. new \in Seq(FormImporters)
      <4>1. r.arg \in FormImporters /\ rows.importers \in Seq(FormImporters)
        BY <2>1, RequestKinds DEF RowSet
      <4> QED BY <3>1, <4>1
    <3>3. ServedRows(r) = [rows EXCEPT !.importers = new]
      BY <2>1, <3>1 DEF ServedRows, ImporterCreated
    <3> QED BY <3>2, <3>3 DEF RowSet
  <2>2. CASE r.kind = "createSupplier"
    <3>1. PICK new : new = Append(rows.suppliers[r.closure], r.arg)
      OBVIOUS
    <3>2. new \in Seq(FormSuppliers)
      <4>1. r.arg \in FormSuppliers /\ rows.suppliers[r.closure] \in Seq(FormSuppliers)
        BY <2>2, RequestKinds DEF RowSet
      <4> QED BY <3>1, <4>1
    <3>3. ServedRows(r) = [rows EXCEPT !.suppliers[r.closure] = new]
      BY <2>2, <3>1 DEF ServedRows, SupplierCreated
    <3> QED BY <3>2, <3>3 DEF RowSet
  <2>3. CASE r.kind \notin {"createImporter", "createSupplier"}
    BY <2>3 DEF ServedRows
  <2> QED BY <2>1, <2>2, <2>3
<1> QED BY <1>3, <1>5, <1>6

\* What is left when one request is taken out.
LEMMA RemovalKeeps ==
  ASSUME NEW S, NEW s \in Seq(S), NEW i \in 1 .. Len(s)
  PROVE  /\ RemoveAt(s, i) \in Seq(S) /\ Len(RemoveAt(s, i)) = Len(s) - 1
         /\ \A j \in 1 .. Len(s) - 1 :
              RemoveAt(s, i)[j] = s[IF j < i THEN j ELSE j + 1]
<1>1. PICK a, b : a = SubSeq(s, 1, i - 1) /\ b = SubSeq(s, i + 1, Len(s))
  OBVIOUS
<1>2. a \in Seq(S) /\ Len(a) = i - 1 /\ \A j \in 1 .. i - 1 : a[j] = s[j]
  BY <1>1
<1>3. b \in Seq(S) /\ Len(b) = Len(s) - i /\ \A j \in 1 .. Len(s) - i : b[j] = s[i + j]
  BY <1>1
<1>4. RemoveAt(s, i) = a \o b
  BY <1>1 DEF RemoveAt
<1>5. /\ a \o b \in Seq(S) /\ Len(a \o b) = Len(a) + Len(b)
      /\ \A j \in 1 .. Len(a) + Len(b) :
           (a \o b)[j] = IF j <= Len(a) THEN a[j] ELSE b[j - Len(a)]
  <2>1. a \in Seq(S) /\ b \in Seq(S)
    BY <1>2, <1>3
  <2> QED BY <2>1
<1>6. ASSUME NEW j \in 1 .. Len(s) - 1
      PROVE  (a \o b)[j] = s[IF j < i THEN j ELSE j + 1]
  <2>1. CASE j < i
    BY <1>2, <1>3, <1>5, <2>1
  <2>2. CASE ~(j < i)
    <3>1. j - Len(a) \in 1 .. Len(s) - i /\ i + (j - Len(a)) = j + 1 /\ ~(j <= Len(a))
      BY <1>2, <2>2
    <3>2. (a \o b)[j] = b[j - Len(a)]
      BY <1>2, <1>3, <1>5, <3>1
    <3> QED BY <1>3, <2>2, <3>1, <3>2
  <2> QED BY <2>1, <2>2
<1> QED BY <1>2, <1>3, <1>4, <1>5, <1>6

\* What a request made, and one that is not made, leave.
LEMMA AsksNothing ==
  ASSUME NEW before \in Seq(FormRequests), AskFor(<<>>, before)
  PROVE  asked' = before /\ UNCHANGED <<rows, tally>> /\ Len(before) <= scene.ahead
<1>1. Len(before) \in Nat /\ before \o <<>> = before
  OBVIOUS
<1>2. Len(before) <= scene.ahead /\ asked' = before \o <<>> /\ UNCHANGED <<rows, tally>>
  BY <1>1 DEF AskFor
<1> QED BY <1>1, <1>2

Sent(r) == IF http THEN r ELSE ServedCall(r)

Puts(before, q) ==
  /\ asked' \in Seq(FormRequests)
  /\ Len(asked') = Len(before) + 1 /\ Len(asked') <= scene.ahead
  /\ \A j \in 1 .. Len(before) : asked'[j] = before[j]
  /\ asked'[Len(before) + 1] = q

LEMMA AsksOne ==
  ASSUME rows \in RowSet, NEW before \in Seq(FormRequests), NEW r \in FormRequests,
         AskFor(<<r>>, before)
  PROVE  /\ Puts(before, Sent(r)) /\ Sent(r) \in FormRequests
         /\ rows' = IF http THEN rows ELSE ServedRows(r)
         /\ tally' = IF http THEN tally ELSE ServedTally(r)
         /\ rows' \in RowSet
<1>1. PICK q \in FormRequests : q = Sent(r)
  BY ServedPuts DEF Sent
<1>2. Len(<<r>>) = 1 /\ <<r>> # <<>> /\ <<r>>[1] = r
  OBVIOUS
<1>3. /\ Len(before) + 1 <= scene.ahead
      /\ asked' = before \o <<q>>
      /\ rows' = IF http THEN rows ELSE ServedRows(r)
      /\ tally' = IF http THEN tally ELSE ServedTally(r)
  BY <1>1, <1>2 DEF AskFor, Sent
<1>4. /\ before \o <<q>> \in Seq(FormRequests) /\ Len(before \o <<q>>) = Len(before) + 1
      /\ \A j \in 1 .. Len(before) : (before \o <<q>>)[j] = before[j]
      /\ (before \o <<q>>)[Len(before) + 1] = q
  BY <1>1
<1>5. Puts(before, q)
  BY <1>3, <1>4 DEF Puts
<1> QED BY <1>1, <1>3, <1>5, ServedPuts

LEMMA FirstAskedIs ==
  ASSUME rows \in RowSet
  PROVE  /\ FirstAsked \in Seq(FormRequests) /\ Len(FirstAsked) = 1
         /\ FirstAsked[1].kind = "listImporters"
         /\ ~http => FirstAsked[1].served
<1>1. PICK r \in FormRequests : r = Asking("listImporters", NoId, NoId)
  BY AskingIsRequest
<1>2. PICK q \in FormRequests : /\ q = IF http THEN r ELSE ServedCall(r)
                                /\ q.kind = "listImporters" /\ (~http => q.served)
  BY <1>1, ServedPuts DEF Asking
<1>3. FirstAsked = <<q>>
  BY <1>1, <1>2 DEF FirstAsked
<1> QED BY <1>2, <1>3

LEMMA FirstAmountIs == FirstAmount \in Amounts /\ FirstAmount > 0
<1>1. PICK a \in Amounts : a # 0
  BY NewPaymentAssumption
<1>2. a > 0
  BY <1>1, NewPaymentAssumption
<1> QED BY <1>2 DEF FirstAmount

LEMMA EmptyDraftIs == EmptyDraft(FirstAmount) \in DraftSet
<1>1. <<>> \in Seq(FormImporters) /\ <<>> \in Seq(FormSuppliers)
  OBVIOUS
<1> QED BY <1>1, FirstAmountIs DEF EmptyDraft, DraftSet

\* The importer is asked for its suppliers when it is another one.
LEMMA SuppliersOfIs ==
  ASSUME NEW i \in FormImporters \union {NoId}
  PROVE  \/ i \in {draft.importer, NoId} /\ SuppliersOf(i) = <<>>
         \/ /\ i \in FormImporters /\ i # draft.importer
            /\ SuppliersOf(i) = <<Asking("listSuppliers", i, "chosen")>>
            /\ Asking("listSuppliers", i, "chosen") \in FormRequests
<1>1. NoId \notin FormImporters
  BY NewPaymentAssumption
<1> QED BY <1>1, AskingIsRequest DEF SuppliersOf

\* The steps of the form, by what they do to its requests.
Asks(r) == AskFor(<<r>>, asked)

LEMMA FormAsks ==
  ASSUME FormTypes
  PROVE  /\ \A i \in FormImporters :
              /\ SelectImporter(i) => /\ Asks(Asking("listSuppliers", i, "chosen"))
                                      /\ Asking("listSuppliers", i, "chosen") \in FormRequests
                                      /\ i # draft.importer
                                      /\ draft' = [draft EXCEPT !.importer = i]
              /\ SaveImporter(i) => /\ Asks(Asking("createImporter", i, draft.importer))
                                    /\ Asking("createImporter", i, draft.importer) \in FormRequests
                                    /\ UNCHANGED <<draft, intent>>
         /\ \A s \in FormSuppliers : SaveSupplier(s) =>
              /\ Asks(Asking("createSupplier", s, draft.importer))
              /\ Asking("createSupplier", s, draft.importer) \in FormRequests
              /\ draft.importer \in FormImporters
              /\ UNCHANGED draft /\ intent' = [intent EXCEPT !.saved = s]
         /\ QuoteTimer => /\ Asks(Asking("createQuote", draft.timer, NoId))
                          /\ Asking("createQuote", draft.timer, NoId) \in FormRequests
                          /\ draft' = [draft EXCEPT !.timer = 0] /\ UNCHANGED intent
         /\ Submit => /\ Asks(Asking("createPayment", draft.quote, draft.importer))
                      /\ Asking("createPayment", draft.quote, draft.importer) \in FormRequests
                      /\ draft' = [draft EXCEPT !.busy = TRUE] /\ UNCHANGED intent
<1>1. draft \in DraftSet /\ NoId \notin FormImporters
  BY NewPaymentAssumption DEF FormTypes
<1>2. draft.quote \in Amounts \union {0} /\ draft.importer \in FormImporters \union {NoId}
  BY <1>1 DEF DraftSet
<1>3. ASSUME NEW i \in FormImporters, SelectImporter(i)
      PROVE  /\ Asks(Asking("listSuppliers", i, "chosen"))
             /\ Asking("listSuppliers", i, "chosen") \in FormRequests
             /\ i # draft.importer
             /\ draft' = [draft EXCEPT !.importer = i]
  BY <1>1, <1>3, SuppliersOfIs DEF SelectImporter, Asks
<1>4. ASSUME NEW i \in FormImporters, SaveImporter(i)
      PROVE  /\ Asks(Asking("createImporter", i, draft.importer))
             /\ Asking("createImporter", i, draft.importer) \in FormRequests
             /\ UNCHANGED <<draft, intent>>
  BY <1>2, <1>4, AskingIsRequest DEF SaveImporter, Asks
<1>5. ASSUME NEW s \in FormSuppliers, SaveSupplier(s)
      PROVE  /\ Asks(Asking("createSupplier", s, draft.importer))
             /\ Asking("createSupplier", s, draft.importer) \in FormRequests
             /\ draft.importer \in FormImporters
             /\ UNCHANGED draft /\ intent' = [intent EXCEPT !.saved = s]
  BY <1>2, <1>5, AskingIsRequest DEF SaveSupplier, Asks
<1>6. QuoteTimer => draft.timer \in Amounts
  BY <1>1 DEF QuoteTimer, DraftSet
<1>7. Submit => draft.importer \in FormImporters
  BY <1>2 DEF Submit, Complete
<1> QED
  BY <1>2, <1>3, <1>4, <1>5, <1>6, <1>7, AskingIsRequest DEF QuoteTimer, Submit, Asks

\* An answered or lost request is taken out.
Without(rest, i) ==
  /\ rest \in Seq(FormRequests) /\ Len(rest) = Len(asked) - 1
  /\ \A j \in 1 .. Len(asked) - 1 : rest[j] = asked[IF j < i THEN j ELSE j + 1]

LEMMA TakenOut ==
  ASSUME FormTypes, NEW i \in DOMAIN asked
  PROVE  /\ i \in 1 .. Len(asked) /\ asked[i] \in FormRequests
         /\ Without(RemoveAt(asked, i), i)
<1>1. asked \in Seq(FormRequests) /\ i \in 1 .. Len(asked)
  BY DEF FormTypes
<1>2. asked[i] \in FormRequests
  BY <1>1
<1>3. PICK rest : rest = RemoveAt(asked, i)
  OBVIOUS
<1>4. /\ rest \in Seq(FormRequests) /\ Len(rest) = Len(asked) - 1
      /\ \A j \in 1 .. Len(asked) - 1 : rest[j] = asked[IF j < i THEN j ELSE j + 1]
  BY <1>1, <1>3, RemovalKeeps
<1> QED BY <1>1, <1>2, <1>3, <1>4 DEF Without

\* What an answer leaves: its request is gone, and at most one follows.
AnsweredWith(rest, q) ==
  /\ Puts(rest, Sent(q)) /\ Sent(q) \in FormRequests /\ q \in FormRequests
  /\ rows' = IF http THEN rows ELSE ServedRows(q)
  /\ tally' = IF http THEN tally ELSE ServedTally(q)
  /\ rows' \in RowSet

JustAnswered(rest) ==
  asked' = rest /\ UNCHANGED <<rows, tally>> /\ Len(asked') <= scene.ahead

LEMMA ImportersAnsweredPuts ==
  ASSUME FormTypes, NEW r \in FormRequests, r.kind = "listImporters",
         NEW rest \in Seq(FormRequests), ImportersAnswered(r, rest)
  PROVE  \E i \in FormImporters \union {NoId} :
           /\ draft' = [draft EXCEPT !.importers = r.list, !.importer = i]
           /\ r.list \in Seq(FormImporters)
           /\ \/ i \in {draft.importer, NoId} /\ JustAnswered(rest)
              \/ i \in FormImporters /\ i # draft.importer
                 /\ AnsweredWith(rest, Asking("listSuppliers", i, "chosen"))
           /\ i = NoId => draft.importer = NoId
           /\ intent' = IF i = draft.importer THEN intent
                        ELSE [saved |-> NoId, crossed |-> SupplierSaving]
<1>1. PICK first : first = IF r.arg = NoId /\ r.list # <<>> THEN r.list[1] ELSE draft.importer
  OBVIOUS
<1>2. PICK i : i = IF r.closure = NoId THEN first ELSE r.closure
  OBVIOUS
<1>3. /\ draft' = [draft EXCEPT !.importers = r.list, !.importer = i]
      /\ AskFor(SuppliersOf(i), rest) /\ Chose(i)
  BY <1>1, <1>2 DEF ImportersAnswered
<1>4. /\ draft.importer \in FormImporters \union {NoId} /\ r.list \in Seq(FormImporters)
      /\ r.closure \in FormImporters \union {NoId} /\ NoId \notin FormImporters
  BY RequestKinds, NewPaymentAssumption DEF FormTypes, DraftSet
<1>5. r.list # <<>> => r.list[1] \in FormImporters
  BY <1>4
<1>6. i \in FormImporters \union {NoId} /\ (i = NoId => draft.importer = NoId)
  BY <1>1, <1>2, <1>4, <1>5
<1>7. \/ i \in {draft.importer, NoId} /\ JustAnswered(rest)
      \/ i \in FormImporters /\ i # draft.importer
         /\ AnsweredWith(rest, Asking("listSuppliers", i, "chosen"))
  <2>1. CASE i \in {draft.importer, NoId} /\ SuppliersOf(i) = <<>>
    BY <1>3, <2>1, AsksNothing DEF JustAnswered
  <2>2. CASE /\ i \in FormImporters /\ i # draft.importer
             /\ SuppliersOf(i) = <<Asking("listSuppliers", i, "chosen")>>
             /\ Asking("listSuppliers", i, "chosen") \in FormRequests
    BY <1>3, <2>2, AsksOne DEF AnsweredWith, FormTypes
  <2> QED BY <1>6, <2>1, <2>2, SuppliersOfIs
<1> QED BY <1>3, <1>4, <1>6, <1>7 DEF Chose

\* The list for a chosen importer, and the one after a save.
LEMMA SuppliersAnsweredPuts ==
  ASSUME FormTypes, NEW r \in FormRequests, r.kind = "listSuppliers",
         NEW rest \in Seq(FormRequests), SuppliersAnswered(r, rest)
  PROVE  \E s \in FormSuppliers \union {NoId} :
           /\ draft' = [draft EXCEPT !.suppliers = r.list, !.supplier = s]
           /\ r.list \in Seq(FormSuppliers) /\ JustAnswered(rest) /\ UNCHANGED intent
           /\ r.list # <<>> => s = r.list[IF r.closure = "chosen" THEN 1 ELSE Len(r.list)]
           /\ r.list = <<>> => s = IF r.closure = "chosen" THEN NoId ELSE draft.supplier
<1>1. PICK s : s = IF r.closure = "chosen" THEN IF r.list = <<>> THEN NoId ELSE r.list[1]
                   ELSE IF r.list = <<>> THEN draft.supplier ELSE Last(r.list)
  OBVIOUS
<1>2. /\ draft' = [draft EXCEPT !.suppliers = r.list, !.supplier = s]
      /\ JustAnswered(rest) /\ UNCHANGED intent
  BY <1>1, AsksNothing DEF SuppliersAnswered, JustAnswered
<1>3. r.list \in Seq(FormSuppliers) /\ draft.supplier \in FormSuppliers \union {NoId}
  BY RequestKinds DEF FormTypes, DraftSet
<1>4. r.list # <<>> => /\ Last(r.list) = r.list[Len(r.list)]
                       /\ r.list[1] \in FormSuppliers /\ r.list[Len(r.list)] \in FormSuppliers
  BY <1>3 DEF Last
<1> QED BY <1>1, <1>2, <1>3, <1>4

\* The other answers.
LEMMA OtherAnsweredPuts ==
  ASSUME FormTypes, NEW r \in FormRequests, NEW rest \in Seq(FormRequests),
         OtherAnswered(r, rest)
  PROVE  \/ /\ r.kind = "createQuote" /\ r.arg \in Amounts
            /\ draft' = [draft EXCEPT !.quote = r.arg]
            /\ JustAnswered(rest) /\ UNCHANGED intent
         \/ /\ r.kind = "createImporter" /\ UNCHANGED <<draft, intent>>
            /\ AnsweredWith(rest, Asking("listImporters", r.closure, r.arg))
         \/ /\ r.kind = "createSupplier" /\ UNCHANGED <<draft, intent>>
            /\ AnsweredWith(rest, Asking("listSuppliers", r.closure, "saved"))
         \/ /\ r.kind = "createPayment" /\ UNCHANGED rows
            /\ draft' = EmptyDraft(FirstAmount) /\ asked' = FirstAsked
            /\ tally' = [tally EXCEPT !.opened = @ + 1]
            /\ intent' = [saved |-> NoId, crossed |-> FALSE]
<1>1. CASE r.kind = "createQuote"
  BY <1>1, AsksNothing, RequestKinds DEF OtherAnswered, QuoteFor, JustAnswered
<1>2. CASE r.kind = "createImporter"
  <2>1. Asking("listImporters", r.closure, r.arg) \in FormRequests
    BY <1>2, RequestKinds, AskingIsRequest
  <2> QED BY <1>2, <2>1, AsksOne DEF OtherAnswered, AnsweredWith, FormTypes
<1>3. CASE r.kind = "createSupplier"
  <2>1. Asking("listSuppliers", r.closure, "saved") \in FormRequests
    BY <1>3, RequestKinds, AskingIsRequest
  <2> QED BY <1>3, <2>1, AsksOne DEF OtherAnswered, AnsweredWith, FormTypes
<1>4. CASE r.kind = "createPayment"
  BY <1>4 DEF OtherAnswered
<1> QED BY <1>1, <1>2, <1>3, <1>4 DEF OtherAnswered

LEMMA ServePuts ==
  ASSUME FormTypes, NEW i, FormServe(i)
  PROVE  /\ i \in 1 .. Len(asked) /\ asked[i] \in FormRequests /\ ~asked[i].served
         /\ asked' \in Seq(FormRequests) /\ Len(asked') = Len(asked)
         /\ \A j \in 1 .. Len(asked) : j # i => asked'[j] = asked[j]
         /\ asked'[i].kind = asked[i].kind /\ asked'[i].served
         /\ http /\ rows' \in RowSet /\ UNCHANGED <<draft, intent>>
         /\ tally' = ServedTally(asked[i])
<1>1. /\ http /\ i \in 1 .. Len(asked) /\ ~asked[i].served /\ asked \in Seq(FormRequests)
      /\ asked' = [asked EXCEPT ![i] = ServedCall(asked[i])]
      /\ rows' = ServedRows(asked[i]) /\ tally' = ServedTally(asked[i])
      /\ UNCHANGED <<draft, intent>> /\ rows \in RowSet
  BY DEF FormServe, FormTypes
<1>2. asked[i] \in FormRequests
  BY <1>1
<1>3. PICK q \in FormRequests : q = ServedCall(asked[i]) /\ q.kind = asked[i].kind /\ q.served
  BY <1>1, <1>2, ServedPuts
<1>4. /\ asked' \in Seq(FormRequests) /\ Len(asked') = Len(asked) /\ asked'[i] = q
      /\ \A j \in 1 .. Len(asked) : j # i => asked'[j] = asked[j]
  BY <1>1, <1>3
<1>5. rows' \in RowSet
  BY <1>1, <1>2, ServedPuts
<1> QED BY <1>1, <1>2, <1>3, <1>4, <1>5

LEMMA LosePuts ==
  ASSUME FormTypes, NEW i, FormLose(i)
  PROVE  /\ i \in 1 .. Len(asked) /\ asked[i] \in FormRequests
         /\ Without(asked', i) /\ UNCHANGED <<rows, intent>> /\ http
         /\ draft' = [draft EXCEPT !.busy = @ /\ asked[i].kind # "createPayment"]
         /\ tally.failed < MaxDropped /\ tally' = [tally EXCEPT !.failed = @ + 1]
<1>1. i \in DOMAIN asked /\ asked' = RemoveAt(asked, i)
  BY DEF FormLose
<1>2. PICK rest : rest = RemoveAt(asked, i)
  OBVIOUS
<1>3. Without(rest, i) /\ i \in 1 .. Len(asked) /\ asked[i] \in FormRequests
  BY <1>1, <1>2, TakenOut
<1> QED BY <1>1, <1>2, <1>3 DEF FormLose, Without

\* An answered request, and what follows it.
FollowsAnswer(r, rest) ==
  \/ r.kind = "listImporters" /\ ImportersAnswered(r, rest)
  \/ r.kind = "listSuppliers" /\ SuppliersAnswered(r, rest)
  \/ r.kind \notin {"listImporters", "listSuppliers"} /\ OtherAnswered(r, rest)

LEMMA AnswerTakes ==
  ASSUME FormTypes, NEW i, FormAnswer(i)
  PROVE  \E r \in FormRequests, rest \in Seq(FormRequests) :
           /\ i \in 1 .. Len(asked) /\ r = asked[i] /\ r.served /\ (~http => i = 1)
           /\ Without(rest, i) /\ FollowsAnswer(r, rest)
<1>1. i \in DOMAIN asked
  BY DEF FormAnswer
<1>2. PICK r, rest : r = asked[i] /\ rest = RemoveAt(asked, i)
  OBVIOUS
<1>3. /\ i \in 1 .. Len(asked) /\ r \in FormRequests /\ Without(rest, i)
      /\ rest \in Seq(FormRequests)
  BY <1>1, <1>2, TakenOut DEF Without
<1>4. FollowsAnswer(r, rest) /\ r.served /\ (~http => i = 1)
  BY <1>2 DEF FormAnswer, FollowsAnswer
<1> QED BY <1>2, <1>3, <1>4

LEMMA FormTypesKeep ==
  ASSUME FormTypes, scene.page = "create", scene.ahead \in Nat \ {0}, UNCHANGED scene, CreateNext
  PROVE  FormTypes'
<1>t. /\ rows \in RowSet /\ draft \in DraftSet /\ intent \in IntentSet
      /\ asked \in Seq(FormRequests) /\ Len(asked) <= scene.ahead
  BY DEF FormTypes
<1>1. ASSUME rows' \in RowSet, asked' \in Seq(FormRequests), Len(asked') <= scene.ahead,
             draft' \in DraftSet, intent' \in IntentSet
      PROVE  FormTypes'
  BY <1>1 DEF FormTypes
<1>2. ASSUME NEW r \in FormRequests, Asks(r), draft' \in DraftSet, intent' \in IntentSet
      PROVE  FormTypes'
  <2>1. Puts(asked, Sent(r)) /\ rows' \in RowSet
    BY <1>2, <1>t, AsksOne DEF Asks
  <2> QED BY <1>1, <1>2, <2>1 DEF Puts
<1>3. ASSUME NEW i \in FormImporters, SelectImporter(i) PROVE FormTypes'
  <2>1. draft' \in DraftSet /\ intent' \in IntentSet
    <3>1. SupplierSaving \in BOOLEAN
      BY DEF SupplierSaving
    <3> QED BY <1>3, <1>t, <3>1, FormAsks DEF SelectImporter, Chose, DraftSet, IntentSet
  <2> QED BY <1>2, <1>3, <2>1, FormAsks
<1>4. ASSUME NEW i \in FormImporters, SaveImporter(i) PROVE FormTypes'
  BY <1>2, <1>4, <1>t, FormAsks
<1>5. ASSUME NEW s \in FormSuppliers, SelectPayee(s) PROVE FormTypes'
  <2>1. draft' \in DraftSet /\ intent' \in IntentSet /\ UNCHANGED <<rows, asked>>
    BY <1>5, <1>t DEF SelectPayee, DraftSet, IntentSet
  <2> QED BY <1>1, <1>t, <2>1
<1>6. ASSUME NEW s \in FormSuppliers, SaveSupplier(s) PROVE FormTypes'
  <2>1. draft' \in DraftSet /\ intent' \in IntentSet
    BY <1>6, <1>t, FormAsks DEF IntentSet
  <2> QED BY <1>2, <1>6, <2>1, FormAsks
<1>7. ASSUME NEW a \in Amounts, TypeAmount(a) PROVE FormTypes'
  <2>1. draft' \in DraftSet /\ UNCHANGED <<rows, asked, intent>>
    BY <1>7, <1>t DEF TypeAmount, DraftSet
  <2> QED BY <1>1, <1>t, <2>1
<1>8. CASE QuoteTimer
  <2>1. draft' \in DraftSet /\ UNCHANGED intent
    BY <1>8, <1>t, FormAsks DEF DraftSet
  <2> QED BY <1>2, <1>8, <1>t, <2>1, FormAsks
<1>9. CASE Submit
  <2>1. draft' \in DraftSet /\ UNCHANGED intent
    BY <1>9, <1>t, FormAsks DEF DraftSet
  <2> QED BY <1>2, <1>9, <1>t, <2>1, FormAsks
<1>10. ASSUME NEW i, FormAnswer(i) PROVE FormTypes'
  <2>1. PICK r \in FormRequests, rest \in Seq(FormRequests) :
          Without(rest, i) /\ FollowsAnswer(r, rest)
    BY <1>10, AnswerTakes
  <2>2. ASSUME JustAnswered(rest), draft' \in DraftSet, intent' \in IntentSet PROVE FormTypes'
    BY <1>1, <1>t, <2>2 DEF JustAnswered
  <2>3. ASSUME NEW q, AnsweredWith(rest, q), draft' \in DraftSet, intent' \in IntentSet
        PROVE  FormTypes'
    BY <1>1, <2>3 DEF AnsweredWith, Puts
  <2>4. CASE r.kind = "listImporters" /\ ImportersAnswered(r, rest)
    <3>1. PICK i1 \in FormImporters \union {NoId} :
            /\ draft' = [draft EXCEPT !.importers = r.list, !.importer = i1]
            /\ r.list \in Seq(FormImporters)
            /\ JustAnswered(rest) \/ AnsweredWith(rest, Asking("listSuppliers", i1, "chosen"))
            /\ intent' \in {intent, [saved |-> NoId, crossed |-> SupplierSaving]}
      BY <2>4, ImportersAnsweredPuts
    <3>2. draft' \in DraftSet
      BY <1>t, <3>1 DEF DraftSet
    <3>3. intent' \in IntentSet
      <4>1. SupplierSaving \in BOOLEAN
        BY DEF SupplierSaving
      <4> QED BY <1>t, <3>1, <4>1 DEF IntentSet
    <3> QED BY <2>2, <2>3, <3>1, <3>2, <3>3
  <2>5. CASE r.kind = "listSuppliers" /\ SuppliersAnswered(r, rest)
    <3>1. PICK s \in FormSuppliers \union {NoId} :
            /\ draft' = [draft EXCEPT !.suppliers = r.list, !.supplier = s]
            /\ r.list \in Seq(FormSuppliers) /\ JustAnswered(rest) /\ UNCHANGED intent
      BY <2>5, SuppliersAnsweredPuts
    <3>2. draft' \in DraftSet
      BY <1>t, <3>1 DEF DraftSet
    <3> QED BY <1>t, <2>2, <3>1, <3>2
  <2>6. CASE OtherAnswered(r, rest)
    <3>1. CASE /\ r.kind = "createQuote" /\ r.arg \in Amounts
               /\ draft' = [draft EXCEPT !.quote = r.arg]
               /\ JustAnswered(rest) /\ UNCHANGED intent
      <4>1. draft' \in DraftSet
        BY <1>t, <3>1 DEF DraftSet
      <4> QED BY <1>t, <2>2, <3>1, <4>1
    <3>2. CASE UNCHANGED <<draft, intent>> /\ \E q : AnsweredWith(rest, q)
      BY <1>t, <2>3, <3>2
    <3>3. CASE /\ UNCHANGED rows
               /\ draft' = EmptyDraft(FirstAmount) /\ asked' = FirstAsked
               /\ intent' = [saved |-> NoId, crossed |-> FALSE]
      <4>1. draft' \in DraftSet /\ intent' \in IntentSet
        BY <3>3, EmptyDraftIs DEF IntentSet
      <4>2. asked' \in Seq(FormRequests) /\ Len(asked') = 1 /\ 1 <= scene.ahead
        BY <1>t, <3>3, FirstAskedIs
      <4> QED BY <1>1, <1>t, <3>3, <4>1, <4>2
    <3> QED BY <2>6, <3>1, <3>2, <3>3, OtherAnsweredPuts
  <2> QED BY <2>1, <2>4, <2>5, <2>6 DEF FollowsAnswer
<1>11. ASSUME NEW i, FormServe(i) PROVE FormTypes'
  BY <1>1, <1>11, <1>t, ServePuts
<1>12. ASSUME NEW i, FormLose(i) PROVE FormTypes'
  <2>1. draft' \in DraftSet /\ Without(asked', i) /\ UNCHANGED <<rows, intent>>
    BY <1>12, <1>t, LosePuts DEF DraftSet
  <2>2. Len(asked') <= scene.ahead /\ asked' \in Seq(FormRequests)
    <3>1. Len(asked') = Len(asked) - 1 /\ Len(asked) \in Nat
      BY <1>t, <2>1 DEF Without
    <3> QED BY <1>t, <2>1, <3>1 DEF Without
  <2> QED BY <1>1, <1>t, <2>1, <2>2
<1> QED
  BY <1>3, <1>4, <1>5, <1>6, <1>7, <1>8, <1>9, <1>10, <1>11, <1>12 DEF CreateNext

(***************************************************************************)
(* A click pays once.  At most one payment is on its way, and only while   *)
(* the button is switched off; it counts as made once it is served, and as *)
(* opened or failed once its answer is there or lost.                      *)
(***************************************************************************)
OnePays(s) ==
  \A i, j \in 1 .. Len(s) : s[i].kind = "createPayment" /\ s[j].kind = "createPayment" => i = j

Pays(s) == \E i \in 1 .. Len(s) : s[i].kind = "createPayment"

PaidFor(s) == \E i \in 1 .. Len(s) : s[i].kind = "createPayment" /\ s[i].served

Paying(s, busy, t) ==
  /\ t \in [made : 0 .. MaxMade, opened : Nat, failed : 0 .. MaxDropped]
  /\ OnePays(s) /\ (Pays(s) => busy)
  /\ Pays(s) /\ ~PaidFor(s) => t.made < MaxMade
  /\ IF PaidFor(s)
     THEN t.opened + 1 <= t.made /\ t.made <= t.opened + t.failed + 1
     ELSE t.opened <= t.made /\ t.made <= t.opened + t.failed

PayingInv == Paying(asked, draft.busy, tally)

\* What requests are paid for when one is added, taken out or served.
LEMMA PaysWithOneMore ==
  ASSUME NEW s \in Seq(FormRequests), NEW t \in Seq(FormRequests), NEW q,
         Len(t) = Len(s) + 1, \A j \in 1 .. Len(s) : t[j] = s[j], t[Len(s) + 1] = q
  PROVE  /\ Pays(t) <=> Pays(s) \/ q.kind = "createPayment"
         /\ PaidFor(t) <=> PaidFor(s) \/ (q.kind = "createPayment" /\ q.served)
         /\ OnePays(s) /\ (q.kind = "createPayment" => ~Pays(s)) => OnePays(t)
<1>1. Len(s) \in Nat /\ \A j : j \in 1 .. Len(t) <=> j \in 1 .. Len(s) \/ j = Len(s) + 1
  OBVIOUS
<1>2. Pays(t) <=> Pays(s) \/ q.kind = "createPayment"
  BY <1>1 DEF Pays
<1>3. PaidFor(t) <=> PaidFor(s) \/ (q.kind = "createPayment" /\ q.served)
  BY <1>1 DEF PaidFor
<1>4. OnePays(s) /\ (q.kind = "createPayment" => ~Pays(s)) => OnePays(t)
  BY <1>1 DEF OnePays, Pays
<1> QED BY <1>2, <1>3, <1>4

LEMMA PaysWithOneLess ==
  ASSUME NEW s \in Seq(FormRequests), NEW t \in Seq(FormRequests), NEW i \in 1 .. Len(s),
         Len(t) = Len(s) - 1, OnePays(s),
         \A j \in 1 .. Len(s) - 1 : t[j] = s[IF j < i THEN j ELSE j + 1]
  PROVE  /\ OnePays(t)
         /\ s[i].kind = "createPayment" => ~Pays(t) /\ ~PaidFor(t) /\ (PaidFor(s) <=> s[i].served)
         /\ s[i].kind # "createPayment" => (Pays(t) <=> Pays(s)) /\ (PaidFor(t) <=> PaidFor(s))
<1> DEFINE From(j) == IF j < i THEN j ELSE j + 1
           To(j) == IF j < i THEN j ELSE j - 1
<1>1. \A j \in 1 .. Len(t) : From(j) \in 1 .. Len(s) /\ From(j) # i /\ t[j] = s[From(j)]
  OBVIOUS
<1>2. \A j, k \in 1 .. Len(t) : From(j) = From(k) => j = k
  OBVIOUS
<1>3. \A j \in 1 .. Len(s) : j # i => To(j) \in 1 .. Len(t) /\ t[To(j)] = s[j]
  <2>1. \A j \in 1 .. Len(s) : j # i => To(j) \in 1 .. Len(t) /\ From(To(j)) = j
    OBVIOUS
  <2> QED BY <1>1, <2>1
<1> HIDE DEF From, To
<1>4. OnePays(t)
  BY <1>1, <1>2 DEF OnePays
<1>5. s[i].kind = "createPayment" => ~Pays(t) /\ ~PaidFor(t) /\ (PaidFor(s) <=> s[i].served)
  BY <1>1 DEF OnePays, Pays, PaidFor
<1>6. s[i].kind # "createPayment" => (Pays(t) <=> Pays(s)) /\ (PaidFor(t) <=> PaidFor(s))
  BY <1>1, <1>3 DEF Pays, PaidFor
<1> QED BY <1>4, <1>5, <1>6

LEMMA PaysWithOneServed ==
  ASSUME NEW s \in Seq(FormRequests), NEW t \in Seq(FormRequests), NEW i \in 1 .. Len(s),
         Len(t) = Len(s), \A j \in 1 .. Len(s) : j # i => t[j] = s[j],
         t[i].kind = s[i].kind, t[i].served, ~s[i].served, OnePays(s)
  PROVE  /\ OnePays(t) /\ (Pays(t) <=> Pays(s))
         /\ s[i].kind = "createPayment" => Pays(s) /\ ~PaidFor(s) /\ PaidFor(t)
         /\ s[i].kind # "createPayment" => (PaidFor(t) <=> PaidFor(s))
<1>1. \A j \in 1 .. Len(s) : t[j].kind = s[j].kind
  OBVIOUS
<1>2. OnePays(t)
  BY <1>1 DEF OnePays
<1>3. Pays(t) <=> Pays(s)
  BY <1>1 DEF Pays
<1>4. s[i].kind = "createPayment" => Pays(s) /\ ~PaidFor(s) /\ PaidFor(t)
  BY <1>1 DEF OnePays, Pays, PaidFor
<1>5. s[i].kind # "createPayment" => (PaidFor(t) <=> PaidFor(s))
  BY <1>1 DEF PaidFor
<1> QED BY <1>2, <1>3, <1>4, <1>5

LEMMA PayingKept ==
  ASSUME FormTypes, scene.page = "create", PayingInv, CreateNext
  PROVE  PayingInv'
<1>t. /\ rows \in RowSet /\ draft \in DraftSet /\ asked \in Seq(FormRequests)
  BY DEF FormTypes
<1>p. PICK n : /\ n = tally /\ n \in [made : 0 .. MaxMade, opened : Nat, failed : 0 .. MaxDropped]
               /\ Paying(asked, draft.busy, n)
  BY DEF PayingInv, Paying
<1>m. MaxMade \in Nat /\ MaxDropped \in Nat
  BY NewPaymentAssumption
<1>1. ASSUME NEW s, NEW b, NEW t, asked' = s, draft'.busy = b, tally' = t, Paying(s, b, t)
      PROVE  PayingInv'
  BY <1>1 DEF PayingInv, Paying, OnePays, Pays, PaidFor
\* The payments asked for are the same.
<1>2. ASSUME NEW s, asked' = s, UNCHANGED tally, draft'.busy = draft.busy, OnePays(s),
             Pays(s) <=> Pays(asked), PaidFor(s) <=> PaidFor(asked)
      PROVE  PayingInv'
  <2>1. Paying(s, draft.busy, n)
    BY <1>2, <1>p DEF Paying
  <2> QED BY <1>1, <1>2, <1>p, <2>1
<1>3. ASSUME NEW before \in Seq(FormRequests), NEW q \in FormRequests, Puts(before, q),
             q.kind # "createPayment", UNCHANGED tally, draft'.busy = draft.busy,
             OnePays(before), Pays(before) <=> Pays(asked), PaidFor(before) <=> PaidFor(asked)
      PROVE  PayingInv'
  <2>1. PICK s : s = asked'
    OBVIOUS
  <2>2. /\ s \in Seq(FormRequests) /\ Len(s) = Len(before) + 1
        /\ \A j \in 1 .. Len(before) : s[j] = before[j]
        /\ s[Len(before) + 1] = q
    BY <1>3, <2>1 DEF Puts
  <2>3. OnePays(s) /\ (Pays(s) <=> Pays(before)) /\ (PaidFor(s) <=> PaidFor(before))
    BY <1>3, <2>2, PaysWithOneMore
  <2> QED BY <1>2, <1>3, <2>1, <2>3
<1>4. ASSUME NEW r \in FormRequests, r.kind # "createPayment"
      PROVE  /\ Sent(r) \in FormRequests /\ Sent(r).kind # "createPayment"
             /\ ServedTally(r) = tally
  BY <1>4, <1>t, ServedPuts DEF Sent, ServedTally
<1>5. ASSUME NEW r \in FormRequests, Asks(r), r.kind # "createPayment", draft'.busy = draft.busy
      PROVE  PayingInv'
  <2>1. Puts(asked, Sent(r)) /\ UNCHANGED tally
    BY <1>4, <1>5, <1>t, AsksOne DEF Asks
  <2>2. OnePays(asked)
    BY <1>p DEF Paying
  <2> QED BY <1>3, <1>4, <1>5, <1>t, <2>1, <2>2
<1>6. /\ \A i \in FormImporters : SelectImporter(i) \/ SaveImporter(i) => PayingInv'
      /\ \A s \in FormSuppliers : SaveSupplier(s) => PayingInv'
      /\ QuoteTimer => PayingInv'
  <2>1. ASSUME NEW i \in FormImporters, SelectImporter(i) PROVE PayingInv'
    <3>1. draft'.busy = draft.busy
      BY <1>t, <2>1, FormAsks DEF DraftSet
    <3>2. Asking("listSuppliers", i, "chosen").kind = "listSuppliers"
      BY DEF Asking
    <3> QED BY <1>5, <2>1, <3>1, <3>2, FormAsks
  <2>2. ASSUME NEW i \in FormImporters, SaveImporter(i) PROVE PayingInv'
    <3>1. Asking("createImporter", i, draft.importer).kind = "createImporter"
      BY DEF Asking
    <3>2. draft'.busy = draft.busy
      BY <2>2, FormAsks
    <3> QED BY <1>5, <2>2, <3>1, <3>2, FormAsks
  <2>3. ASSUME NEW s \in FormSuppliers, SaveSupplier(s) PROVE PayingInv'
    <3>1. Asking("createSupplier", s, draft.importer).kind = "createSupplier"
      BY DEF Asking
    <3>2. draft'.busy = draft.busy
      BY <2>3, FormAsks
    <3> QED BY <1>5, <2>3, <3>1, <3>2, FormAsks
  <2>4. ASSUME QuoteTimer PROVE PayingInv'
    <3>1. Asking("createQuote", draft.timer, NoId).kind = "createQuote"
      BY DEF Asking
    <3>2. draft'.busy = draft.busy
      BY <1>t, <2>4, FormAsks DEF DraftSet
    <3> QED BY <1>5, <2>4, <3>1, <3>2, FormAsks
  <2> QED BY <2>1, <2>2, <2>3, <2>4
<1>7. /\ \A s \in FormSuppliers : SelectPayee(s) => PayingInv'
      /\ \A a \in Amounts : TypeAmount(a) => PayingInv'
  <2>1. ASSUME UNCHANGED <<asked, tally>>, draft'.busy = draft.busy PROVE PayingInv'
    BY <1>p, <1>2, <2>1 DEF Paying
  <2>2. ASSUME NEW s \in FormSuppliers, SelectPayee(s) PROVE draft'.busy = draft.busy
    BY <1>t, <2>2 DEF SelectPayee, DraftSet
  <2>3. ASSUME NEW a \in Amounts, TypeAmount(a) PROVE draft'.busy = draft.busy
    BY <1>t, <2>3 DEF TypeAmount, DraftSet
  <2> QED BY <2>1, <2>2, <2>3 DEF SelectPayee, TypeAmount
<1>8. ASSUME Submit PROVE PayingInv'
  <2>1. PICK r \in FormRequests : /\ r.kind = "createPayment" /\ ~r.served /\ Asks(r)
                                  /\ draft' = [draft EXCEPT !.busy = TRUE]
    <3>1. /\ Asking("createPayment", draft.quote, draft.importer).kind = "createPayment"
          /\ ~Asking("createPayment", draft.quote, draft.importer).served
      BY DEF Asking
    <3> QED BY <1>8, <3>1, FormAsks
  <2>2. /\ Puts(asked, Sent(r)) /\ Sent(r) \in FormRequests /\ Sent(r).kind = "createPayment"
        /\ Sent(r).served <=> ~http
        /\ tally' = IF http THEN n ELSE [n EXCEPT !.made = @ + 1]
    BY <1>p, <1>t, <2>1, AsksOne, ServedPuts DEF Asks, Sent, ServedTally
  <2>3. PICK q \in FormRequests : q = Sent(r)
    BY <2>2
  <2>4. PICK s : s = asked'
    OBVIOUS
  <2>5. /\ s \in Seq(FormRequests) /\ Len(s) = Len(asked) + 1
        /\ \A j \in 1 .. Len(asked) : s[j] = asked[j]
        /\ s[Len(asked) + 1] = q
    BY <2>2, <2>3, <2>4 DEF Puts
  <2>6. ~Pays(asked) /\ ~PaidFor(asked) /\ OnePays(asked) /\ n.made < MaxMade
    BY <1>8, <1>p DEF Submit, Paying, Pays, PaidFor
  <2>7. OnePays(s) /\ (PaidFor(s) <=> ~http)
    BY <1>t, <2>2, <2>3, <2>5, <2>6, PaysWithOneMore
  <2>8. n.opened <= n.made /\ n.made <= n.opened + n.failed
    BY <1>p, <2>6 DEF Paying
  <2>9. PICK t : t = tally'
    OBVIOUS
  <2>10. Paying(s, TRUE, t)
    <3>1. CASE http
      BY <1>p, <1>m, <2>2, <2>6, <2>7, <2>8, <2>9, <3>1 DEF Paying
    <3>2. CASE ~http
      BY <1>p, <1>m, <2>2, <2>6, <2>7, <2>8, <2>9, <3>2 DEF Paying
    <3> QED BY <3>1, <3>2
  <2>11. draft'.busy = TRUE
    BY <1>t, <2>1 DEF DraftSet
  <2> QED BY <1>1, <2>4, <2>9, <2>10, <2>11
\* The requests but one, which does not pay.
<1>9. ASSUME NEW rest \in Seq(FormRequests), NEW i \in 1 .. Len(asked), Without(rest, i)
      PROVE  /\ OnePays(rest)
             /\ asked[i].kind = "createPayment" =>
                  ~Pays(rest) /\ ~PaidFor(rest) /\ (PaidFor(asked) <=> asked[i].served)
             /\ asked[i].kind # "createPayment" =>
                  (Pays(rest) <=> Pays(asked)) /\ (PaidFor(rest) <=> PaidFor(asked))
  <2>1. OnePays(asked)
    BY <1>p DEF Paying
  <2> QED BY <1>9, <1>t, <2>1, PaysWithOneLess DEF Without
<1>10. ASSUME NEW i, FormAnswer(i) PROVE PayingInv'
  <2>1. PICK r \in FormRequests, rest \in Seq(FormRequests) :
          /\ i \in 1 .. Len(asked) /\ r = asked[i] /\ r.served
          /\ Without(rest, i) /\ FollowsAnswer(r, rest)
    BY <1>10, AnswerTakes
  <2>2. ASSUME JustAnswered(rest), r.kind # "createPayment", draft'.busy = draft.busy
        PROVE  PayingInv'
    BY <1>2, <1>9, <2>1, <2>2 DEF JustAnswered
  <2>3. ASSUME NEW q, AnsweredWith(rest, q), q.kind # "createPayment",
               r.kind # "createPayment", draft'.busy = draft.busy
        PROVE  PayingInv'
    <3>1. /\ Puts(rest, Sent(q)) /\ Sent(q) \in FormRequests /\ q \in FormRequests
          /\ Sent(q).kind # "createPayment" /\ UNCHANGED tally
      BY <1>4, <2>3 DEF AnsweredWith
    <3> QED BY <1>3, <1>9, <2>1, <2>3, <3>1
  <2>4. CASE r.kind = "listImporters" /\ ImportersAnswered(r, rest)
    <3>1. PICK i1 \in FormImporters \union {NoId} :
            /\ draft' = [draft EXCEPT !.importers = r.list, !.importer = i1]
            /\ JustAnswered(rest) \/ AnsweredWith(rest, Asking("listSuppliers", i1, "chosen"))
      BY <2>4, ImportersAnsweredPuts
    <3>2. draft'.busy = draft.busy
      BY <1>t, <3>1 DEF DraftSet
    <3>3. Asking("listSuppliers", i1, "chosen").kind = "listSuppliers"
      BY DEF Asking
    <3> QED BY <2>2, <2>3, <2>4, <3>1, <3>2, <3>3
  <2>5. CASE r.kind = "listSuppliers" /\ SuppliersAnswered(r, rest)
    <3>1. PICK s : /\ draft' = [draft EXCEPT !.suppliers = r.list, !.supplier = s]
                   /\ JustAnswered(rest)
      BY <2>5, SuppliersAnsweredPuts
    <3>2. draft'.busy = draft.busy
      BY <1>t, <3>1 DEF DraftSet
    <3> QED BY <2>2, <2>5, <3>1, <3>2
  <2>6. CASE OtherAnswered(r, rest)
    <3>1. CASE /\ r.kind = "createQuote" /\ JustAnswered(rest)
               /\ draft' = [draft EXCEPT !.quote = r.arg]
      <4>1. draft'.busy = draft.busy
        BY <1>t, <3>1 DEF DraftSet
      <4> QED BY <2>2, <3>1, <4>1
    <3>2. CASE /\ r.kind # "createPayment" /\ UNCHANGED draft
               /\ \E q : q.kind # "createPayment" /\ AnsweredWith(rest, q)
      <4>1. draft'.busy = draft.busy
        BY <3>2
      <4> QED BY <2>3, <3>2, <4>1
    <3>3. CASE /\ r.kind = "createPayment" /\ draft' = EmptyDraft(FirstAmount)
               /\ asked' = FirstAsked /\ tally' = [tally EXCEPT !.opened = @ + 1]
      <4>1. Pays(asked) /\ PaidFor(asked)
        BY <2>1, <3>3 DEF Pays, PaidFor
      <4>2. PICK s \in Seq(FormRequests) : s = asked' /\ Len(s) = 1 /\ s[1].kind = "listImporters"
        BY <1>t, <3>3, FirstAskedIs
      <4>3. OnePays(s) /\ ~Pays(s) /\ ~PaidFor(s)
        BY <4>2 DEF OnePays, Pays, PaidFor
      <4>4. PICK t : t = [n EXCEPT !.opened = @ + 1]
        OBVIOUS
      <4>5. n.opened + 1 <= n.made /\ n.made <= n.opened + n.failed + 1
        BY <1>p, <4>1 DEF Paying
      <4>6. Paying(s, FALSE, t)
        BY <1>p, <1>m, <4>3, <4>4, <4>5 DEF Paying
      <4>7. draft'.busy = FALSE
        BY <3>3 DEF EmptyDraft
      <4> QED BY <1>1, <1>p, <3>3, <4>2, <4>4, <4>6, <4>7
    <3>4. \/ /\ r.kind = "createQuote" /\ JustAnswered(rest)
             /\ draft' = [draft EXCEPT !.quote = r.arg]
          \/ /\ r.kind # "createPayment" /\ UNCHANGED draft
             /\ \E q : q.kind # "createPayment" /\ AnsweredWith(rest, q)
          \/ /\ r.kind = "createPayment" /\ draft' = EmptyDraft(FirstAmount)
             /\ asked' = FirstAsked /\ tally' = [tally EXCEPT !.opened = @ + 1]
      <4>1. /\ Asking("listImporters", r.closure, r.arg).kind = "listImporters"
            /\ Asking("listSuppliers", r.closure, "saved").kind = "listSuppliers"
        BY DEF Asking
      <4> QED BY <2>6, <4>1, OtherAnsweredPuts
    <3> QED BY <3>1, <3>2, <3>3, <3>4
  <2> QED BY <2>1, <2>4, <2>5, <2>6 DEF FollowsAnswer
<1>11. ASSUME NEW i, FormServe(i) PROVE PayingInv'
  <2>1. PICK s : s = asked'
    OBVIOUS
  <2>2. /\ i \in 1 .. Len(asked) /\ ~asked[i].served
        /\ s \in Seq(FormRequests) /\ Len(s) = Len(asked)
        /\ \A j \in 1 .. Len(asked) : j # i => s[j] = asked[j]
        /\ s[i].kind = asked[i].kind /\ s[i].served
        /\ UNCHANGED draft /\ tally' = ServedTally(asked[i])
    BY <1>11, <2>1, ServePuts
  <2>3. OnePays(asked)
    BY <1>p DEF Paying
  <2>4. /\ OnePays(s) /\ (Pays(s) <=> Pays(asked))
        /\ asked[i].kind = "createPayment" => Pays(asked) /\ ~PaidFor(asked) /\ PaidFor(s)
        /\ asked[i].kind # "createPayment" => (PaidFor(s) <=> PaidFor(asked))
    BY <1>t, <2>2, <2>3, PaysWithOneServed
  <2>5. CASE asked[i].kind # "createPayment"
    <3>1. UNCHANGED tally
      BY <2>2, <2>5 DEF ServedTally
    <3> QED BY <1>2, <2>1, <2>2, <2>4, <2>5, <3>1
  <2>6. CASE asked[i].kind = "createPayment"
    <3>1. PICK t : t = [n EXCEPT !.made = @ + 1]
      OBVIOUS
    <3>2. tally' = t
      BY <1>p, <2>2, <2>6, <3>1 DEF ServedTally
    <3>3. /\ n.made < MaxMade /\ n.opened <= n.made /\ n.made <= n.opened + n.failed
          /\ draft.busy
      BY <1>p, <2>4, <2>6 DEF Paying
    <3>4. Paying(s, draft.busy, t)
      BY <1>p, <1>m, <2>4, <2>6, <3>1, <3>3 DEF Paying
    <3> QED BY <1>1, <2>1, <2>2, <3>2, <3>4
  <2> QED BY <2>5, <2>6
<1>12. ASSUME NEW i, FormLose(i) PROVE PayingInv'
  <2>1. PICK s : s = asked'
    OBVIOUS
  <2>2. /\ i \in 1 .. Len(asked) /\ Without(s, i) /\ s \in Seq(FormRequests)
        /\ draft' = [draft EXCEPT !.busy = @ /\ asked[i].kind # "createPayment"]
        /\ n.failed < MaxDropped /\ tally' = [n EXCEPT !.failed = @ + 1]
    BY <1>12, <1>p, <2>1, LosePuts DEF Without
  <2>3. /\ OnePays(s)
        /\ asked[i].kind = "createPayment" =>
             ~Pays(s) /\ ~PaidFor(s) /\ (PaidFor(asked) <=> asked[i].served)
        /\ asked[i].kind # "createPayment" =>
             (Pays(s) <=> Pays(asked)) /\ (PaidFor(s) <=> PaidFor(asked))
    BY <1>9, <2>2
  <2>4. PICK t : t = [n EXCEPT !.failed = @ + 1]
    OBVIOUS
  <2>5. /\ t \in [made : 0 .. MaxMade, opened : Nat, failed : 0 .. MaxDropped]
        /\ t.made = n.made /\ t.opened = n.opened /\ t.failed = n.failed + 1
    BY <1>p, <1>m, <2>2, <2>4
  <2>6. PICK b : b = (draft.busy /\ asked[i].kind # "createPayment")
    OBVIOUS
  <2>7. draft'.busy = b
    BY <1>t, <2>2, <2>6 DEF DraftSet
  <2>8. Paying(s, b, t)
    <3>1. CASE asked[i].kind = "createPayment"
      <4>1. IF PaidFor(asked)
            THEN n.opened + 1 <= n.made /\ n.made <= n.opened + n.failed + 1
            ELSE n.opened <= n.made /\ n.made <= n.opened + n.failed
        BY <1>p DEF Paying
      <4>2. n.opened <= n.made /\ n.made <= n.opened + n.failed + 1
        BY <1>p, <4>1
      <4> QED BY <1>p, <2>3, <2>5, <3>1, <4>2 DEF Paying
    <3>2. CASE asked[i].kind # "createPayment"
      <4>1. Pays(asked) => draft.busy
        BY <1>p DEF Paying
      <4>2. Pays(s) => b
        BY <2>3, <2>6, <3>2, <4>1, Zenon
      <4> QED BY <1>p, <2>3, <2>5, <3>2, <4>2 DEF Paying
    <3> QED BY <3>1, <3>2
  <2> QED BY <1>1, <2>1, <2>2, <2>4, <2>7, <2>8
<1> QED
  BY <1>6, <1>7, <1>8, <1>10, <1>11, <1>12 DEF CreateNext

(***************************************************************************)
(* The form of the demo at rest.  Everything asked is served, and answered *)
(* in order, so the last request about suppliers, and the last about a     *)
(* quote, decide: the invariant says what that last one will bring, and    *)
(* that there is nothing left to say when there is none.                   *)
(***************************************************************************)
NoneOf(K, s) == \A j \in 1 .. Len(s) : s[j].kind \notin K

LastOf(K, s, l) ==
  l \in 1 .. Len(s) /\ s[l].kind \in K /\ \A j \in 1 .. Len(s) : s[j].kind \in K => j <= l

About == {"listSuppliers", "createSupplier"}

Saves(r) == r.kind = "createSupplier" \/ (r.kind = "listSuppliers" /\ r.closure = "saved")

TheirsOf(d, rw) == IF d.importer = NoId THEN <<>> ELSE rw.suppliers[d.importer]

\* The form when nothing about suppliers is on its way.
Settled(list, d, it) ==
  /\ d.suppliers = list
  /\ IF list = <<>> THEN d.supplier = NoId ELSE d.supplier \in ToSet(list)
  /\ it.saved # NoId => d.supplier = it.saved

\* The last request about suppliers, when list is what the importer has.
Brings(r, list, d, it) ==
  \/ /\ r.kind = "listSuppliers" /\ r.arg = d.importer /\ r.list = list
     /\ r.closure = "chosen" => it.saved = NoId
     /\ r.closure # "chosen" => list # <<>> /\ it.saved \in {NoId, Last(list)}
  \/ /\ r.kind = "createSupplier" /\ r.closure = d.importer
     /\ list # <<>> /\ Last(list) = r.arg /\ it.saved \in {NoId, r.arg}

SuppliersFit(s, d, list, it) ==
  ~it.crossed =>
    /\ NoneOf(About, s) => Settled(list, d, it)
    /\ \A l \in 1 .. Len(s) : LastOf(About, s, l) => Brings(s[l], list, d, it)
    /\ \A j \in 1 .. Len(s) : Saves(s[j]) => LastOf(About, s, j)
    /\ d.importer = NoId => NoneOf(About, s)

QuoteFits(s, d) ==
  /\ d.timer \in {0, d.amount}
  /\ d.timer = 0 /\ d.amount > 0 =>
       /\ NoneOf({"createQuote"}, s) => d.quote = d.amount
       /\ \A l \in 1 .. Len(s) : LastOf({"createQuote"}, s, l) => s[l].arg = d.amount

Fitting(s, d, rw, it) ==
  /\ \A j \in 1 .. Len(s) : s[j].served
  /\ SuppliersFit(s, d, TheirsOf(d, rw), it)
  /\ QuoteFits(s, d)

FittingInv == ~http => Fitting(asked, draft, rows, intent)

\* The last request of a kind, when one is added, and when the first is taken out.
Plus(s, q, t) ==
  /\ t \in Seq(FormRequests) /\ Len(t) = Len(s) + 1
  /\ \A j \in 1 .. Len(s) : t[j] = s[j]
  /\ t[Len(s) + 1] = q

Minus(s, t) ==
  /\ t \in Seq(FormRequests) /\ s # <<>> /\ Len(t) = Len(s) - 1
  /\ \A j \in 1 .. Len(t) : t[j] = s[j + 1]

LEMMA LastWithOneMore ==
  ASSUME NEW K, NEW s \in Seq(FormRequests), NEW q, NEW t, Plus(s, q, t)
  PROVE  /\ q.kind \notin K =>
              /\ NoneOf(K, t) <=> NoneOf(K, s)
              /\ \A l \in 1 .. Len(s) : LastOf(K, t, l) <=> LastOf(K, s, l)
              /\ ~LastOf(K, t, Len(s) + 1)
         /\ q.kind \in K =>
              /\ ~NoneOf(K, t)
              /\ \A l \in 1 .. Len(s) : ~LastOf(K, t, l)
              /\ LastOf(K, t, Len(s) + 1)
<1>1. /\ Len(s) \in Nat /\ Len(s) + 1 \in 1 .. Len(t)
      /\ \A j : j \in 1 .. Len(t) <=> j \in 1 .. Len(s) \/ j = Len(s) + 1
      /\ \A j \in 1 .. Len(s) : t[j] = s[j] /\ j <= Len(s) + 1 /\ ~(Len(s) + 1 <= j)
      /\ t[Len(s) + 1] = q
  BY DEF Plus
<1>2. ASSUME q.kind \notin K
      PROVE  /\ NoneOf(K, t) <=> NoneOf(K, s)
             /\ \A l \in 1 .. Len(s) : LastOf(K, t, l) <=> LastOf(K, s, l)
             /\ ~LastOf(K, t, Len(s) + 1)
  BY <1>1, <1>2 DEF NoneOf, LastOf
<1>3. ASSUME q.kind \in K
      PROVE  /\ ~NoneOf(K, t)
             /\ \A l \in 1 .. Len(s) : ~LastOf(K, t, l)
             /\ LastOf(K, t, Len(s) + 1)
  BY <1>1, <1>3 DEF NoneOf, LastOf
<1> QED BY <1>2, <1>3

LEMMA LastWithoutFirst ==
  ASSUME NEW K, NEW s \in Seq(FormRequests), NEW t, Minus(s, t)
  PROVE  /\ \A l \in 1 .. Len(t) : LastOf(K, t, l) <=> LastOf(K, s, l + 1)
         /\ s[1].kind \notin K => (NoneOf(K, t) <=> NoneOf(K, s)) /\ ~LastOf(K, s, 1)
         /\ s[1].kind \in K => (NoneOf(K, t) <=> LastOf(K, s, 1)) /\ ~NoneOf(K, s)
<1> DEFINE Up(j) == j + 1
           Down(j) == j - 1
<1>1. /\ \A j \in 1 .. Len(t) : Up(j) \in 1 .. Len(s) /\ t[j] = s[Up(j)] /\ ~(Up(j) <= 1)
      /\ \A j \in 1 .. Len(s) : j = 1 \/ (Down(j) \in 1 .. Len(t) /\ Up(Down(j)) = j)
      /\ \A j, l \in 1 .. Len(t) : j <= l <=> Up(j) <= Up(l)
      /\ \A l \in 1 .. Len(t) : 1 <= Up(l)
      /\ 1 \in 1 .. Len(s) /\ 1 <= 1
  BY DEF Minus
<1> HIDE DEF Up, Down
<1>2. ASSUME NEW l \in 1 .. Len(t) PROVE LastOf(K, t, l) <=> LastOf(K, s, Up(l))
  <2>1. ASSUME LastOf(K, t, l), NEW j \in 1 .. Len(s), s[j].kind \in K PROVE j <= Up(l)
    BY <1>1, <2>1 DEF LastOf
  <2>2. ASSUME LastOf(K, s, Up(l)), NEW j \in 1 .. Len(t), t[j].kind \in K PROVE j <= l
    BY <1>1, <2>2 DEF LastOf
  <2>3. Up(l) \in 1 .. Len(s) /\ t[l] = s[Up(l)]
    BY <1>1
  <2> QED BY <2>1, <2>2, <2>3 DEF LastOf
<1>3. NoneOf(K, t) <=> \A j \in 1 .. Len(s) : s[j].kind \in K => j = 1
  BY <1>1 DEF NoneOf
<1>4. LastOf(K, s, 1) <=> s[1].kind \in K /\ \A j \in 1 .. Len(s) : s[j].kind \in K => j = 1
  <2>1. \A j \in 1 .. Len(s) : j <= 1 <=> j = 1
    BY <1>1
  <2> QED BY <1>1, <2>1 DEF LastOf
<1>5. NoneOf(K, s) <=> s[1].kind \notin K /\ NoneOf(K, t)
  BY <1>1, <1>3 DEF NoneOf
<1> QED BY <1>2, <1>3, <1>4, <1>5 DEF Up

\* What each kind of step leaves of the part about quotes.
LEMMA QuoteFitsMore ==
  ASSUME NEW s \in Seq(FormRequests), NEW q, NEW t, Plus(s, q, t), q.kind # "createQuote",
         NEW d, NEW e, QuoteFits(s, d),
         e.timer = d.timer, e.amount = d.amount, e.quote = d.quote
  PROVE  QuoteFits(t, e)
<1>1. /\ NoneOf({"createQuote"}, t) <=> NoneOf({"createQuote"}, s)
      /\ \A l \in 1 .. Len(s) : LastOf({"createQuote"}, t, l) <=> LastOf({"createQuote"}, s, l)
      /\ ~LastOf({"createQuote"}, t, Len(s) + 1)
  BY LastWithOneMore
<1>2. /\ \A l \in 1 .. Len(t) : l \in 1 .. Len(s) \/ l = Len(s) + 1
      /\ \A l \in 1 .. Len(s) : t[l] = s[l]
  BY DEF Plus
<1> QED BY <1>1, <1>2 DEF QuoteFits

LEMMA QuoteFitsLess ==
  ASSUME NEW s \in Seq(FormRequests), NEW t, Minus(s, t),
         NEW d, NEW e, QuoteFits(s, d), e.timer = d.timer, e.amount = d.amount,
         IF s[1].kind = "createQuote" THEN e.quote = s[1].arg ELSE e.quote = d.quote
  PROVE  QuoteFits(t, e)
<1>1. /\ \A l \in 1 .. Len(t) :
           LastOf({"createQuote"}, t, l) <=> LastOf({"createQuote"}, s, l + 1)
      /\ s[1].kind # "createQuote" => (NoneOf({"createQuote"}, t) <=> NoneOf({"createQuote"}, s))
      /\ s[1].kind = "createQuote" => (NoneOf({"createQuote"}, t) <=> LastOf({"createQuote"}, s, 1))
  BY LastWithoutFirst
<1>2. /\ \A l \in 1 .. Len(t) : l + 1 \in 1 .. Len(s) /\ t[l] = s[l + 1]
      /\ 1 \in 1 .. Len(s)
  BY DEF Minus
<1>3. e.timer \in {0, e.amount}
  BY DEF QuoteFits
<1>4. ASSUME e.timer = 0, e.amount > 0
      PROVE  /\ NoneOf({"createQuote"}, t) => e.quote = e.amount
             /\ \A l \in 1 .. Len(t) : LastOf({"createQuote"}, t, l) => t[l].arg = e.amount
  <2>1. /\ NoneOf({"createQuote"}, s) => d.quote = d.amount
        /\ \A l \in 1 .. Len(s) : LastOf({"createQuote"}, s, l) => s[l].arg = d.amount
    BY <1>4 DEF QuoteFits
  <2> QED BY <1>1, <1>2, <2>1
<1> QED BY <1>3, <1>4 DEF QuoteFits

LEMMA QuoteFitsAsked ==
  ASSUME NEW s \in Seq(FormRequests), NEW q, NEW t, Plus(s, q, t), q.kind = "createQuote",
         NEW d, NEW e, QuoteFits(s, d), d.timer # 0, q.arg = d.timer,
         e.timer = 0, e.amount = d.amount
  PROVE  QuoteFits(t, e)
<1>1. /\ ~NoneOf({"createQuote"}, t)
      /\ \A l \in 1 .. Len(s) : ~LastOf({"createQuote"}, t, l)
  BY LastWithOneMore
<1>2. /\ \A l \in 1 .. Len(t) : l \in 1 .. Len(s) \/ l = Len(s) + 1
      /\ t[Len(s) + 1] = q
  BY DEF Plus
<1> QED BY <1>1, <1>2 DEF QuoteFits

\* What each leaves of the part about suppliers: another request, the list of an
\* importer just chosen, a supplier to be saved, and answers.
LEMMA SuppliersFitMore ==
  ASSUME NEW s \in Seq(FormRequests), NEW q, NEW t, Plus(s, q, t), q.kind \notin About,
         NEW d, NEW e, NEW list, NEW it, SuppliersFit(s, d, list, it),
         e.importer = d.importer, e.suppliers = d.suppliers, e.supplier = d.supplier
  PROVE  SuppliersFit(t, e, list, it)
<1>1. /\ NoneOf(About, t) <=> NoneOf(About, s)
      /\ \A l \in 1 .. Len(s) : LastOf(About, t, l) <=> LastOf(About, s, l)
      /\ ~LastOf(About, t, Len(s) + 1)
  BY LastWithOneMore
<1>2. /\ \A l \in 1 .. Len(t) : l \in 1 .. Len(s) \/ l = Len(s) + 1
      /\ \A l \in 1 .. Len(s) : t[l] = s[l]
      /\ t[Len(s) + 1] = q
  BY DEF Plus
<1>3. ~Saves(q)
  BY DEF Saves, About
<1>4. Settled(list, d, it) => Settled(list, e, it)
  BY DEF Settled
<1>5. \A r : Brings(r, list, d, it) => Brings(r, list, e, it)
  BY DEF Brings
<1> QED BY <1>1, <1>2, <1>3, <1>4, <1>5 DEF SuppliersFit

LEMMA SuppliersFitLess ==
  ASSUME NEW s \in Seq(FormRequests), NEW t, Minus(s, t), s[1].kind \notin About,
         NEW d, NEW e, NEW list, NEW it, SuppliersFit(s, d, list, it),
         e.importer = d.importer, e.suppliers = d.suppliers, e.supplier = d.supplier
  PROVE  SuppliersFit(t, e, list, it)
<1>1. /\ NoneOf(About, t) <=> NoneOf(About, s)
      /\ \A l \in 1 .. Len(t) : LastOf(About, t, l) <=> LastOf(About, s, l + 1)
  BY LastWithoutFirst
<1>2. \A l \in 1 .. Len(t) : l + 1 \in 1 .. Len(s) /\ t[l] = s[l + 1]
  BY DEF Minus
<1>3. Settled(list, d, it) => Settled(list, e, it)
  BY DEF Settled
<1>4. \A r : Brings(r, list, d, it) => Brings(r, list, e, it)
  BY DEF Brings
<1> QED BY <1>1, <1>2, <1>3, <1>4 DEF SuppliersFit

LEMMA SuppliersFitChosen ==
  ASSUME NEW s \in Seq(FormRequests), NEW q, NEW t, Plus(s, q, t),
         NEW d, NEW list, NEW it, d.importer # NoId,
         q.kind = "listSuppliers", q.arg = d.importer, q.closure = "chosen", q.list = list,
         it.saved = NoId, ~it.crossed => \A j \in 1 .. Len(s) : ~Saves(s[j])
  PROVE  SuppliersFit(t, d, list, it)
<1>1. /\ ~NoneOf(About, t) /\ \A l \in 1 .. Len(s) : ~LastOf(About, t, l)
      /\ LastOf(About, t, Len(s) + 1)
  <2>1. q.kind \in About
    BY DEF About
  <2> QED BY <2>1, LastWithOneMore
<1>2. /\ \A l \in 1 .. Len(t) : l \in 1 .. Len(s) \/ l = Len(s) + 1
      /\ \A l \in 1 .. Len(s) : t[l] = s[l]
      /\ t[Len(s) + 1] = q
  BY DEF Plus
<1>3. Brings(q, list, d, it)
  BY DEF Brings
<1> QED BY <1>1, <1>2, <1>3 DEF SuppliersFit

LEMMA SuppliersFitSaves ==
  ASSUME NEW s \in Seq(FormRequests), NEW q, NEW t, Plus(s, q, t),
         NEW d, NEW list, NEW it, d.importer # NoId,
         q.kind = "createSupplier", q.closure = d.importer, list # <<>>, Last(list) = q.arg,
         it.saved = q.arg, \A j \in 1 .. Len(s) : ~Saves(s[j])
  PROVE  SuppliersFit(t, d, list, it)
<1>1. /\ ~NoneOf(About, t) /\ \A l \in 1 .. Len(s) : ~LastOf(About, t, l)
      /\ LastOf(About, t, Len(s) + 1)
  <2>1. q.kind \in About
    BY DEF About
  <2> QED BY <2>1, LastWithOneMore
<1>2. /\ \A l \in 1 .. Len(t) : l \in 1 .. Len(s) \/ l = Len(s) + 1
      /\ \A l \in 1 .. Len(s) : t[l] = s[l]
      /\ t[Len(s) + 1] = q
  BY DEF Plus
<1>3. Brings(q, list, d, it)
  BY DEF Brings
<1> QED BY <1>1, <1>2, <1>3 DEF SuppliersFit

LEMMA SuppliersFitListed ==
  ASSUME NEW s \in Seq(FormRequests), NEW t, Minus(s, t), s[1].kind = "listSuppliers",
         NEW d, NEW e, NEW list \in Seq(FormSuppliers), NEW it, SuppliersFit(s, d, list, it),
         e.importer = d.importer, e.suppliers = s[1].list, s[1].list \in Seq(FormSuppliers),
         s[1].list # <<>> =>
           e.supplier = s[1].list[IF s[1].closure = "chosen" THEN 1 ELSE Len(s[1].list)],
         s[1].list = <<>> => e.supplier = IF s[1].closure = "chosen" THEN NoId ELSE d.supplier
  PROVE  SuppliersFit(t, e, list, it)
<1>1. /\ NoneOf(About, t) <=> LastOf(About, s, 1)
      /\ \A l \in 1 .. Len(t) : LastOf(About, t, l) <=> LastOf(About, s, l + 1)
      /\ ~NoneOf(About, s)
  BY LastWithoutFirst DEF About
<1>2. /\ \A l \in 1 .. Len(t) : l + 1 \in 1 .. Len(s) /\ t[l] = s[l + 1]
      /\ 1 \in 1 .. Len(s)
  BY DEF Minus
<1>3. ASSUME Brings(s[1], list, d, it) PROVE Settled(list, e, it)
  <2>1. s[1].list = list /\ e.suppliers = list
    BY <1>3 DEF Brings
  <2>2. CASE s[1].closure = "chosen"
    <3>1. it.saved = NoId
      BY <1>3, <2>2 DEF Brings
    <3>2. list # <<>> => list[1] \in ToSet(list)
      BY DEF ToSet
    <3> QED BY <2>1, <2>2, <3>1, <3>2 DEF Settled
  <2>3. CASE s[1].closure # "chosen"
    <3>1. list # <<>> /\ it.saved \in {NoId, Last(list)}
      BY <1>3, <2>3 DEF Brings
    <3>2. list[Len(list)] \in ToSet(list) /\ Last(list) = list[Len(list)]
      BY <3>1 DEF ToSet, Last
    <3> QED BY <2>1, <2>3, <3>1, <3>2 DEF Settled
  <2> QED BY <2>2, <2>3
<1>4. \A r : Brings(r, list, d, it) => Brings(r, list, e, it)
  BY DEF Brings
<1> QED BY <1>1, <1>2, <1>3, <1>4 DEF SuppliersFit

LEMMA SuppliersFitSaved ==
  ASSUME NEW s \in Seq(FormRequests), NEW rest, Minus(s, rest), s[1].kind = "createSupplier",
         NEW q, NEW t, Plus(rest, q, t), NEW d, NEW list, NEW it, SuppliersFit(s, d, list, it),
         q.kind = "listSuppliers", q.arg = s[1].closure, q.closure = "saved",
         s[1].closure = d.importer => q.list = list
  PROVE  SuppliersFit(t, d, list, it)
<1>1. /\ ~NoneOf(About, t) /\ \A l \in 1 .. Len(rest) : ~LastOf(About, t, l)
      /\ LastOf(About, t, Len(rest) + 1)
  <2>1. rest \in Seq(FormRequests) /\ q.kind \in About
    BY DEF Minus, About
  <2> QED BY <2>1, LastWithOneMore
<1>2. /\ NoneOf(About, rest) <=> LastOf(About, s, 1)
      /\ ~NoneOf(About, s)
  BY LastWithoutFirst DEF About
<1>3. /\ \A l \in 1 .. Len(t) : l \in 1 .. Len(rest) \/ l = Len(rest) + 1
      /\ \A l \in 1 .. Len(rest) : t[l] = rest[l]
      /\ t[Len(rest) + 1] = q
      /\ 1 \in 1 .. Len(s)
  BY DEF Plus, Minus
<1>4. ASSUME ~it.crossed
      PROVE  LastOf(About, s, 1) /\ Brings(s[1], list, d, it) /\ d.importer # NoId
  <2>1. Saves(s[1])
    BY DEF Saves
  <2> QED BY <1>2, <1>3, <1>4, <2>1 DEF SuppliersFit
<1>5. ASSUME ~it.crossed PROVE Brings(q, list, d, it)
  BY <1>4, <1>5 DEF Brings
<1>6. ASSUME NoneOf(About, rest), NEW j \in 1 .. Len(rest) PROVE ~Saves(rest[j])
  BY <1>6 DEF NoneOf, Saves, About
<1> QED BY <1>1, <1>2, <1>3, <1>4, <1>5, <1>6 DEF SuppliersFit

LEMMA PutsPlus ==
  ASSUME NEW before \in Seq(FormRequests), NEW q, Puts(before, q), NEW t, t = asked'
  PROVE  Plus(before, q, t)
  BY DEF Puts, Plus

LEMMA WithoutMinus ==
  ASSUME asked \in Seq(FormRequests), NEW rest, Without(rest, 1), 1 \in 1 .. Len(asked)
  PROVE  Minus(asked, rest)
  BY DEF Without, Minus

LEMMA ServedIn ==
  ASSUME NEW s \in Seq(FormRequests), \A j \in 1 .. Len(s) : s[j].served
  PROVE  /\ \A t : Minus(s, t) => \A j \in 1 .. Len(t) : t[j].served
         /\ \A q, t : Plus(s, q, t) /\ q.served => \A j \in 1 .. Len(t) : t[j].served
<1>1. ASSUME NEW t, Minus(s, t), NEW j \in 1 .. Len(t) PROVE t[j].served
  BY <1>1 DEF Minus
<1>2. ASSUME NEW q, NEW t, Plus(s, q, t), q.served, NEW j \in 1 .. Len(t) PROVE t[j].served
  <2>1. j \in 1 .. Len(s) \/ j = Len(s) + 1
    BY <1>2 DEF Plus
  <2> QED BY <1>2, <2>1 DEF Plus
<1> QED BY <1>1, <1>2

\* What a request of the demo brings, and the suppliers it leaves.
LEMMA DemoSent ==
  ASSUME ~http, rows \in RowSet, NEW r \in FormRequests
  PROVE  /\ Sent(r) \in FormRequests /\ Sent(r).served /\ Sent(r).kind = r.kind
         /\ Sent(r).arg = r.arg /\ Sent(r).closure = r.closure
         /\ r.kind = "listSuppliers" => Sent(r).list = rows.suppliers[r.arg]
         /\ r.kind # "createSupplier" => ServedRows(r).suppliers = rows.suppliers
         /\ r.kind = "createSupplier" =>
              /\ r.arg \in FormSuppliers /\ r.closure \in FormImporters
              /\ ServedRows(r).suppliers[r.closure] = Append(rows.suppliers[r.closure], r.arg)
<1>1. /\ Sent(r) \in FormRequests /\ Sent(r).served /\ Sent(r).kind = r.kind
      /\ Sent(r).arg = r.arg /\ Sent(r).closure = r.closure
      /\ r.kind = "listSuppliers" => Sent(r).list = rows.suppliers[r.arg]
  BY ServedPuts DEF Sent
<1>2. r.kind # "createSupplier" => ServedRows(r).suppliers = rows.suppliers
  BY DEF ServedRows, ImporterCreated, RowSet
<1>3. ASSUME r.kind = "createSupplier"
      PROVE  /\ r.arg \in FormSuppliers /\ r.closure \in FormImporters
             /\ ServedRows(r).suppliers[r.closure] = Append(rows.suppliers[r.closure], r.arg)
  <2>1. r.arg \in FormSuppliers /\ r.closure \in FormImporters
    BY <1>3, RequestKinds
  <2>2. PICK new : new = Append(rows.suppliers[r.closure], r.arg)
    OBVIOUS
  <2>3. ServedRows(r) = [rows EXCEPT !.suppliers[r.closure] = new]
    BY <1>3, <2>2 DEF ServedRows, SupplierCreated
  <2> QED BY <2>1, <2>2, <2>3 DEF RowSet
<1> QED BY <1>1, <1>2, <1>3

LEMMA NothingIsSaved ==
  ASSUME asked \in Seq(FormRequests)
  PROVE  ~SupplierSaving => \A j \in 1 .. Len(asked) : ~Saves(asked[j])
  BY DEF SupplierSaving, Saves

\* A form that was just opened.
LEMMA FirstFits ==
  ASSUME ~http, rows \in RowSet
  PROVE  \E s, e, it :
           /\ s = FirstAsked /\ e = EmptyDraft(FirstAmount)
           /\ it = [saved |-> NoId, crossed |-> FALSE]
           /\ \A j \in 1 .. Len(s) : s[j].served
           /\ \A rw : SuppliersFit(s, e, TheirsOf(e, rw), it)
           /\ QuoteFits(s, e)
<1>1. PICK s, e, it : /\ s = FirstAsked /\ e = EmptyDraft(FirstAmount)
                      /\ it = [saved |-> NoId, crossed |-> FALSE]
  OBVIOUS
<1>2. Len(s) = 1 /\ s[1].kind = "listImporters" /\ s[1].served
  BY <1>1, FirstAskedIs
<1>3. NoneOf(About, s) /\ \A j \in 1 .. Len(s) : ~Saves(s[j]) /\ ~LastOf(About, s, j)
  BY <1>2 DEF NoneOf, About, Saves, LastOf
<1>4. /\ e.importer = NoId /\ e.suppliers = <<>> /\ e.supplier = NoId
      /\ e.timer = FirstAmount /\ e.amount = FirstAmount
  BY <1>1 DEF EmptyDraft
<1>5. ASSUME NEW rw PROVE SuppliersFit(s, e, TheirsOf(e, rw), it)
  BY <1>1, <1>3, <1>4 DEF SuppliersFit, TheirsOf, Settled
<1>6. QuoteFits(s, e)
  BY <1>4, FirstAmountIs DEF QuoteFits
<1> QED BY <1>1, <1>2, <1>5, <1>6

LEMMA FittingKept ==
  ASSUME FormTypes, FormTypes', UNCHANGED scene, FittingInv, CreateNext
  PROVE  FittingInv'
<1> SUFFICES ASSUME ~http PROVE FittingInv'
  BY DEF FittingInv, http
<1>t. /\ rows \in RowSet /\ draft \in DraftSet /\ asked \in Seq(FormRequests)
      /\ NoId \notin FormImporters
  BY NewPaymentAssumption DEF FormTypes
<1>f. /\ \A j \in 1 .. Len(asked) : asked[j].served
      /\ SuppliersFit(asked, draft, TheirsOf(draft, rows), intent)
      /\ QuoteFits(asked, draft)
  BY DEF FittingInv, Fitting
<1>1. ASSUME NEW s, NEW e, NEW rw, NEW it, asked' = s, draft' = e, rows' = rw, intent' = it,
             \A j \in 1 .. Len(s) : s[j].served,
             SuppliersFit(s, e, TheirsOf(e, rw), it), QuoteFits(s, e)
      PROVE  FittingInv'
  BY <1>1 DEF FittingInv, Fitting, SuppliersFit, QuoteFits, TheirsOf, NoneOf, LastOf, Settled,
              Brings, Saves
<1>2. \A d, e, rw : e.importer = d.importer /\ rw.suppliers = rows.suppliers =>
        TheirsOf(e, rw) = TheirsOf(d, rows)
  BY DEF TheirsOf
<1>3. \A i \in FormImporters : rows.suppliers[i] \in Seq(FormSuppliers)
  BY <1>t DEF RowSet
<1>4. TheirsOf(draft, rows) \in Seq(FormSuppliers)
  BY <1>t, <1>3 DEF TheirsOf, DraftSet
\* A request that is about neither suppliers nor a quote.
<1>5. ASSUME NEW before \in Seq(FormRequests), \A j \in 1 .. Len(before) : before[j].served,
             SuppliersFit(before, draft, TheirsOf(draft, rows), intent), QuoteFits(before, draft),
             NEW q \in FormRequests, q.served, Puts(before, q),
             q.kind \notin {"listSuppliers", "createSupplier", "createQuote"},
             rows'.suppliers = rows.suppliers, UNCHANGED intent,
             NEW e, draft' = e, e.importer = draft.importer, e.suppliers = draft.suppliers,
             e.supplier = draft.supplier, e.timer = draft.timer, e.amount = draft.amount,
             e.quote = draft.quote
      PROVE  FittingInv'
  <2>1. PICK s, rw : s = asked' /\ rw = rows'
    OBVIOUS
  <2>2. Plus(before, q, s)
    BY <1>5, <2>1, PutsPlus
  <2>3. \A j \in 1 .. Len(s) : s[j].served
    BY <1>5, <2>2, ServedIn
  <2>4. q.kind \notin About
    BY <1>5 DEF About
  <2>5. SuppliersFit(s, e, TheirsOf(draft, rows), intent)
    BY <1>5, <2>2, <2>4, SuppliersFitMore
  <2>6. QuoteFits(s, e)
    BY <1>5, <2>2, QuoteFitsMore
  <2>7. TheirsOf(e, rw) = TheirsOf(draft, rows)
    BY <1>2, <1>5, <2>1
  <2> QED BY <1>1, <1>5, <2>1, <2>3, <2>5, <2>6, <2>7
\* Another importer is chosen, and its suppliers are asked for.
<1>6. ASSUME NEW before \in Seq(FormRequests), \A j \in 1 .. Len(before) : before[j].served,
             QuoteFits(before, draft), NEW i \in FormImporters,
             ~SupplierSaving => \A j \in 1 .. Len(before) : ~Saves(before[j]),
             Puts(before, Sent(Asking("listSuppliers", i, "chosen"))),
             rows' = ServedRows(Asking("listSuppliers", i, "chosen")),
             intent' = [saved |-> NoId, crossed |-> SupplierSaving],
             NEW e, draft' = e, e.importer = i, e.timer = draft.timer, e.amount = draft.amount,
             e.quote = draft.quote
      PROVE  FittingInv'
  <2>1. PICK r \in FormRequests : /\ r = Asking("listSuppliers", i, "chosen")
                                  /\ r.kind = "listSuppliers" /\ r.arg = i /\ r.closure = "chosen"
    BY AskingIsRequest DEF Asking
  <2>2. PICK q \in FormRequests : /\ q = Sent(r) /\ q.served /\ q.kind = "listSuppliers" /\ q.arg = i
                                  /\ q.closure = "chosen" /\ q.list = rows.suppliers[i]
    BY <1>t, <2>1, DemoSent
  <2>3. PICK s, rw, it : s = asked' /\ rw = rows' /\ it = intent'
    OBVIOUS
  <2>4. Plus(before, q, s) /\ \A j \in 1 .. Len(s) : s[j].served
    <3>1. Plus(before, q, s)
      BY <1>6, <2>1, <2>2, <2>3, PutsPlus
    <3> QED BY <1>6, <2>2, <3>1, ServedIn
  <2>5. QuoteFits(s, e)
    BY <1>6, <2>2, <2>4, QuoteFitsMore
  <2>6. e.importer # NoId /\ TheirsOf(e, rw) = rows.suppliers[i]
    BY <1>6, <1>t, <2>1, <2>3, DemoSent DEF TheirsOf
  <2>7. it.saved = NoId /\ (~it.crossed => \A j \in 1 .. Len(before) : ~Saves(before[j]))
    BY <1>6, <2>3
  <2>8. SuppliersFit(s, e, rows.suppliers[i], it)
    BY <1>6, <2>2, <2>4, <2>6, <2>7, SuppliersFitChosen
  <2> QED BY <1>1, <1>6, <2>3, <2>4, <2>5, <2>6, <2>8
<1>7. ASSUME NEW r \in FormRequests, Asks(r)
      PROVE  Puts(asked, Sent(r)) /\ Sent(r) \in FormRequests /\ rows' = ServedRows(r)
  BY <1>7, <1>t, AsksOne DEF Asks
<1>8. ASSUME NEW i \in FormImporters, SelectImporter(i) PROVE FittingInv'
  <2>1. /\ Asks(Asking("listSuppliers", i, "chosen"))
        /\ Asking("listSuppliers", i, "chosen") \in FormRequests
        /\ draft' = [draft EXCEPT !.importer = i] /\ i # draft.importer
    BY <1>8, FormAsks
  <2>2. PICK e : e = [draft EXCEPT !.importer = i]
    OBVIOUS
  <2>3. /\ e.importer = i /\ e.timer = draft.timer /\ e.amount = draft.amount
        /\ e.quote = draft.quote
    BY <1>t, <2>2 DEF DraftSet
  <2>4. intent' = [saved |-> NoId, crossed |-> SupplierSaving]
    BY <1>8, <2>1 DEF SelectImporter, Chose
  <2>5. ~SupplierSaving => \A j \in 1 .. Len(asked) : ~Saves(asked[j])
    BY <1>t, NothingIsSaved
  <2>6. /\ Puts(asked, Sent(Asking("listSuppliers", i, "chosen")))
        /\ rows' = ServedRows(Asking("listSuppliers", i, "chosen"))
    BY <1>7, <2>1
  <2> QED BY <1>6, <1>f, <1>t, <2>1, <2>2, <2>3, <2>4, <2>5, <2>6
<1>9. ASSUME NEW i \in FormImporters, SaveImporter(i) PROVE FittingInv'
  <2>1. PICK r \in FormRequests : r.kind = "createImporter" /\ Asks(r) /\ UNCHANGED <<draft, intent>>
    <3>1. Asking("createImporter", i, draft.importer).kind = "createImporter"
      BY DEF Asking
    <3> QED BY <1>9, <3>1, FormAsks
  <2>2. PICK q \in FormRequests : /\ q.served /\ Puts(asked, q) /\ q.kind = "createImporter"
                                  /\ rows'.suppliers = rows.suppliers
    BY <1>7, <1>t, <2>1, DemoSent
  <2>3. PICK e : e = draft
    OBVIOUS
  <2> QED BY <1>5, <1>f, <1>t, <2>1, <2>2, <2>3
<1>10. ASSUME Submit PROVE FittingInv'
  <2>1. PICK r \in FormRequests : /\ r.kind = "createPayment" /\ Asks(r) /\ UNCHANGED intent
                                  /\ draft' = [draft EXCEPT !.busy = TRUE]
    <3>1. Asking("createPayment", draft.quote, draft.importer).kind = "createPayment"
      BY DEF Asking
    <3> QED BY <1>10, <3>1, FormAsks
  <2>2. PICK q \in FormRequests : /\ q.served /\ Puts(asked, q) /\ q.kind = "createPayment"
                                  /\ rows'.suppliers = rows.suppliers
    BY <1>7, <1>t, <2>1, DemoSent
  <2>3. PICK e : e = [draft EXCEPT !.busy = TRUE]
    OBVIOUS
  <2>4. /\ e.importer = draft.importer /\ e.suppliers = draft.suppliers
        /\ e.supplier = draft.supplier /\ e.timer = draft.timer /\ e.amount = draft.amount
        /\ e.quote = draft.quote
    BY <1>t, <2>3 DEF DraftSet
  <2> QED BY <1>5, <1>f, <1>t, <2>1, <2>2, <2>3, <2>4
<1>11. ASSUME QuoteTimer PROVE FittingInv'
  <2>1. PICK r \in FormRequests : /\ r.kind = "createQuote" /\ r.arg = draft.timer /\ Asks(r)
                                  /\ UNCHANGED intent /\ draft' = [draft EXCEPT !.timer = 0]
    <3>1. /\ Asking("createQuote", draft.timer, NoId).kind = "createQuote"
          /\ Asking("createQuote", draft.timer, NoId).arg = draft.timer
      BY DEF Asking
    <3> QED BY <1>11, <3>1, FormAsks
  <2>2. PICK q \in FormRequests : /\ q.served /\ Puts(asked, q) /\ q.kind = "createQuote"
                                  /\ q.arg = draft.timer /\ rows'.suppliers = rows.suppliers
    BY <1>7, <1>t, <2>1, DemoSent
  <2>3. PICK e : e = [draft EXCEPT !.timer = 0]
    OBVIOUS
  <2>4. /\ e.importer = draft.importer /\ e.suppliers = draft.suppliers
        /\ e.supplier = draft.supplier /\ e.timer = 0 /\ e.amount = draft.amount
    BY <1>t, <2>3 DEF DraftSet
  <2>5. PICK s, rw : s = asked' /\ rw = rows'
    OBVIOUS
  <2>6. Plus(asked, q, s) /\ \A j \in 1 .. Len(s) : s[j].served
    <3>1. Plus(asked, q, s)
      BY <1>t, <2>2, <2>5, PutsPlus
    <3> QED BY <1>f, <1>t, <2>2, <3>1, ServedIn
  <2>7. QuoteFits(s, e)
    <3>1. draft.timer # 0
      BY <1>11 DEF QuoteTimer
    <3> QED BY <1>f, <1>t, <2>2, <2>4, <2>6, <3>1, QuoteFitsAsked
  <2>8. SuppliersFit(s, e, TheirsOf(draft, rows), intent)
    <3>1. q.kind \notin About
      BY <2>2 DEF About
    <3> QED BY <1>f, <1>t, <2>4, <2>6, <3>1, SuppliersFitMore
  <2>9. TheirsOf(e, rw) = TheirsOf(draft, rows)
    BY <1>2, <2>2, <2>4, <2>5
  <2> QED BY <1>1, <2>1, <2>3, <2>5, <2>6, <2>7, <2>8, <2>9
<1>12. ASSUME NEW x \in FormSuppliers, SaveSupplier(x) PROVE FittingInv'
  <2>1. PICK r \in FormRequests : /\ r.kind = "createSupplier" /\ r.arg = x
                                  /\ r.closure = draft.importer /\ Asks(r)
                                  /\ UNCHANGED draft /\ intent' = [intent EXCEPT !.saved = x]
    <3>1. /\ Asking("createSupplier", x, draft.importer).kind = "createSupplier"
          /\ Asking("createSupplier", x, draft.importer).arg = x
          /\ Asking("createSupplier", x, draft.importer).closure = draft.importer
      BY DEF Asking
    <3> QED BY <1>12, <3>1, FormAsks
  <2>2. PICK list : list = Append(rows.suppliers[draft.importer], x)
    OBVIOUS
  <2>3. draft.importer \in FormImporters /\ draft.importer # NoId
    BY <1>12, <1>t, FormAsks
  <2>4. PICK q \in FormRequests : /\ q.served /\ Puts(asked, q) /\ q.kind = "createSupplier"
                                  /\ q.arg = x /\ q.closure = draft.importer
                                  /\ rows'.suppliers[draft.importer] = list
    BY <1>7, <1>t, <2>1, <2>2, DemoSent
  <2>5. list # <<>> /\ Last(list) = x
    <3>1. rows.suppliers[draft.importer] \in Seq(FormSuppliers)
      BY <1>3, <2>3
    <3> QED BY <2>2, <3>1 DEF Last
  <2>6. PICK s, rw, it : s = asked' /\ rw = rows' /\ it = intent'
    OBVIOUS
  <2>7. Plus(asked, q, s) /\ \A j \in 1 .. Len(s) : s[j].served
    <3>1. Plus(asked, q, s)
      BY <1>t, <2>4, <2>6, PutsPlus
    <3> QED BY <1>f, <1>t, <2>4, <3>1, ServedIn
  <2>8. QuoteFits(s, draft)
    BY <1>f, <1>t, <2>4, <2>7, QuoteFitsMore
  <2>9. TheirsOf(draft, rw) = list
    BY <2>3, <2>4, <2>6 DEF TheirsOf
  <2>10. \A j \in 1 .. Len(asked) : ~Saves(asked[j])
    BY <1>12, <1>t, NothingIsSaved DEF SaveSupplier
  <2>11. it.saved = x
    BY <2>1, <2>6 DEF FormTypes, IntentSet
  <2>12. SuppliersFit(s, draft, list, it)
    BY <1>t, <2>3, <2>4, <2>5, <2>7, <2>10, <2>11, SuppliersFitSaves
  <2>13. PICK e : e = draft
    OBVIOUS
  <2> QED BY <1>1, <2>1, <2>6, <2>7, <2>8, <2>9, <2>12, <2>13
<1>13. ASSUME NEW x \in FormSuppliers, SelectPayee(x) PROVE FittingInv'
  <2>1. PICK e, it : e = [draft EXCEPT !.supplier = x] /\ it = [intent EXCEPT !.saved = NoId]
    OBVIOUS
  <2>2. /\ e.importer = draft.importer /\ e.suppliers = draft.suppliers /\ e.supplier = x
        /\ e.timer = draft.timer /\ e.amount = draft.amount /\ e.quote = draft.quote
        /\ it.saved = NoId /\ it.crossed = intent.crossed
    BY <1>t, <2>1 DEF DraftSet, FormTypes, IntentSet
  <2>3. /\ draft' = e /\ intent' = it /\ UNCHANGED <<rows, asked>>
        /\ x \in ToSet(draft.suppliers)
    BY <1>13, <2>1 DEF SelectPayee
  <2>4. PICK list : list = TheirsOf(draft, rows)
    OBVIOUS
  <2>5. Settled(list, draft, intent) => Settled(list, e, it)
    <3>1. draft.suppliers # <<>>
      BY <2>3 DEF ToSet
    <3> QED BY <2>2, <2>3, <3>1 DEF Settled
  <2>6. \A r : Brings(r, list, draft, intent) => Brings(r, list, e, it)
    BY <2>2 DEF Brings
  <2>7. SuppliersFit(asked, e, list, it)
    BY <1>f, <2>2, <2>4, <2>5, <2>6 DEF SuppliersFit
  <2>8. QuoteFits(asked, e)
    BY <1>f, <2>2 DEF QuoteFits
  <2>9. TheirsOf(e, rows) = list
    BY <1>2, <2>2, <2>4
  <2>10. PICK s, rw : s = asked /\ rw = rows
    OBVIOUS
  <2> QED BY <1>1, <1>f, <2>3, <2>7, <2>8, <2>9, <2>10
<1>14. ASSUME NEW a \in Amounts, TypeAmount(a) PROVE FittingInv'
  <2>1. PICK e : e = [draft EXCEPT !.amount = a, !.timer = a]
    OBVIOUS
  <2>2. /\ e.importer = draft.importer /\ e.suppliers = draft.suppliers
        /\ e.supplier = draft.supplier /\ e.timer = a /\ e.amount = a
    BY <1>t, <2>1 DEF DraftSet
  <2>3. draft' = e /\ UNCHANGED <<rows, asked, intent>>
    BY <1>14, <2>1 DEF TypeAmount
  <2>4. PICK list : list = TheirsOf(draft, rows)
    OBVIOUS
  <2>5. Settled(list, draft, intent) => Settled(list, e, intent)
    BY <2>2 DEF Settled
  <2>6. \A r : Brings(r, list, draft, intent) => Brings(r, list, e, intent)
    BY <2>2 DEF Brings
  <2>7. SuppliersFit(asked, e, list, intent)
    BY <1>f, <2>2, <2>4, <2>5, <2>6 DEF SuppliersFit
  <2>8. QuoteFits(asked, e)
    <3>1. a \in Nat
      BY NewPaymentAssumption
    <3> QED BY <2>2, <3>1 DEF QuoteFits
  <2>9. TheirsOf(e, rows) = list
    BY <1>2, <2>2, <2>4
  <2>10. PICK s, rw, it : s = asked /\ rw = rows /\ it = intent
    OBVIOUS
  <2> QED BY <1>1, <1>f, <2>3, <2>7, <2>8, <2>9, <2>10
<1>15. ASSUME NEW i, FormAnswer(i) PROVE FittingInv'
  <2>1. PICK r \in FormRequests, rest \in Seq(FormRequests) :
          /\ 1 \in 1 .. Len(asked) /\ r = asked[1] /\ Minus(asked, rest)
          /\ FollowsAnswer(r, rest)
    <3>1. PICK r \in FormRequests, rest \in Seq(FormRequests) :
            /\ i \in 1 .. Len(asked) /\ r = asked[i] /\ i = 1
            /\ Without(rest, i) /\ FollowsAnswer(r, rest)
      BY <1>15, AnswerTakes
    <3> QED BY <1>t, <3>1, WithoutMinus
  <2>2. \A j \in 1 .. Len(rest) : rest[j].served
    BY <1>f, <1>t, <2>1, ServedIn
  <2>3. CASE r.kind = "listImporters" /\ ImportersAnswered(r, rest)
    <3>1. PICK i1 \in FormImporters \union {NoId} :
            /\ draft' = [draft EXCEPT !.importers = r.list, !.importer = i1]
            /\ \/ i1 = draft.importer /\ JustAnswered(rest)
               \/ i1 \in FormImporters /\ i1 # draft.importer
                  /\ AnsweredWith(rest, Asking("listSuppliers", i1, "chosen"))
            /\ intent' = IF i1 = draft.importer THEN intent
                         ELSE [saved |-> NoId, crossed |-> SupplierSaving]
      BY <2>3, ImportersAnsweredPuts
    <3>2. PICK e : e = [draft EXCEPT !.importers = r.list, !.importer = i1]
      OBVIOUS
    <3>3. /\ e.importer = i1 /\ e.suppliers = draft.suppliers
          /\ e.supplier = draft.supplier /\ e.timer = draft.timer /\ e.amount = draft.amount
          /\ e.quote = draft.quote
      BY <1>t, <3>2 DEF DraftSet
    <3>4. QuoteFits(rest, draft) /\ QuoteFits(rest, e)
      BY <1>f, <1>t, <2>1, <2>3, <3>3, QuoteFitsLess
    <3>5. CASE i1 = draft.importer /\ JustAnswered(rest)
      <4>1. r.kind \notin About
        BY <2>3 DEF About
      <4>2. SuppliersFit(rest, e, TheirsOf(draft, rows), intent)
        BY <1>f, <1>t, <2>1, <3>3, <3>5, <4>1, SuppliersFitLess
      <4>3. TheirsOf(e, rows) = TheirsOf(draft, rows)
        BY <1>2, <3>3, <3>5
      <4>4. PICK rw, it : rw = rows /\ it = intent
        OBVIOUS
      <4> QED BY <1>1, <2>2, <3>1, <3>2, <3>4, <3>5, <4>2, <4>3, <4>4 DEF JustAnswered
    <3>6. CASE i1 \in FormImporters /\ i1 # draft.importer
               /\ AnsweredWith(rest, Asking("listSuppliers", i1, "chosen"))
      <4>1. /\ Puts(rest, Sent(Asking("listSuppliers", i1, "chosen")))
            /\ rows' = ServedRows(Asking("listSuppliers", i1, "chosen"))
        BY <3>6 DEF AnsweredWith
      <4>2. ~SupplierSaving => \A j \in 1 .. Len(rest) : ~Saves(rest[j])
        <5>1. \A j \in 1 .. Len(rest) : j + 1 \in 1 .. Len(asked) /\ rest[j] = asked[j + 1]
          BY <2>1 DEF Minus
        <5> QED BY <1>t, <5>1, NothingIsSaved
      <4> QED BY <1>6, <2>2, <3>1, <3>2, <3>3, <3>4, <3>6, <4>1, <4>2
    <3> QED BY <3>1, <3>5, <3>6
  <2>4. CASE r.kind = "listSuppliers" /\ SuppliersAnswered(r, rest)
    <3>1. PICK x \in FormSuppliers \union {NoId} :
            /\ draft' = [draft EXCEPT !.suppliers = r.list, !.supplier = x]
            /\ r.list \in Seq(FormSuppliers) /\ JustAnswered(rest) /\ UNCHANGED intent
            /\ r.list # <<>> => x = r.list[IF r.closure = "chosen" THEN 1 ELSE Len(r.list)]
            /\ r.list = <<>> => x = IF r.closure = "chosen" THEN NoId ELSE draft.supplier
      BY <2>4, SuppliersAnsweredPuts
    <3>2. PICK e : e = [draft EXCEPT !.suppliers = r.list, !.supplier = x]
      OBVIOUS
    <3>3. /\ e.importer = draft.importer /\ e.suppliers = r.list
          /\ e.supplier = x /\ e.timer = draft.timer /\ e.amount = draft.amount
          /\ e.quote = draft.quote
      BY <1>t, <3>2 DEF DraftSet
    <3>4. QuoteFits(rest, e)
      BY <1>f, <1>t, <2>1, <2>4, <3>3, QuoteFitsLess
    <3>5. SuppliersFit(rest, e, TheirsOf(draft, rows), intent)
      BY <1>f, <1>t, <1>4, <2>1, <2>4, <3>1, <3>3, SuppliersFitListed
    <3>6. TheirsOf(e, rows) = TheirsOf(draft, rows)
      BY <1>2, <3>3
    <3>7. PICK rw, it : rw = rows /\ it = intent
      OBVIOUS
    <3> QED BY <1>1, <2>2, <3>1, <3>2, <3>4, <3>5, <3>6, <3>7 DEF JustAnswered
  <2>5. CASE OtherAnswered(r, rest)
    <3>1. CASE /\ r.kind = "createQuote" /\ JustAnswered(rest) /\ UNCHANGED intent
               /\ draft' = [draft EXCEPT !.quote = r.arg]
      <4>1. PICK e : e = [draft EXCEPT !.quote = r.arg]
        OBVIOUS
      <4>2. /\ e.importer = draft.importer /\ e.suppliers = draft.suppliers
            /\ e.supplier = draft.supplier /\ e.timer = draft.timer /\ e.amount = draft.amount
            /\ e.quote = r.arg
        BY <1>t, <4>1 DEF DraftSet
      <4>3. QuoteFits(rest, e)
        BY <1>f, <1>t, <2>1, <3>1, <4>2, QuoteFitsLess
      <4>4. r.kind \notin About
        BY <3>1 DEF About
      <4>5. SuppliersFit(rest, e, TheirsOf(draft, rows), intent)
        BY <1>f, <1>t, <2>1, <4>2, <4>4, SuppliersFitLess
      <4>6. TheirsOf(e, rows) = TheirsOf(draft, rows)
        BY <1>2, <4>2
      <4>7. PICK rw, it : rw = rows /\ it = intent
        OBVIOUS
      <4> QED BY <1>1, <2>2, <3>1, <4>1, <4>3, <4>5, <4>6, <4>7 DEF JustAnswered
    <3>2. CASE /\ r.kind = "createImporter" /\ UNCHANGED <<draft, intent>>
               /\ AnsweredWith(rest, Asking("listImporters", r.closure, r.arg))
      <4>1. PICK p \in FormRequests : p.kind = "listImporters" /\ AnsweredWith(rest, p)
        <5>1. Asking("listImporters", r.closure, r.arg).kind = "listImporters"
          BY DEF Asking
        <5> QED BY <3>2, <5>1 DEF AnsweredWith
      <4>2. PICK q \in FormRequests : /\ q.served /\ Puts(rest, q) /\ q.kind = "listImporters"
                                      /\ rows'.suppliers = rows.suppliers
        BY <1>t, <4>1, DemoSent DEF AnsweredWith
      <4>3. r.kind \notin About
        BY <3>2 DEF About
      <4>4. SuppliersFit(rest, draft, TheirsOf(draft, rows), intent) /\ QuoteFits(rest, draft)
        BY <1>f, <1>t, <2>1, <3>2, <4>3, SuppliersFitLess, QuoteFitsLess
      <4>5. PICK e : e = draft
        OBVIOUS
      <4> QED BY <1>5, <2>2, <3>2, <4>2, <4>4, <4>5
    <3>3. CASE /\ r.kind = "createSupplier" /\ UNCHANGED <<draft, intent>>
               /\ AnsweredWith(rest, Asking("listSuppliers", r.closure, "saved"))
      <4>1. PICK p \in FormRequests : /\ p.kind = "listSuppliers" /\ p.arg = r.closure
                                      /\ p.closure = "saved" /\ AnsweredWith(rest, p)
        <5>1. /\ Asking("listSuppliers", r.closure, "saved").kind = "listSuppliers"
              /\ Asking("listSuppliers", r.closure, "saved").arg = r.closure
              /\ Asking("listSuppliers", r.closure, "saved").closure = "saved"
          BY DEF Asking
        <5> QED BY <3>3, <5>1 DEF AnsweredWith
      <4>2. PICK q \in FormRequests :
              /\ q.served /\ Puts(rest, q) /\ q.kind = "listSuppliers" /\ q.arg = r.closure
              /\ q.closure = "saved" /\ q.list = rows.suppliers[r.closure]
              /\ rows'.suppliers = rows.suppliers
        BY <1>t, <4>1, DemoSent DEF AnsweredWith
      <4>3. PICK s, rw : s = asked' /\ rw = rows'
        OBVIOUS
      <4>4. Plus(rest, q, s) /\ \A j \in 1 .. Len(s) : s[j].served
        <5>1. Plus(rest, q, s)
          BY <4>2, <4>3, PutsPlus
        <5> QED BY <2>2, <4>2, <5>1, ServedIn
      <4>5. QuoteFits(rest, draft)
        BY <1>f, <1>t, <2>1, <3>3, QuoteFitsLess
      <4>6. QuoteFits(s, draft)
        BY <4>2, <4>4, <4>5, QuoteFitsMore
      <4>7. r.closure = draft.importer => q.list = TheirsOf(draft, rows)
        <5>1. r.closure \in FormImporters
          BY <3>3, RequestKinds
        <5> QED BY <1>t, <4>2, <5>1 DEF TheirsOf
      <4>8. SuppliersFit(s, draft, TheirsOf(draft, rows), intent)
        BY <1>f, <1>t, <2>1, <3>3, <4>2, <4>4, <4>7, SuppliersFitSaved
      <4>9. TheirsOf(draft, rw) = TheirsOf(draft, rows)
        BY <1>2, <4>2, <4>3
      <4>10. PICK e, it : e = draft /\ it = intent
        OBVIOUS
      <4> QED BY <1>1, <3>3, <4>3, <4>4, <4>6, <4>8, <4>9, <4>10
    <3>4. CASE /\ UNCHANGED rows /\ draft' = EmptyDraft(FirstAmount) /\ asked' = FirstAsked
               /\ intent' = [saved |-> NoId, crossed |-> FALSE]
      BY <1>1, <1>t, <3>4, FirstFits
    <3> QED BY <2>5, <3>1, <3>2, <3>3, <3>4, OtherAnsweredPuts
  <2> QED BY <2>1, <2>3, <2>4, <2>5 DEF FollowsAnswer
<1>16. ASSUME NEW i PROVE ~FormServe(i) /\ ~FormLose(i)
  BY DEF FormServe, FormLose
<1> QED
  BY <1>8, <1>9, <1>10, <1>11, <1>12, <1>13, <1>14, <1>15, <1>16 DEF CreateNext

(***************************************************************************)
(* Of every behaviour of the browser.                                      *)
(***************************************************************************)
CreateInv == scene \in Scenes /\ FormTypes /\ PayingInv /\ FittingInv

LEMMA CreateInvAtStart ==
  ASSUME scene \in Scenes, CreateInit
  PROVE  CreateInv
<1>1. /\ rows \in RowSet /\ draft = EmptyDraft(FirstAmount) /\ asked = FirstAsked
      /\ tally = [made |-> 0, opened |-> 0, failed |-> 0]
      /\ intent = [saved |-> NoId, crossed |-> FALSE]
  BY NewPaymentAssumption DEF CreateInit, RowSet
<1>2. /\ asked \in Seq(FormRequests) /\ Len(asked) = 1
      /\ asked[1].kind = "listImporters"
  BY <1>1, FirstAskedIs
<1>3. scene.page = "create" => 1 <= scene.ahead
  BY BrowserAssumption
<1>4. FormTypes
  <2>1. draft \in DraftSet /\ intent \in IntentSet
    BY <1>1, EmptyDraftIs DEF IntentSet
  <2> QED BY <1>1, <1>2, <1>3, <2>1 DEF FormTypes
<1>5. PayingInv
  <2>1. OnePays(asked) /\ ~Pays(asked) /\ ~PaidFor(asked)
    BY <1>2 DEF OnePays, Pays, PaidFor
  <2>2. 0 \in 0 .. MaxMade /\ 0 \in 0 .. MaxDropped
    BY NewPaymentAssumption
  <2> QED BY <1>1, <2>1, <2>2 DEF PayingInv, Paying
<1>6. FittingInv
  BY <1>1, FirstFits DEF FittingInv, Fitting
<1> QED BY <1>4, <1>5, <1>6 DEF CreateInv

LEMMA CreateInvKept == CreateInv /\ [BrowserNext]_vars => CreateInv'
<1> SUFFICES ASSUME CreateInv, [BrowserNext]_vars PROVE CreateInv'
  OBVIOUS
<1>1. CASE scene.page = "create" /\ CreateNext /\ UNCHANGED scene
  <2>1. scene.ahead \in Nat \ {0}
    BY <1>1, BrowserAssumption DEF CreateInv
  <2>2. FormTypes'
    BY <1>1, <2>1, FormTypesKeep DEF CreateInv
  <2> QED BY <1>1, <2>2, PayingKept, FittingKept DEF CreateInv
<1>2. CASE UNCHANGED <<scene, createVars>>
  BY <1>2
  DEF CreateInv, FormTypes, PayingInv, Paying, OnePays, Pays, PaidFor, FittingInv, Fitting, http,
      SuppliersFit, QuoteFits, TheirsOf, NoneOf, LastOf, Settled, Brings, Saves, createVars
<1> QED BY <1>1, <1>2 DEF BrowserNext, vars

LEMMA CreateInvHolds == BrowserSpec => []CreateInv
<1>1. BrowserInit => CreateInv
  BY CreateInvAtStart DEF BrowserInit
<1> QED BY <1>1, CreateInvKept, PTL DEF BrowserSpec

\* A click on the button of the form pays once: every payment made is one whose page
\* was opened, one whose answer is on its way, or one whose answer was lost.
THEOREM ClicksPayOnce == BrowserSpec => []ClickPaysOnce
<1>1. CreateInv => ClickPaysOnce
  <2> SUFFICES ASSUME CreateInv PROVE ClickPaysOnce
    OBVIOUS
  <2> DEFINE Paid == {i \in DOMAIN asked : asked[i].kind = "createPayment" /\ asked[i].served}
  <2>1. PICK n \in [made : 0 .. MaxMade, opened : Nat, failed : 0 .. MaxDropped] :
          n = tally /\ Paying(asked, draft.busy, n)
    BY DEF CreateInv, PayingInv, Paying
  <2>2. asked \in Seq(FormRequests) /\ DOMAIN asked = 1 .. Len(asked)
    BY DEF CreateInv, FormTypes
  <2>3. MaxMade \in Nat /\ MaxDropped \in Nat
    BY NewPaymentAssumption
  <2>4. CASE PaidFor(asked)
    <3>1. PICK i \in 1 .. Len(asked) : asked[i].kind = "createPayment" /\ asked[i].served
      BY <2>4 DEF PaidFor
    <3>2. Paid = {i}
      BY <2>1, <2>2, <3>1 DEF Paying, OnePays
    <3>3. Cardinality(Paid) = 1
      BY <3>2, FS_Singleton
    <3>4. n.made <= n.opened + n.failed + 1
      BY <2>1, <2>4 DEF Paying
    <3> QED BY <2>1, <3>3, <3>4 DEF ClickPaysOnce
  <2>5. CASE ~PaidFor(asked)
    <3>1. Paid = {}
      BY <2>2, <2>5 DEF PaidFor
    <3>2. Cardinality(Paid) = 0
      BY <3>1, FS_EmptySet
    <3>3. n.made <= n.opened + n.failed
      BY <2>1, <2>5 DEF Paying
    <3>4. n.made <= n.opened + n.failed + 0
      BY <2>1, <2>3, <3>3
    <3> QED BY <2>1, <3>2, <3>4 DEF ClickPaysOnce
  <2> QED BY <2>4, <2>5
<1> QED BY <1>1, CreateInvHolds, PTL

\* The form of the demo at rest fits together, whatever was chosen, saved, typed and
\* answered in between.
THEOREM RestingFormsFit == BrowserSpec => []RestingFormFits
<1>1. CreateInv => RestingFormFits
  <2> SUFFICES ASSUME CreateInv, ~http, asked = <<>>, draft.timer = 0, ~intent.crossed
               PROVE  /\ IF Theirs = <<>> THEN draft.supplier = NoId
                         ELSE draft.supplier \in ToSet(Theirs)
                      /\ intent.saved # NoId => draft.supplier = intent.saved
                      /\ draft.amount > 0 => draft.quote = draft.amount
    BY DEF RestingFormFits
  <2>1. SuppliersFit(asked, draft, Theirs, intent) /\ QuoteFits(asked, draft)
    BY DEF CreateInv, FittingInv, Fitting, Theirs, TheirsOf
  <2>2. NoneOf(About, asked) /\ NoneOf({"createQuote"}, asked)
    BY DEF NoneOf
  <2> QED BY <2>1, <2>2 DEF SuppliersFit, Settled, QuoteFits
<1> QED BY <1>1, CreateInvHolds, PTL

(***************************************************************************)
(* The pages that follow a payment.  A payment has gone along the happy    *)
(* path as far as it has, and from there perhaps off it; so the statuses   *)
(* it has reached tell its status, and what a page shows tells less than,  *)
(* or the same as, what there is to be shown.                              *)
(***************************************************************************)
Upto(k) == {s \in PAYMENT_STATUSES : IndexOf(s) \in 1 .. k}

Shape(v) ==
  /\ v \in [status : PAYMENT_STATUSES, reached : SUBSET PAYMENT_STATUSES]
  /\ \/ IndexOf(v.status) \in 2 .. 8 /\ v.reached = Upto(IndexOf(v.status))
     \/ v.status = "Failed" /\ v.reached = Upto(2) \union {"Failed"}
     \/ v.status = "Refunding"
        /\ \E k \in 2 .. 7 : v.reached = Upto(k) \union {"Refunding"}
     \/ v.status = "Refunded"
        /\ \E k \in 2 .. 7 : v.reached = Upto(k) \union {"Refunding", "Refunded"}

\* What is shown may be older than what is, but not when it is an end.
Later(v, w) == v.reached \subseteq w.reached /\ (IsTerminal(v.status) => w = v)

SoundPayments == {p \in DemoPayments : Shape(View(p))}

LEMMA IndexOfIs ==
  /\ IndexOf("Quoted") = 1 /\ IndexOf("AwaitingFunding") = 2 /\ IndexOf("Funded") = 3
  /\ IndexOf("OnRamped") = 4 /\ IndexOf("Bridging") = 5 /\ IndexOf("Bridged") = 6
  /\ IndexOf("PayingOut") = 7 /\ IndexOf("Settled") = 8
  /\ IndexOf("Failed") = 0 /\ IndexOf("Refunding") = 0 /\ IndexOf("Refunded") = 0
<1>1. /\ DOMAIN HAPPY_PATH = 1 .. 8
      /\ HAPPY_PATH[1] = "Quoted" /\ HAPPY_PATH[2] = "AwaitingFunding"
      /\ HAPPY_PATH[3] = "Funded" /\ HAPPY_PATH[4] = "OnRamped" /\ HAPPY_PATH[5] = "Bridging"
      /\ HAPPY_PATH[6] = "Bridged" /\ HAPPY_PATH[7] = "PayingOut" /\ HAPPY_PATH[8] = "Settled"
  BY DEF HAPPY_PATH
<1>2. \A i \in 1 .. 8 : i \in {1, 2, 3, 4, 5, 6, 7, 8}
  OBVIOUS
<1>3. ASSUME NEW k \in 1 .. 8 PROVE IndexOf(HAPPY_PATH[k]) = k
  <2>1. \A i \in DOMAIN HAPPY_PATH : HAPPY_PATH[i] = HAPPY_PATH[k] => i = k
    BY <1>1, <1>2
  <2> QED BY <1>1, <2>1 DEF IndexOf
<1>4. ASSUME NEW s \in {"Failed", "Refunding", "Refunded"} PROVE IndexOf(s) = 0
  <2>1. ~\E i \in DOMAIN HAPPY_PATH : HAPPY_PATH[i] = s
    BY <1>1, <1>2
  <2> QED BY <2>1 DEF IndexOf
<1> QED BY <1>1, <1>3, <1>4

LEMMA HappyPathIs ==
  /\ HAPPY_PATH \in Seq(PAYMENT_STATUSES) /\ Len(HAPPY_PATH) = 8
  /\ \A i \in 1 .. 8 : HAPPY_PATH[i] \in PAYMENT_STATUSES /\ IndexOf(HAPPY_PATH[i]) = i
  /\ \A s \in PAYMENT_STATUSES : IndexOf(s) \in 0 .. 8
  /\ \A s \in PAYMENT_STATUSES : IndexOf(s) # 0 => HAPPY_PATH[IndexOf(s)] = s
<1>1. /\ HAPPY_PATH \in Seq(PAYMENT_STATUSES) /\ Len(HAPPY_PATH) = 8
      /\ HAPPY_PATH[1] = "Quoted" /\ HAPPY_PATH[2] = "AwaitingFunding"
      /\ HAPPY_PATH[3] = "Funded" /\ HAPPY_PATH[4] = "OnRamped" /\ HAPPY_PATH[5] = "Bridging"
      /\ HAPPY_PATH[6] = "Bridged" /\ HAPPY_PATH[7] = "PayingOut" /\ HAPPY_PATH[8] = "Settled"
  BY DEF HAPPY_PATH, PAYMENT_STATUSES
<1>2. \A i \in 1 .. 8 : i \in {1, 2, 3, 4, 5, 6, 7, 8}
  OBVIOUS
<1> QED BY <1>1, <1>2, IndexOfIs DEF PAYMENT_STATUSES

\* What events add to what is reached: one, or a part of the happy path.
Among(s) == {s[i] : i \in DOMAIN s}

Between(a, b) == {HAPPY_PATH[i] : i \in a + 1 .. b}

LEMMA ReachedByAppend ==
  ASSUME NEW s \in Seq(PAYMENT_STATUSES), NEW x \in PAYMENT_STATUSES, NEW t, t = Append(s, x)
  PROVE  /\ t \in Seq(PAYMENT_STATUSES)
         /\ Among(t) = Among(s) \union {x}
<1>1. /\ t \in Seq(PAYMENT_STATUSES) /\ DOMAIN t = 1 .. Len(s) + 1 /\ DOMAIN s = 1 .. Len(s)
      /\ t[Len(s) + 1] = x /\ \A i \in 1 .. Len(s) : t[i] = s[i]
  OBVIOUS
<1>2. Len(s) \in Nat /\ \A i : i \in 1 .. Len(s) + 1 <=> i \in 1 .. Len(s) \/ i = Len(s) + 1
  OBVIOUS
<1> QED BY <1>1, <1>2 DEF Among

LEMMA ReachedByPath ==
  ASSUME NEW s \in Seq(PAYMENT_STATUSES), NEW a \in 1 .. 8, NEW b \in 1 .. 8, a < b,
         NEW t, t = s \o SubSeq(HAPPY_PATH, a + 1, b)
  PROVE  /\ t \in Seq(PAYMENT_STATUSES)
         /\ Among(t) = Among(s) \union Between(a, b)
<1>1. PICK u : u = SubSeq(HAPPY_PATH, a + 1, b)
  OBVIOUS
<1>2. /\ u \in Seq(PAYMENT_STATUSES) /\ Len(u) = b - a
      /\ \A i \in 1 .. b - a : u[i] = HAPPY_PATH[a + i]
  <2>1. a + 1 \in Int /\ b \in Int /\ a + 1 <= b /\ (b - (a + 1)) + 1 = b - a
        /\ \A i \in a + 1 .. b : HAPPY_PATH[i] \in PAYMENT_STATUSES
    BY HappyPathIs
  <2>2. /\ u \in Seq(PAYMENT_STATUSES) /\ Len(u) = (b - (a + 1)) + 1
        /\ \A i \in 1 .. (b - (a + 1)) + 1 : u[i] = HAPPY_PATH[((a + 1) + i) - 1]
    BY <1>1, <2>1, SubSeqProperties
  <2>3. \A i \in 1 .. b - a : ((a + 1) + i) - 1 = a + i
    OBVIOUS
  <2> QED BY <2>1, <2>2, <2>3
<1>3. /\ t \in Seq(PAYMENT_STATUSES) /\ DOMAIN t = 1 .. Len(s) + (b - a)
      /\ DOMAIN s = 1 .. Len(s) /\ Len(s) \in Nat
      /\ \A i \in 1 .. Len(s) : t[i] = s[i]
      /\ \A i \in Len(s) + 1 .. Len(s) + (b - a) : t[i] = u[i - Len(s)]
  <2>1. t = s \o u
    BY <1>1
  <2>2. u \in Seq(PAYMENT_STATUSES)
    BY <1>2
  <2>3. /\ t \in Seq(PAYMENT_STATUSES) /\ Len(t) = Len(s) + Len(u)
        /\ \A i \in 1 .. Len(s) + Len(u) :
             t[i] = IF i <= Len(s) THEN s[i] ELSE u[i - Len(s)]
    BY <2>1, <2>2, ConcatProperties
  <2>4. /\ Len(u) = b - a /\ DOMAIN t = 1 .. Len(t)
        /\ DOMAIN s = 1 .. Len(s) /\ Len(s) \in Nat
    BY <1>2, <2>3
  <2> QED BY <2>3, <2>4
<1>4. ASSUME NEW i \in 1 .. Len(s) + (b - a)
      PROVE  t[i] \in {s[j] : j \in 1 .. Len(s)} \union {HAPPY_PATH[j] : j \in a + 1 .. b}
  <2>1. CASE i \in 1 .. Len(s)
    BY <1>3, <2>1
  <2>2. CASE i \in Len(s) + 1 .. Len(s) + (b - a)
    <3>1. i - Len(s) \in 1 .. b - a /\ a + (i - Len(s)) \in a + 1 .. b
      BY <1>3, <2>2
    <3>2. t[i] = HAPPY_PATH[a + (i - Len(s))]
      BY <1>2, <1>3, <2>2, <3>1
    <3> QED BY <3>1, <3>2
  <2> QED BY <1>3, <2>1, <2>2
<1>5. ASSUME NEW j \in a + 1 .. b PROVE \E i \in 1 .. Len(s) + (b - a) : t[i] = HAPPY_PATH[j]
  <2>1. PICK i : i = Len(s) + (j - a)
    OBVIOUS
  <2>2. /\ i \in Len(s) + 1 .. Len(s) + (b - a) /\ i - Len(s) = j - a /\ j - a \in 1 .. b - a
        /\ a + (j - a) = j /\ i \in 1 .. Len(s) + (b - a)
    BY <1>3, <2>1
  <2>3. t[i] = HAPPY_PATH[j]
    BY <1>2, <1>3, <2>2
  <2> QED BY <2>2, <2>3
<1>6. ASSUME NEW j \in 1 .. Len(s) PROVE \E i \in 1 .. Len(s) + (b - a) : t[i] = s[j]
  <2>1. j \in 1 .. Len(s) + (b - a)
    BY <1>3
  <2> QED BY <1>3, <2>1
<1>7. PICK S, P : S = {s[j] : j \in 1 .. Len(s)} /\ P = {HAPPY_PATH[j] : j \in a + 1 .. b}
  OBVIOUS
<1>8. {t[i] : i \in 1 .. Len(s) + (b - a)} \subseteq S \union P
  BY <1>4, <1>7
<1>9. S \subseteq {t[i] : i \in 1 .. Len(s) + (b - a)}
  BY <1>6, <1>7
<1>10. P \subseteq {t[i] : i \in 1 .. Len(s) + (b - a)}
  BY <1>5, <1>7
<1>11. {t[i] : i \in 1 .. Len(s) + (b - a)} = S \union P
  BY <1>8, <1>9, <1>10
<1> QED BY <1>3, <1>7, <1>11 DEF Among, Between

LEMMA LaterIsTransitive ==
  /\ \A v : Later(v, v)
  /\ \A u, v, w : Later(u, v) /\ Later(v, w) => Later(u, w)
  BY DEF Later

LEMMA UptoMore ==
  /\ \A s, r \in PAYMENT_STATUSES : IndexOf(s) = IndexOf(r) /\ IndexOf(s) # 0 => s = r
  /\ \A k \in 1 .. 7, s \in PAYMENT_STATUSES :
       IndexOf(s) = k + 1 => Upto(k + 1) = Upto(k) \union {s}
  /\ \A a, b \in 1 .. 8 : a < b =>
       Upto(b) = Upto(a) \union Between(a, b)
<1>1. \A s, r \in PAYMENT_STATUSES : IndexOf(s) = IndexOf(r) /\ IndexOf(s) # 0 => s = r
  BY HappyPathIs
<1>2. \A s \in PAYMENT_STATUSES : IndexOf(s) \in 0 .. 8
  BY HappyPathIs
<1>3. ASSUME NEW k \in 1 .. 7, NEW s \in PAYMENT_STATUSES, IndexOf(s) = k + 1
      PROVE  Upto(k + 1) = Upto(k) \union {s}
  <2>1. \A r \in PAYMENT_STATUSES : IndexOf(r) \in 1 .. k + 1 <=> IndexOf(r) \in 1 .. k \/ r = s
    BY <1>1, <1>2, <1>3
  <2> QED BY <2>1 DEF Upto
<1>4. ASSUME NEW a \in 1 .. 8, NEW b \in 1 .. 8, a < b
      PROVE  Upto(b) = Upto(a) \union Between(a, b)
  <2>1. ASSUME NEW r \in PAYMENT_STATUSES, IndexOf(r) \in 1 .. b
        PROVE  IndexOf(r) \in 1 .. a \/ \E i \in a + 1 .. b : r = HAPPY_PATH[i]
    <3>1. CASE IndexOf(r) \in 1 .. a
      BY <3>1
    <3>2. CASE IndexOf(r) \notin 1 .. a
      <4>1. IndexOf(r) \in a + 1 .. b /\ IndexOf(r) # 0
        BY <1>2, <1>4, <2>1, <3>2
      <4> QED BY <4>1, HappyPathIs
    <3> QED BY <3>1, <3>2
  <2>2. ASSUME NEW i \in a + 1 .. b
        PROVE  HAPPY_PATH[i] \in PAYMENT_STATUSES /\ IndexOf(HAPPY_PATH[i]) \in 1 .. b
    <3>1. i \in 1 .. 8 /\ i \in 1 .. b
      BY <2>2
    <3> QED BY <3>1, HappyPathIs
  <2>3. \A n \in 1 .. a : n \in 1 .. b
    BY <1>4
  <2> QED BY <2>1, <2>2, <2>3 DEF Upto, Between
<1> QED BY <1>1, <1>3, <1>4

\* The pieces of the demo client's calls.
LEMMA StageApplied ==
  ASSUME NEW p \in DemoPayments, NEW to \in PAYMENT_STATUSES
  PROVE  /\ ApplyStage(p, to) \in DemoPayments
         /\ View(ApplyStage(p, to)) = [status |-> to, reached |-> Reached(p) \union {to}]
<1>1. PICK es : es = Append(p.events, to)
  OBVIOUS
<1>2. p.events \in Seq(PAYMENT_STATUSES)
  BY DEF DemoPayments
<1>3. /\ es \in Seq(PAYMENT_STATUSES)
      /\ Among(es) = Among(p.events) \union {to}
  BY <1>1, <1>2, ReachedByAppend
<1>4. ApplyStage(p, to) = [p EXCEPT !.status = to, !.events = es]
  BY <1>1 DEF ApplyStage
<1>5. /\ ApplyStage(p, to) \in DemoPayments
      /\ ApplyStage(p, to).status = to /\ ApplyStage(p, to).events = es
  BY <1>3, <1>4 DEF DemoPayments
<1> QED BY <1>3, <1>5 DEF View, Reached, Among

LEMMA ViewTypes ==
  ASSUME NEW p \in DemoPayments
  PROVE  /\ View(p) \in [status : PAYMENT_STATUSES, reached : SUBSET PAYMENT_STATUSES]
         /\ View(p).status = p.status /\ View(p).reached = Reached(p)
<1>1. p.events \in Seq(PAYMENT_STATUSES) /\ p.status \in PAYMENT_STATUSES
  BY DEF DemoPayments
<1>2. \A i \in DOMAIN p.events : p.events[i] \in PAYMENT_STATUSES
  BY <1>1
<1> QED BY <1>1, <1>2 DEF View, Reached

\* A payment that is moved on to a status, keeping what it has reached.
LEMMA MovedOn ==
  ASSUME NEW p \in SoundPayments, NEW q \in DemoPayments, NEW more, ~IsTerminal(p.status),
         View(q).reached = Reached(p) \union more, Shape(View(q))
  PROVE  q \in SoundPayments /\ Later(View(p), View(q))
<1>1. View(p).reached = Reached(p) /\ View(p).status = p.status
  BY ViewTypes DEF SoundPayments
<1> QED BY <1>1 DEF SoundPayments, Later

LEMMA AdvancedTo ==
  ASSUME NEW p \in SoundPayments, NEW final \in PAYMENT_STATUSES, IndexOf(final) \in 2 .. 8
  PROVE  /\ AdvanceTo(p, final) \in SoundPayments
         /\ Later(View(p), View(AdvanceTo(p, final)))
<1>1. p \in DemoPayments /\ Shape(View(p)) /\ View(p).status = p.status
      /\ View(p).reached = Reached(p) /\ p.status \in PAYMENT_STATUSES
  BY ViewTypes DEF SoundPayments
<1>2. PICK ci, ti : ci = IndexOf(p.status) /\ ti = IndexOf(final)
  OBVIOUS
<1>3. CASE ci = 0 \/ ti <= ci
  BY <1>2, <1>3, LaterIsTransitive DEF AdvanceTo
<1>4. CASE ~(ci = 0 \/ ti <= ci)
  <2>1. ci \in 2 .. 7 /\ ti \in 2 .. 8 /\ ci < ti /\ Reached(p) = Upto(ci)
    <3>1. ci \in 0 .. 8
      BY <1>1, <1>2, HappyPathIs
    <3>2. ci \in 2 .. 8 /\ Reached(p) = Upto(ci)
      BY <1>1, <1>2, <1>4, IndexOfIs DEF Shape
    <3> QED BY <1>2, <1>4, <3>1, <3>2
  <2>2. PICK es : es = p.events \o SubSeq(HAPPY_PATH, ci + 1, ti)
    OBVIOUS
  <2>3. es \in Seq(PAYMENT_STATUSES) /\ Among(es) = Among(p.events) \union Between(ci, ti)
    <3>1. p.events \in Seq(PAYMENT_STATUSES) /\ ci \in 1 .. 8 /\ ti \in 1 .. 8 /\ ci < ti
      BY <1>1, <2>1 DEF DemoPayments
    <3> QED BY <2>2, <3>1, ReachedByPath
  <2>4. PICK q : q = [p EXCEPT !.status = final, !.events = es]
    OBVIOUS
  <2>5. q \in DemoPayments /\ q.status = final /\ q.events = es
    BY <1>1, <2>3, <2>4 DEF DemoPayments
  <2>6. AdvanceTo(p, final) = q
    BY <1>2, <1>4, <2>2, <2>4 DEF AdvanceTo
  <2>7. PICK more : more = Between(ci, ti)
    OBVIOUS
  <2>8. View(q).reached = Reached(p) \union more /\ View(q).status = final
    BY <2>3, <2>5, <2>7, ViewTypes DEF Reached, Among
  <2>9. Upto(ti) = Upto(ci) \union more
    BY <2>1, <2>7, UptoMore
  <2>10. Shape(View(q))
    BY <1>2, <2>1, <2>5, <2>8, <2>9, ViewTypes DEF Shape
  <2>11. ~IsTerminal(p.status)
    BY <1>2, <2>1, IndexOfIs DEF IsTerminal, TERMINAL_STATUSES
  <2> QED BY <2>5, <2>6, <2>8, <2>10, <2>11, MovedOn
<1> QED BY <1>3, <1>4

LEMMA Ticked ==
  ASSUME NEW p \in SoundPayments
  PROVE  Tick(p) \in SoundPayments /\ Later(View(p), View(Tick(p)))
<1>1. CASE p.steps = Unset \/ IsTerminal(p.status)
  BY <1>1, LaterIsTransitive DEF Tick
<1>2. CASE ~(p.steps = Unset \/ IsTerminal(p.status))
  <2>1. PICK final : final = IF p.steps = 0 THEN "Funded" ELSE STAGES_AFTER_FUNDED[p.steps]
    OBVIOUS
  <2>2. p.steps \in 0 .. 5
    BY <1>2 DEF SoundPayments, DemoPayments, STAGES_AFTER_FUNDED
  <2>3. final \in {"Funded", "OnRamped", "Bridging", "Bridged", "PayingOut", "Settled"}
    <3>1. p.steps \in {0, 1, 2, 3, 4, 5}
      BY <2>2
    <3> QED BY <2>1, <3>1 DEF STAGES_AFTER_FUNDED
  <2>4. final \in PAYMENT_STATUSES /\ IndexOf(final) \in 2 .. 8
    BY <2>3, IndexOfIs DEF PAYMENT_STATUSES
  <2>5. Tick(p) = AdvanceTo(p, final)
    BY <1>2, <2>1 DEF Tick
  <2> QED BY <2>4, <2>5, AdvancedTo
<1> QED BY <1>1, <1>2

LEMMA SimulatedFunding ==
  ASSUME NEW p \in SoundPayments
  PROVE  SimulateFunding(p) \in SoundPayments /\ Later(View(p), View(SimulateFunding(p)))
<1>1. CASE p.status # "AwaitingFunding"
  BY <1>1, LaterIsTransitive DEF SimulateFunding
<1>2. CASE p.status = "AwaitingFunding"
  <2>1. PICK q : q = [p EXCEPT !.steps = 0]
    OBVIOUS
  <2>2. q \in DemoPayments /\ Reached(q) = Reached(p)
    BY <2>1 DEF SoundPayments, DemoPayments, Reached
  <2>3. PICK r : r = ApplyStage(q, "Funded")
    OBVIOUS
  <2>4. /\ r \in DemoPayments
        /\ View(r) = [status |-> "Funded", reached |-> Reached(p) \union {"Funded"}]
    BY <2>2, <2>3, StageApplied DEF PAYMENT_STATUSES
  <2>5. Reached(p) = Upto(2)
    BY <1>2, ViewTypes, IndexOfIs DEF SoundPayments, Shape
  <2>6. Upto(3) = Upto(2) \union {"Funded"}
    BY UptoMore, IndexOfIs DEF PAYMENT_STATUSES
  <2>7. Shape(View(r))
    BY <2>4, <2>5, <2>6, ViewTypes, IndexOfIs DEF Shape
  <2>8. ~IsTerminal(p.status)
    BY <1>2 DEF IsTerminal, TERMINAL_STATUSES
  <2>9. r \in SoundPayments /\ Later(View(p), View(r))
    BY <2>4, <2>7, <2>8, MovedOn
  <2>10. SimulateFunding(p) = r
    BY <1>2, <2>1, <2>3 DEF SimulateFunding
  <2> QED BY <2>9, <2>10
<1> QED BY <1>1, <1>2

LEMMA Rescheduled ==
  ASSUME NEW p \in SoundPayments, NEW n \in {Unset} \union 0 .. 5
  PROVE  /\ [p EXCEPT !.steps = n] \in SoundPayments
         /\ View([p EXCEPT !.steps = n]) = View(p)
<1>1. PICK q : q = [p EXCEPT !.steps = n]
  OBVIOUS
<1>2. q \in DemoPayments /\ q.status = p.status /\ q.events = p.events
  BY <1>1 DEF SoundPayments, DemoPayments, STAGES_AFTER_FUNDED
<1>3. View(q) = View(p)
  BY <1>2 DEF View, Reached
<1> QED BY <1>1, <1>2, <1>3 DEF SoundPayments

LEMMA Refunded ==
  ASSUME NEW p \in SoundPayments
  PROVE  RefundPayment(p) \in SoundPayments /\ Later(View(p), View(RefundPayment(p)))
<1>1. CASE IsTerminal(p.status)
  BY <1>1, LaterIsTransitive DEF RefundPayment
<1>2. CASE ~IsTerminal(p.status)
  <2>1. PICK q : q = [p EXCEPT !.steps = Unset]
    OBVIOUS
  <2>2. q \in DemoPayments /\ Reached(q) = Reached(p)
    BY <2>1 DEF SoundPayments, DemoPayments, Reached
  <2>3. PICK r : r = ApplyStage(q, "Refunding")
    OBVIOUS
  <2>4. r \in DemoPayments /\ View(r).reached = Reached(p) \union {"Refunding"}
    BY <2>2, <2>3, StageApplied DEF PAYMENT_STATUSES
  <2>5. Reached(r) = Reached(p) \union {"Refunding"}
    BY <2>4, ViewTypes
  <2>6. PICK s : s = ApplyStage(r, "Refunded")
    OBVIOUS
  <2>7. /\ s \in DemoPayments
        /\ View(s) = [status |-> "Refunded", reached |-> Reached(p) \union {"Refunding", "Refunded"}]
    <3>1. Reached(r) \union {"Refunded"} = Reached(p) \union {"Refunding", "Refunded"}
      BY <2>5
    <3> QED BY <2>4, <2>6, <3>1, StageApplied DEF PAYMENT_STATUSES
  <2>8. \E k \in 2 .. 7 : Reached(p) = Upto(k) \/ Reached(p) = Upto(k) \union {"Refunding"}
    <3>1. /\ Shape(View(p)) /\ View(p).status = p.status /\ View(p).reached = Reached(p)
          /\ p.status \in PAYMENT_STATUSES
      BY ViewTypes DEF SoundPayments, DemoPayments
    <3>2. p.status \notin {"Settled", "Failed", "Refunded"}
      BY <1>2 DEF IsTerminal, TERMINAL_STATUSES
    <3>3. CASE p.status = "Refunding"
      BY <3>1, <3>3, IndexOfIs DEF Shape
    <3>4. CASE p.status # "Refunding"
      <4>1. IndexOf(p.status) \in 2 .. 8 /\ Reached(p) = Upto(IndexOf(p.status))
        BY <3>1, <3>2, <3>4 DEF Shape
      <4>2. IndexOf(p.status) # 8
        BY <3>1, <3>2, <4>1, IndexOfIs, UptoMore DEF PAYMENT_STATUSES
      <4>3. IndexOf(p.status) \in 2 .. 7
        BY <4>1, <4>2
      <4> QED BY <4>1, <4>3
    <3> QED BY <3>3, <3>4
  <2>9. \E k \in 2 .. 7 :
          Reached(p) \union {"Refunding", "Refunded"} = Upto(k) \union {"Refunding", "Refunded"}
    BY <2>8
  <2>10. Shape(View(s))
    BY <2>7, <2>9, ViewTypes DEF Shape
  <2>11. s \in SoundPayments /\ Later(View(p), View(s))
    BY <1>2, <2>7, <2>10, MovedOn
  <2>12. RefundPayment(p) = s
    BY <1>2, <2>1, <2>3, <2>6 DEF RefundPayment
  <2> QED BY <2>11, <2>12
<1> QED BY <1>1, <1>2

\* A call of the demo client takes a payment no way back.
LEMMA CalledIsLater ==
  ASSUME NEW p \in SoundPayments, NEW call \in Calls
  PROVE  Called(call, p) \in SoundPayments /\ Later(View(p), View(Called(call, p)))
<1>1. PICK now \in SoundPayments : now = Tick(p) /\ Later(View(p), View(now))
  BY Ticked
<1>2. PICK q : q = Called(call, p)
  OBVIOUS
<1>3. RetryPayment(now) \in SoundPayments /\ View(RetryPayment(now)) = View(now)
  <2>1. PICK r \in SoundPayments : r = [now EXCEPT !.steps = 0] /\ View(r) = View(now)
    <3>1. 0 \in {Unset} \union 0 .. 5
      OBVIOUS
    <3> QED BY <3>1, Rescheduled
  <2> QED BY <2>1 DEF RetryPayment
<1>4. q \in SoundPayments /\ Later(View(now), View(q))
  <2>1. CASE call = "getPayment"
    BY <1>1, <1>2, <2>1, LaterIsTransitive DEF Called
  <2>2. CASE call = "simulateFunding"
    BY <1>1, <1>2, <2>2, SimulatedFunding DEF Called
  <2>3. CASE call = "retryPayment"
    BY <1>1, <1>2, <1>3, <2>3, LaterIsTransitive DEF Called
  <2>4. CASE call = "refundPayment"
    BY <1>1, <1>2, <2>4, Refunded DEF Called
  <2> QED BY <2>1, <2>2, <2>3, <2>4 DEF Calls
<1> QED BY <1>1, <1>2, <1>4, LaterIsTransitive

\* Nor does the API.
LEMMA ApiMoveIsLater ==
  ASSUME NEW p \in SoundPayments, NEW to \in TRANSITIONS[p.status]
  PROVE  ApplyStage(p, to) \in SoundPayments /\ Later(View(p), View(ApplyStage(p, to)))
<1>1. /\ p \in DemoPayments /\ Shape(View(p)) /\ View(p).status = p.status
      /\ View(p).reached = Reached(p) /\ p.status \in PAYMENT_STATUSES
  BY ViewTypes DEF SoundPayments, DemoPayments
<1>2. /\ to \in PAYMENT_STATUSES /\ ~IsTerminal(p.status)
      /\ \/ to = "Refunding" /\ IndexOf(p.status) \in 2 .. 7
         \/ to = "Refunded" /\ p.status = "Refunding"
         \/ to = "Failed" /\ IndexOf(p.status) \in 1 .. 2
         \/ IndexOf(p.status) \in 1 .. 7 /\ IndexOf(to) = IndexOf(p.status) + 1
  BY <1>1, IndexOfIs DEF TRANSITIONS, PAYMENT_STATUSES, IsTerminal, TERMINAL_STATUSES
<1>3. PICK q : q = ApplyStage(p, to)
  OBVIOUS
<1>4. q \in DemoPayments /\ View(q) = [status |-> to, reached |-> Reached(p) \union {to}]
  BY <1>1, <1>2, <1>3, StageApplied
<1>5. IndexOf(p.status) # 0 => IndexOf(p.status) \in 2 .. 8 /\ Reached(p) = Upto(IndexOf(p.status))
  BY <1>1, IndexOfIs DEF Shape
<1>6. Shape(View(q))
  <2>1. CASE to = "Refunding" /\ IndexOf(p.status) \in 2 .. 7
    BY <1>4, <1>5, <2>1, ViewTypes DEF Shape
  <2>2. CASE to = "Refunded" /\ p.status = "Refunding"
    <3>1. PICK k \in 2 .. 7 : Reached(p) = Upto(k) \union {"Refunding"}
      BY <1>1, <2>2, IndexOfIs DEF Shape
    <3>2. Reached(p) \union {to} = Upto(k) \union {"Refunding", "Refunded"}
      BY <2>2, <3>1
    <3> QED BY <1>4, <2>2, <3>2, ViewTypes DEF Shape
  <2>3. CASE to = "Failed" /\ IndexOf(p.status) \in 1 .. 2
    <3>1. IndexOf(p.status) = 2
      BY <1>5, <2>3
    <3> QED BY <1>4, <1>5, <2>3, <3>1, ViewTypes DEF Shape
  <2>4. CASE IndexOf(p.status) \in 1 .. 7 /\ IndexOf(to) = IndexOf(p.status) + 1
    <3>1. PICK k \in 2 .. 7 : k = IndexOf(p.status)
      BY <1>5, <2>4
    <3>2. Upto(k + 1) = Upto(k) \union {to} /\ k + 1 \in 2 .. 8
      BY <1>2, <2>4, <3>1, UptoMore
    <3> QED BY <1>4, <1>5, <2>4, <3>1, <3>2, ViewTypes DEF Shape
  <2> QED BY <1>2, <2>1, <2>2, <2>3, <2>4
<1> QED BY <1>2, <1>3, <1>4, <1>6, MovedOn

\* What a tab shows, and what its requests were answered, is no newer than the payment.
\* In the demo answers come one after the other, and with the end comes its ledger.
Ledgers == {UnreadLedger} \union SUBSET Bookings

Loads == [call : Calls, busy : BOOLEAN, payment : Views, ledger : Ledgers]

Screens == [payment : Views, ledger : Ledgers]

Known(v, now) == v = Unread \/ (Shape(v) /\ Later(v, now))

TabFits(sh, w, p) ==
  Known(sh.payment, View(p)) /\ \A i \in 1 .. Len(w) : Known(w[i].payment, View(p))

DemoTabFits(t, sh, w, p) ==
  /\ t \in OpsTabs /\ IsTerminal(sh.payment.status) => sh.ledger = LedgerFor(p)
  /\ \A i \in 1 .. Len(w) :
       /\ w[i].payment # Unread
       /\ sh.payment # Unread => Later(sh.payment, w[i].payment)
       /\ ReadsLedger(t, w[i]) /\ IsTerminal(w[i].payment.status) => w[i].ledger = LedgerFor(p)
  /\ \A i, j \in 1 .. Len(w) : i < j => Later(w[i].payment, w[j].payment)

TrackInv ==
  /\ scene \in Scenes /\ record \in SoundPayments /\ lost \in 0 .. MaxLost
  /\ rendered \in [Tabs -> Screens] /\ waiting \in [Tabs -> Seq(Loads)]
  /\ \A t \in Tabs :
       /\ scene.page = "track" => Len(waiting[t]) <= scene.ahead
       /\ TabFits(rendered[t], waiting[t], record)
       /\ ~http => DemoTabFits(t, rendered[t], waiting[t], record)

LEMMA UnreadIs ==
  /\ Unread \in Views /\ UnreadLedger \in Ledgers /\ ~IsTerminal(Unread.status)
  /\ \A v : Shape(v) => v \in Views /\ v # Unread
  /\ [payment |-> Unread, ledger |-> UnreadLedger] \in Screens
<1>1. "none" \notin PAYMENT_STATUSES
  BY DEF PAYMENT_STATUSES
<1> QED
  BY <1>1 DEF Unread, Views, Ledgers, IsTerminal, TERMINAL_STATUSES, Shape, Screens

LEMMA LedgerOfView ==
  /\ \A p \in SoundPayments : LedgerFor(p) \in Ledgers
  /\ \A p, q : View(p) = View(q) => LedgerFor(p) = LedgerFor(q)
<1>1. ASSUME NEW p, NEW q, View(p) = View(q) PROVE LedgerFor(p) = LedgerFor(q)
  <2>1. p.status = q.status /\ Reached(p) = Reached(q)
    BY <1>1 DEF View
  <2> QED BY <2>1 DEF LedgerFor, HasReached
<1>2. \A p \in SoundPayments : LedgerFor(p) \in Ledgers
  BY DEF LedgerFor, Ledgers, Bookings
<1> QED BY <1>1, <1>2

\* When the payment moves on, what a tab knows is older.
LEMMA KnownStays ==
  ASSUME NEW p \in SoundPayments, NEW q \in SoundPayments, Later(View(p), View(q)),
         NEW v, Known(v, View(p))
  PROVE  /\ Known(v, View(q))
         /\ IsTerminal(v.status) => LedgerFor(q) = LedgerFor(p)
<1>1. CASE v = Unread
  BY <1>1, UnreadIs DEF Known
<1>2. CASE Shape(v) /\ Later(v, View(p))
  <2>1. Later(v, View(q))
    BY <1>2, LaterIsTransitive
  <2>2. IsTerminal(v.status) => View(p) = v /\ View(q) = v
    BY <1>2, <2>1 DEF Later
  <2> QED BY <1>2, <2>1, <2>2, LedgerOfView DEF Known
<1> QED BY <1>1, <1>2 DEF Known

LEMMA TabFitsStays ==
  ASSUME NEW p \in SoundPayments, NEW q \in SoundPayments, Later(View(p), View(q)),
         NEW t, NEW sh, NEW w, TabFits(sh, w, p)
  PROVE  /\ TabFits(sh, w, q)
         /\ DemoTabFits(t, sh, w, p) => DemoTabFits(t, sh, w, q)
<1>1. TabFits(sh, w, q)
  BY KnownStays DEF TabFits
<1>2. /\ IsTerminal(sh.payment.status) => LedgerFor(q) = LedgerFor(p)
      /\ \A i \in 1 .. Len(w) : IsTerminal(w[i].payment.status) => LedgerFor(q) = LedgerFor(p)
  BY KnownStays DEF TabFits
<1> QED BY <1>1, <1>2 DEF DemoTabFits

\* A step of one tab, and perhaps of the payment.
LEMMA TabSteps ==
  ASSUME TrackInv, UNCHANGED scene, NEW q \in SoundPayments, Later(View(record), View(q)),
         record' = q, lost' \in 0 .. MaxLost, NEW t \in Tabs, NEW sh \in Screens,
         rendered' = [rendered EXCEPT ![t] = sh], NEW w \in Seq(Loads),
         waiting' = [waiting EXCEPT ![t] = w], scene.page = "track" => Len(w) <= scene.ahead,
         TabFits(sh, w, q), ~http => DemoTabFits(t, sh, w, q)
  PROVE  TrackInv'
<1>1. PICK r \in [Tabs -> Screens] : r = [rendered EXCEPT ![t] = sh]
  BY DEF TrackInv
<1>2. PICK s \in [Tabs -> Seq(Loads)] : s = [waiting EXCEPT ![t] = w]
  BY DEF TrackInv
<1>3. r[t] = sh /\ s[t] = w /\ \A u \in Tabs : u # t => r[u] = rendered[u] /\ s[u] = waiting[u]
  BY <1>1, <1>2 DEF TrackInv
<1>4. ASSUME NEW u \in Tabs
      PROVE  /\ scene.page = "track" => Len(s[u]) <= scene.ahead
             /\ TabFits(r[u], s[u], q)
             /\ ~http => DemoTabFits(u, r[u], s[u], q)
  <2>1. CASE u = t
    BY <1>3, <2>1
  <2>2. CASE u # t
    <3>1. /\ record \in SoundPayments
          /\ scene.page = "track" => Len(waiting[u]) <= scene.ahead
          /\ TabFits(rendered[u], waiting[u], record)
          /\ ~http => DemoTabFits(u, rendered[u], waiting[u], record)
      BY DEF TrackInv
    <3>2. /\ TabFits(rendered[u], waiting[u], q)
          /\ ~http => DemoTabFits(u, rendered[u], waiting[u], q)
      BY <3>1, TabFitsStays
    <3> QED BY <1>3, <2>2, <3>1, <3>2
  <2> QED BY <2>1, <2>2
<1>5. rendered' = r /\ waiting' = s
  BY <1>1, <1>2
<1>6. ASSUME NEW u \in Tabs
      PROVE  /\ TabFits(rendered[u], waiting[u], record)'
             /\ ~http => DemoTabFits(u, rendered[u], waiting[u], record)'
  <2>1. PICK a, b : a = r[u] /\ b = s[u]
    OBVIOUS
  <2>2. rendered'[u] = a /\ waiting'[u] = b /\ record' = q
    BY <1>5, <2>1
  <2>3. TabFits(a, b, q) /\ (~http => DemoTabFits(u, a, b, q))
    BY <1>4, <2>1
  <2>4. TabFits(rendered[u], waiting[u], record)'
    BY <2>2, <2>3
  <2>5. ~http => DemoTabFits(u, rendered[u], waiting[u], record)'
    BY <2>2, <2>3
  <2> QED BY <2>4, <2>5
<1>7. \A u \in Tabs : scene'.page = "track" => Len(waiting'[u]) <= scene'.ahead
  BY <1>4, <1>5
<1> QED BY <1>5, <1>6, <1>7 DEF TrackInv, http

LEMMA AppendedFits ==
  ASSUME NEW q \in SoundPayments, NEW sh, NEW before \in Seq(Loads), NEW x \in Loads,
         TabFits(sh, before, q), Known(x.payment, View(q))
  PROVE  /\ Append(before, x) \in Seq(Loads)
         /\ Len(Append(before, x)) = Len(before) + 1
         /\ TabFits(sh, Append(before, x), q)
         /\ x.payment = View(q) =>
              \A t : DemoTabFits(t, sh, before, q) /\ (ReadsLedger(t, x) => x.ledger = LedgerFor(q))
                     => DemoTabFits(t, sh, Append(before, x), q)
<1>0. PICK w : w = Append(before, x)
  OBVIOUS
<1>1. /\ w \in Seq(Loads) /\ Len(w) = Len(before) + 1 /\ w[Len(before) + 1] = x
      /\ \A i \in 1 .. Len(before) : w[i] = before[i]
      /\ Len(before) \in Nat
  BY <1>0
<1>2. \A i : i \in 1 .. Len(w) <=> i \in 1 .. Len(before) \/ i = Len(before) + 1
  BY <1>1
<1>3. TabFits(sh, w, q)
  BY <1>1, <1>2 DEF TabFits
<1>4. ASSUME NEW t, DemoTabFits(t, sh, before, q), x.payment = View(q),
             ReadsLedger(t, x) => x.ledger = LedgerFor(q)
      PROVE  DemoTabFits(t, sh, w, q)
  <2>1. /\ x.payment # Unread
        /\ sh.payment # Unread => Later(sh.payment, x.payment)
        /\ \A i \in 1 .. Len(before) : Later(before[i].payment, x.payment)
    <3>1. x.payment # Unread
      BY <1>4, UnreadIs DEF SoundPayments
    <3> QED BY <1>4, <3>1 DEF DemoTabFits, TabFits, Known
  <2>2. ASSUME NEW i \in 1 .. Len(w), NEW j \in 1 .. Len(w), i < j
        PROVE  Later(w[i].payment, w[j].payment)
    <3>1. i \in 1 .. Len(before)
      BY <1>1, <2>2
    <3>2. CASE j \in 1 .. Len(before)
      BY <1>1, <1>4, <2>2, <3>1, <3>2 DEF DemoTabFits
    <3>3. CASE j = Len(before) + 1
      BY <1>1, <2>1, <3>1, <3>3
    <3> QED BY <1>2, <3>2, <3>3
  <2>3. ASSUME NEW i \in 1 .. Len(w)
        PROVE  /\ w[i].payment # Unread
               /\ sh.payment # Unread => Later(sh.payment, w[i].payment)
               /\ ReadsLedger(t, w[i]) /\ IsTerminal(w[i].payment.status) =>
                    w[i].ledger = LedgerFor(q)
    <3>1. CASE i \in 1 .. Len(before)
      BY <1>1, <1>4, <3>1 DEF DemoTabFits
    <3>2. CASE i = Len(before) + 1
      BY <1>1, <1>4, <2>1, <3>2
    <3> QED BY <1>2, <3>1, <3>2
  <2> QED BY <1>4, <2>2, <2>3 DEF DemoTabFits
<1> QED BY <1>0, <1>1, <1>3, <1>4

LEMMA RequestIs ==
  ASSUME NEW call \in Calls, NEW busy \in BOOLEAN
  PROVE  /\ Request(call, busy) \in Loads
         /\ Request(call, busy).call = call /\ Request(call, busy).payment = Unread
         /\ Request(call, busy).ledger = UnreadLedger
  BY UnreadIs DEF Request, Loads

LEMMA AskKeeps ==
  ASSUME TrackInv, UNCHANGED <<scene, lost>>, NEW t \in Tabs, NEW before \in Seq(Loads),
         NEW r \in Loads, r.payment = Unread, r.ledger = UnreadLedger, Ask(t, r, before),
         NEW sh \in Screens, rendered' = [rendered EXCEPT ![t] = sh],
         TabFits(sh, before, record), ~http => DemoTabFits(t, sh, before, record)
  PROVE  TrackInv'
<1>1. PICK p \in SoundPayments : p = record
  BY DEF TrackInv
<1>2. lost' \in 0 .. MaxLost /\ Len(before) < scene.ahead
  BY DEF TrackInv, Ask
<1>a. scene.ahead \in Nat /\ Len(before) \in Nat
  BY BrowserAssumption DEF TrackInv
<1>3. CASE http
  <2>1. PICK w : w = Append(before, r)
    OBVIOUS
  <2>2. record' = p /\ waiting' = [waiting EXCEPT ![t] = w]
    BY <1>1, <1>3, <2>1 DEF Ask
  <2>3. w \in Seq(Loads) /\ Len(w) = Len(before) + 1 /\ TabFits(sh, w, p)
    <3>1. TabFits(sh, before, p) /\ Known(r.payment, View(p))
      BY <1>1 DEF Known
    <3>2. /\ Append(before, r) \in Seq(Loads) /\ Len(Append(before, r)) = Len(before) + 1
          /\ TabFits(sh, Append(before, r), p)
      BY <3>1, AppendedFits
    <3> QED BY <2>1, <3>2
  <2>4. scene.page = "track" => Len(w) <= scene.ahead
    <3>1. scene.page = "track" => Len(before) + 1 <= scene.ahead
      BY <1>2, <1>a
    <3> QED BY <2>3, <3>1
  <2>5. Later(View(record), View(p))
    BY <1>1, LaterIsTransitive
  <2> QED BY <1>1, <1>2, <1>3, <2>2, <2>3, <2>4, <2>5, TabSteps
<1>4. CASE ~http
  <2>1. PICK q \in SoundPayments : q = Called(r.call, p) /\ Later(View(p), View(q))
    BY <1>1, CalledIsLater DEF Loads
  <2>2. PICK x : x = Served(t, r, p)
    OBVIOUS
  <2>3. /\ x = [r EXCEPT !.payment = View(q),
                         !.ledger = IF ReadsLedger(t, r) THEN LedgerFor(q) ELSE UnreadLedger]
    BY <2>1, <2>2 DEF Served
  <2>4. /\ x \in Loads /\ x.payment = View(q) /\ (ReadsLedger(t, x) => x.ledger = LedgerFor(q))
    <3>1. View(q) \in Views /\ LedgerFor(q) \in Ledgers
      BY UnreadIs, LedgerOfView DEF SoundPayments
    <3> QED BY <2>3, <3>1, UnreadIs DEF Loads, ReadsLedger
  <2>5. PICK w : w = Append(before, x)
    OBVIOUS
  <2>6. record' = q /\ waiting' = [waiting EXCEPT ![t] = w]
    BY <1>1, <1>4, <2>1, <2>2, <2>5 DEF Ask
  <2>7. TabFits(sh, before, q) /\ DemoTabFits(t, sh, before, q)
    BY <1>1, <1>4, <2>1, TabFitsStays
  <2>8. Known(x.payment, View(q))
    BY <2>4, LaterIsTransitive DEF Known, SoundPayments
  <2>9. /\ w \in Seq(Loads) /\ Len(w) = Len(before) + 1
        /\ TabFits(sh, w, q) /\ DemoTabFits(t, sh, w, q)
    <3>1. PICK y \in Loads : y = x
      BY <2>4
    <3>2. w = Append(before, y) /\ Known(y.payment, View(q)) /\ TabFits(sh, before, q)
      BY <2>5, <2>7, <2>8, <3>1
    <3>3. /\ DemoTabFits(t, sh, before, q) /\ y.payment = View(q)
          /\ (ReadsLedger(t, y) => y.ledger = LedgerFor(q))
      BY <2>4, <2>7, <3>1
    <3>4. /\ Append(before, y) \in Seq(Loads) /\ Len(Append(before, y)) = Len(before) + 1
          /\ TabFits(sh, Append(before, y), q)
      BY <3>2, AppendedFits
    <3>5. DemoTabFits(t, sh, Append(before, y), q)
      BY <3>2, <3>3, AppendedFits
    <3> QED BY <3>2, <3>4, <3>5
  <2>10. scene.page = "track" => Len(w) <= scene.ahead
    <3>1. scene.page = "track" => Len(before) + 1 <= scene.ahead
      BY <1>2, <1>a
    <3> QED BY <2>9, <3>1
  <2> QED BY <1>1, <1>2, <2>1, <2>6, <2>9, <2>10, TabSteps
<1> QED BY <1>3, <1>4

LEMMA StartFits ==
  ASSUME NEW q \in SoundPayments, NEW t
  PROVE  /\ TabFits([payment |-> Unread, ledger |-> UnreadLedger], <<>>, q)
         /\ DemoTabFits(t, [payment |-> Unread, ledger |-> UnreadLedger], <<>>, q)
<1>1. Len(<<>>) = 0 /\ 1 .. 0 = {}
  OBVIOUS
<1> QED BY <1>1, UnreadIs DEF TabFits, DemoTabFits, Known

\* An answer goes; in the demo it is the oldest, and what it says may be shown.
LEMMA RemovedFits ==
  ASSUME NEW q \in SoundPayments, NEW sh, NEW w \in Seq(Loads), NEW i \in 1 .. Len(w),
         TabFits(sh, w, q)
  PROVE  /\ RemoveAt(w, i) \in Seq(Loads)
         /\ Len(RemoveAt(w, i)) = Len(w) - 1
         /\ TabFits(sh, RemoveAt(w, i), q)
         /\ i = 1 => \A t : DemoTabFits(t, sh, w, q) => DemoTabFits(t, sh, RemoveAt(w, i), q)
<1>1. PICK v : v = RemoveAt(w, i)
  OBVIOUS
<1>2. /\ v \in Seq(Loads) /\ Len(v) = Len(w) - 1
      /\ \A j \in 1 .. Len(w) - 1 : v[j] = w[IF j < i THEN j ELSE j + 1]
  BY <1>1, RemovalKeeps
<1>3. Len(w) \in Nat
  OBVIOUS
<1>4. ASSUME NEW j \in 1 .. Len(v)
      PROVE  /\ \E k \in 1 .. Len(w) : v[j] = w[k]
             /\ i = 1 => j + 1 \in 1 .. Len(w) /\ v[j] = w[j + 1]
  <2>1. PICK n \in Nat : n = Len(w)
    BY <1>3
  <2>2. j \in 1 .. n - 1 /\ j \in 1 .. n /\ j + 1 \in 1 .. n
    BY <1>2, <2>1
  <2>3. v[j] = w[IF j < i THEN j ELSE j + 1]
    BY <1>2, <2>1, <2>2
  <2>4. i = 1 => ~(j < i)
    BY <2>2
  <2> QED BY <2>1, <2>2, <2>3, <2>4
<1>5. TabFits(sh, v, q)
  BY <1>4 DEF TabFits
<1>6. ASSUME i = 1, NEW t, DemoTabFits(t, sh, w, q) PROVE DemoTabFits(t, sh, v, q)
  <2>1. ASSUME NEW j \in 1 .. Len(v), NEW k \in 1 .. Len(v), j < k
        PROVE  Later(v[j].payment, v[k].payment)
    <3>1. /\ j + 1 \in 1 .. Len(w) /\ k + 1 \in 1 .. Len(w) /\ j + 1 < k + 1
          /\ v[j] = w[j + 1] /\ v[k] = w[k + 1]
      BY <1>4, <1>6, <2>1
    <3> QED BY <1>6, <3>1 DEF DemoTabFits
  <2>2. \A j \in 1 .. Len(v) : \E k \in 1 .. Len(w) : v[j] = w[k]
    BY <1>4
  <2> QED BY <1>6, <2>1, <2>2 DEF DemoTabFits
<1> QED BY <1>1, <1>2, <1>5, <1>6

LEMMA AnswerFits ==
  ASSUME NEW q \in SoundPayments, NEW sh, NEW w \in Seq(Loads), NEW i \in 1 .. Len(w),
         TabFits(sh, w, q), w[i].call = "getPayment", NEW new,
         new = [payment |-> w[i].payment, ledger |-> w[i].ledger]
  PROVE  /\ new \in Screens
         /\ TabFits(new, RemoveAt(w, i), q)
         /\ i = 1 => \A t : DemoTabFits(t, sh, w, q) => DemoTabFits(t, new, RemoveAt(w, i), q)
<1>1. /\ RemoveAt(w, i) \in Seq(Loads) /\ Len(RemoveAt(w, i)) = Len(w) - 1
      /\ TabFits(sh, RemoveAt(w, i), q)
      /\ i = 1 => \A t : DemoTabFits(t, sh, w, q) => DemoTabFits(t, sh, RemoveAt(w, i), q)
  BY RemovedFits
<1>2. PICK v : v = RemoveAt(w, i)
  OBVIOUS
<1>3. new \in Screens /\ new.payment = w[i].payment /\ new.ledger = w[i].ledger
  <2>1. w[i] \in Loads
    OBVIOUS
  <2> QED BY <2>1 DEF Loads, Screens
<1>4. TabFits(new, v, q)
  BY <1>1, <1>2, <1>3 DEF TabFits
<1>5. ASSUME i = 1, NEW t, DemoTabFits(t, sh, w, q) PROVE DemoTabFits(t, new, v, q)
  <2>1. DemoTabFits(t, sh, v, q)
    BY <1>1, <1>2, <1>5
  <2>2. t \in OpsTabs /\ IsTerminal(new.payment.status) => new.ledger = LedgerFor(q)
    BY <1>3, <1>5 DEF DemoTabFits, ReadsLedger
  <2>3. ASSUME NEW j \in 1 .. Len(v) PROVE Later(new.payment, v[j].payment)
    <3>1. v[j] = w[j + 1] /\ j + 1 \in 1 .. Len(w) /\ 1 \in 1 .. Len(w) /\ 1 < j + 1
      <4>1. PICK n \in Nat : n = Len(w)
        OBVIOUS
      <4>2. j \in 1 .. n - 1 /\ j + 1 \in 1 .. n /\ 1 \in 1 .. n /\ 1 < j + 1 /\ ~(j < 1)
        BY <1>1, <1>2, <4>1
      <4>3. RemoveAt(w, i)[j] = w[IF j < i THEN j ELSE j + 1]
        BY <4>1, <4>2, RemovalKeeps
      <4> QED BY <1>2, <1>5, <4>1, <4>2, <4>3
    <3> QED BY <1>3, <1>5, <3>1 DEF DemoTabFits
  <2> QED BY <2>1, <2>2, <2>3 DEF DemoTabFits
<1> QED BY <1>2, <1>3, <1>4, <1>5

LEMMA ServedFits ==
  ASSUME NEW q \in SoundPayments, NEW sh, NEW w \in Seq(Loads), NEW i \in 1 .. Len(w),
         TabFits(sh, w, q), NEW v,
         \/ v = [w EXCEPT ![i].payment = View(q)]
         \/ v = [w EXCEPT ![i].ledger = LedgerFor(q)]
  PROVE  v \in Seq(Loads) /\ Len(v) = Len(w) /\ TabFits(sh, v, q)
<1>1. View(q) \in Views /\ Known(View(q), View(q)) /\ LedgerFor(q) \in Ledgers
  BY LedgerOfView, UnreadIs, LaterIsTransitive DEF SoundPayments, Known
<1>2. PICK x \in Loads : x = w[i]
  OBVIOUS
<1>3. PICK y \in Loads :
        /\ v = [w EXCEPT ![i] = y]
        /\ y.payment = View(q) \/ y.payment = x.payment
  <2>1. CASE v = [w EXCEPT ![i].payment = View(q)]
    <3>1. PICK y : y = [x EXCEPT !.payment = View(q)]
      OBVIOUS
    <3>2. y \in Loads /\ y.payment = View(q)
      BY <1>1, <3>1 DEF Loads
    <3> QED BY <1>2, <2>1, <3>1, <3>2
  <2>2. CASE v = [w EXCEPT ![i].ledger = LedgerFor(q)]
    <3>1. PICK y : y = [x EXCEPT !.ledger = LedgerFor(q)]
      OBVIOUS
    <3>2. y \in Loads /\ y.payment = x.payment
      BY <1>1, <3>1 DEF Loads
    <3> QED BY <1>2, <2>2, <3>1, <3>2
  <2> QED BY <2>1, <2>2
<1>4. /\ v \in Seq(Loads) /\ Len(v) = Len(w)
      /\ \A j \in 1 .. Len(w) : v[j] = IF j = i THEN y ELSE w[j]
  BY <1>3
<1>5. Known(y.payment, View(q))
  BY <1>1, <1>2, <1>3 DEF TabFits
<1> QED BY <1>4, <1>5 DEF TabFits

LEMMA FirstPayments ==
  MakePayment("AwaitingFunding") \in SoundPayments /\ Seed \subseteq SoundPayments
<1>1. PICK new : new = [status |-> "AwaitingFunding", events |-> <<"Quoted", "AwaitingFunding">>,
                        steps |-> Unset]
  OBVIOUS
<1>2. new \in SoundPayments
  <2>1. new \in DemoPayments /\ new.status = "AwaitingFunding"
    BY <1>1 DEF DemoPayments, PAYMENT_STATUSES
  <2>2. Reached(new) = {"Quoted", "AwaitingFunding"}
    <3>1. /\ new.events[1] = "Quoted" /\ new.events[2] = "AwaitingFunding"
          /\ DOMAIN new.events = 1 .. 2
      BY <1>1
    <3>2. 1 .. 2 = {1, 2}
      OBVIOUS
    <3> QED BY <3>1, <3>2 DEF Reached
  <2>3. Upto(2) = {"Quoted", "AwaitingFunding"}
    BY IndexOfIs DEF Upto, PAYMENT_STATUSES
  <2> QED BY <2>1, <2>2, <2>3, ViewTypes, IndexOfIs DEF Shape, SoundPayments
<1>3. MakePayment("AwaitingFunding") \in SoundPayments
  BY <1>1, <1>2 DEF MakePayment
<1>4. MakePayment("Settled") \in SoundPayments
  <2>1. PICK p : p = [new EXCEPT !.steps = 5]
    OBVIOUS
  <2>2. p \in SoundPayments
    <3>1. 5 \in {Unset} \union 0 .. 5
      OBVIOUS
    <3> QED BY <1>2, <2>1, <3>1, Rescheduled
  <2>3. AdvanceTo(p, "Settled") \in SoundPayments
    BY <2>2, AdvancedTo, IndexOfIs DEF PAYMENT_STATUSES
  <2>4. MakePayment("Settled") = AdvanceTo(p, "Settled")
    BY <1>1, <2>1 DEF MakePayment, STAGES_AFTER_FUNDED
  <2> QED BY <2>3, <2>4
<1>5. MakePayment("Refunded") \in SoundPayments
  <2>1. PICK p \in SoundPayments : p = AdvanceTo(new, "Bridged")
    BY <1>2, AdvancedTo, IndexOfIs DEF PAYMENT_STATUSES
  <2>2. p.status = "Bridged" /\ Reached(p) = Upto(6)
    <3>1. p.status = "Bridged"
      BY <1>1, <2>1, IndexOfIs DEF AdvanceTo
    <3>2. Shape(View(p)) /\ View(p).reached = Reached(p) /\ View(p).status = p.status
      BY ViewTypes DEF SoundPayments
    <3> QED BY <3>1, <3>2, IndexOfIs DEF Shape
  <2>3. PICK q, r : q = ApplyStage(p, "Refunding") /\ r = ApplyStage(q, "Refunded")
    OBVIOUS
  <2>4. q \in DemoPayments /\ Reached(q) = Upto(6) \union {"Refunding"}
    <3>1. p \in DemoPayments
      BY DEF SoundPayments
    <3>2. q \in DemoPayments /\ View(q).reached = Reached(p) \union {"Refunding"}
      BY <2>3, <3>1, StageApplied DEF PAYMENT_STATUSES
    <3> QED BY <2>2, <3>2, ViewTypes
  <2>5. /\ r \in DemoPayments
        /\ View(r) = [status |-> "Refunded", reached |-> Reached(q) \union {"Refunded"}]
    BY <2>3, <2>4, StageApplied DEF PAYMENT_STATUSES
  <2>6. Shape(View(r))
    <3>1. View(r).reached = Upto(6) \union {"Refunding", "Refunded"}
      BY <2>4, <2>5
    <3>2. 6 \in 2 .. 7
      OBVIOUS
    <3> QED BY <2>5, <3>1, <3>2, ViewTypes DEF Shape
  <2>7. MakePayment("Refunded") = r
    BY <1>1, <2>1, <2>3 DEF MakePayment
  <2> QED BY <2>5, <2>6, <2>7 DEF SoundPayments
<1> QED BY <1>3, <1>4, <1>5 DEF Seed

LEMMA TrackStarts == BrowserInit => TrackInv
<1> SUFFICES ASSUME BrowserInit PROVE TrackInv
  OBVIOUS
<1>1. record \in SoundPayments /\ scene \in Scenes /\ lost = 0
  BY FirstPayments DEF BrowserInit, TrackInit
<1>2. PICK start : start = [payment |-> Unread, ledger |-> UnreadLedger]
  OBVIOUS
<1>3. start \in Screens
  BY <1>2, UnreadIs
<1>4. rendered = [t \in Tabs |-> start] /\ waiting = [t \in Tabs |-> <<>>]
  BY <1>2 DEF BrowserInit, TrackInit
<1>5. \A t : TabFits(start, <<>>, record) /\ DemoTabFits(t, start, <<>>, record)
  BY <1>1, <1>2, StartFits
<1>6. scene.ahead \in Nat /\ MaxLost \in Nat /\ Len(<<>>) = 0 /\ <<>> \in Seq(Loads)
  BY <1>1, BrowserAssumption, PaymentPagesAssumption
<1>7. rendered \in [Tabs -> Screens] /\ waiting \in [Tabs -> Seq(Loads)]
  BY <1>3, <1>4, <1>6
<1>8. ASSUME NEW t \in Tabs
      PROVE  /\ Len(waiting[t]) <= scene.ahead
             /\ TabFits(rendered[t], waiting[t], record)
             /\ DemoTabFits(t, rendered[t], waiting[t], record)
  <2>1. rendered[t] = start /\ waiting[t] = <<>>
    BY <1>4
  <2> QED BY <1>5, <1>6, <2>1
<1>9. lost \in 0 .. MaxLost
  BY <1>1, <1>6
<1> QED BY <1>1, <1>7, <1>8, <1>9 DEF TrackInv

LEMMA TrackSteps ==
  ASSUME TrackInv, scene.page = "track", UNCHANGED scene, TrackNext
  PROVE  TrackInv'
<1>1. PICK p \in SoundPayments : p = record
  BY DEF TrackInv
<1>2. /\ scene.ahead \in Nat /\ lost \in 0 .. MaxLost /\ MaxLost \in Nat
      /\ rendered \in [Tabs -> Screens] /\ waiting \in [Tabs -> Seq(Loads)]
  BY BrowserAssumption, PaymentPagesAssumption DEF TrackInv
<1>3. "getPayment" \in Calls /\ FALSE \in BOOLEAN /\ TRUE \in BOOLEAN
  BY DEF Calls
<1>4. ASSUME NEW t \in Tabs, Open(t) PROVE TrackInv'
  <2>1. PICK sh \in Screens : sh = [payment |-> Unread, ledger |-> UnreadLedger]
    BY UnreadIs
  <2>2. PICK r \in Loads : /\ r = Request("getPayment", FALSE) /\ r.payment = Unread
                           /\ r.ledger = UnreadLedger
    BY <1>3, RequestIs
  <2>3. PICK none \in Seq(Loads) : none = <<>>
    <3>1. <<>> \in Seq(Loads)
      OBVIOUS
    <3> QED BY <3>1
  <2>4. /\ Ask(t, r, none) /\ rendered' = [rendered EXCEPT ![t] = sh]
        /\ UNCHANGED <<scene, lost>>
    BY <1>4, <2>1, <2>2, <2>3 DEF Open
  <2>5. TabFits(sh, none, record) /\ DemoTabFits(t, sh, none, record)
    BY <1>1, <2>1, <2>3, StartFits
  <2> QED BY <2>2, <2>4, <2>5, AskKeeps
<1>5. ASSUME NEW t \in Tabs, NEW call \in Calls, NEW busy \in BOOLEAN,
             Ask(t, Request(call, busy), waiting[t]), UNCHANGED <<rendered, lost>>
      PROVE  TrackInv'
  <2>1. PICK sh \in Screens, before \in Seq(Loads) : sh = rendered[t] /\ before = waiting[t]
    BY <1>2
  <2>2. PICK r \in Loads : /\ r = Request(call, busy) /\ r.payment = Unread
                           /\ r.ledger = UnreadLedger
    BY RequestIs
  <2>3. /\ Ask(t, r, before) /\ rendered' = [rendered EXCEPT ![t] = sh]
        /\ UNCHANGED <<scene, lost>>
    BY <1>2, <1>5, <2>1, <2>2
  <2>4. TabFits(sh, before, record) /\ (~http => DemoTabFits(t, sh, before, record))
    BY <2>1 DEF TrackInv
  <2> QED BY <2>2, <2>3, <2>4, AskKeeps
<1>6. ASSUME NEW t \in Tabs, PollPayment(t) PROVE TrackInv'
  BY <1>3, <1>5, <1>6 DEF PollPayment
<1>7. ASSUME NEW t \in Tabs, Confirm(t) PROVE TrackInv'
  <2>1. "simulateFunding" \in Calls
    BY DEF Calls
  <2> QED BY <1>3, <1>5, <1>7, <2>1 DEF Confirm
<1>8. ASSUME NEW t \in Tabs, NEW call \in Calls, Act(t, call) PROVE TrackInv'
  BY <1>3, <1>5, <1>8 DEF Act
\* A step of one tab that leaves the payment.
<1>9. ASSUME NEW t \in Tabs, NEW sh \in Screens, NEW w \in Seq(Loads), UNCHANGED record,
             lost' \in 0 .. MaxLost, rendered' = [rendered EXCEPT ![t] = sh],
             waiting' = [waiting EXCEPT ![t] = w], Len(w) <= scene.ahead,
             TabFits(sh, w, record), ~http => DemoTabFits(t, sh, w, record)
      PROVE  TrackInv'
  <2>1. record' = p /\ Later(View(record), View(p))
    BY <1>1, <1>9, LaterIsTransitive
  <2>2. TabFits(sh, w, p) /\ (~http => DemoTabFits(t, sh, w, p))
    BY <1>1, <1>9
  <2> QED BY <1>9, <2>1, <2>2, TabSteps
<1>10. ASSUME NEW t \in Tabs, NEW i \in 1 .. scene.ahead, Serve(t, i) PROVE TrackInv'
  <2>1. PICK sh \in Screens, w \in Seq(Loads) : sh = rendered[t] /\ w = waiting[t]
    BY <1>2
  <2>2. i \in 1 .. Len(w) /\ TabFits(sh, w, p) /\ http /\ Len(w) <= scene.ahead
    BY <1>1, <1>10, <2>1 DEF Serve, TrackInv
  <2>3. PICK v : /\ waiting' = [waiting EXCEPT ![t] = v]
                 /\ \/ v = [w EXCEPT ![i].payment = View(p)]
                    \/ v = [w EXCEPT ![i].ledger = LedgerFor(p)]
    <3>1. \/ waiting' = [waiting EXCEPT ![t] = [w EXCEPT ![i].payment = View(p)]]
          \/ waiting' = [waiting EXCEPT ![t] = [w EXCEPT ![i].ledger = LedgerFor(p)]]
      BY <1>1, <1>2, <1>10, <2>1 DEF Serve
    <3> QED BY <3>1
  <2>4. v \in Seq(Loads) /\ Len(v) = Len(w) /\ TabFits(sh, v, p)
    BY <2>2, <2>3, ServedFits
  <2>5. UNCHANGED record /\ lost' \in 0 .. MaxLost /\ rendered' = [rendered EXCEPT ![t] = sh]
    BY <1>2, <1>10, <2>1 DEF Serve
  <2> QED BY <1>1, <1>9, <2>2, <2>3, <2>4, <2>5
<1>11. ASSUME NEW t \in Tabs, NEW i \in 1 .. scene.ahead, Lose(t, i) PROVE TrackInv'
  <2>1. PICK sh \in Screens, w \in Seq(Loads) : sh = rendered[t] /\ w = waiting[t]
    BY <1>2
  <2>2. i \in 1 .. Len(w) /\ TabFits(sh, w, p) /\ http /\ Len(w) <= scene.ahead
    BY <1>1, <1>11, <2>1 DEF Lose, TrackInv
  <2>3. PICK v \in Seq(Loads) : /\ v = RemoveAt(w, i) /\ Len(v) = Len(w) - 1
                                /\ TabFits(sh, v, p)
    BY <2>2, RemovedFits
  <2>4. /\ UNCHANGED record /\ lost' \in 0 .. MaxLost
        /\ rendered' = [rendered EXCEPT ![t] = sh] /\ waiting' = [waiting EXCEPT ![t] = v]
    BY <1>2, <1>11, <2>1, <2>3 DEF Lose
  <2>5. Len(v) <= scene.ahead
    BY <1>2, <2>2, <2>3
  <2> QED BY <1>1, <1>9, <2>2, <2>3, <2>4, <2>5
<1>12. ASSUME NEW t \in Tabs, NEW i \in 1 .. scene.ahead, Answer(t, i) PROVE TrackInv'
  <2>1. PICK sh \in Screens, w \in Seq(Loads) : sh = rendered[t] /\ w = waiting[t]
    BY <1>2
  <2>2. /\ i \in 1 .. Len(w) /\ (~http => i = 1) /\ TabFits(sh, w, record)
        /\ Len(w) <= scene.ahead /\ (~http => DemoTabFits(t, sh, w, record))
    BY <1>12, <2>1 DEF Answer, TrackInv
  <2>3. PICK v \in Seq(Loads) : /\ v = RemoveAt(w, i) /\ Len(v) = Len(w) - 1
                                /\ TabFits(sh, v, p)
                                /\ (~http => DemoTabFits(t, sh, v, p))
    BY <1>1, <2>2, RemovedFits
  <2>4. CASE w[i].call = "getPayment"
    <3>1. PICK new : new = [payment |-> w[i].payment, ledger |-> w[i].ledger]
      OBVIOUS
    <3>2. new \in Screens /\ TabFits(new, v, p) /\ (~http => DemoTabFits(t, new, v, p))
      BY <1>1, <2>2, <2>3, <2>4, <3>1, AnswerFits
    <3>3. /\ UNCHANGED <<record, lost>> /\ rendered' = [rendered EXCEPT ![t] = new]
          /\ waiting' = [waiting EXCEPT ![t] = v]
      BY <1>12, <2>1, <2>3, <2>4, <3>1 DEF Answer
    <3>4. Len(v) <= scene.ahead /\ lost' \in 0 .. MaxLost
      BY <1>2, <2>2, <2>3, <3>3
    <3> QED BY <1>1, <1>9, <3>2, <3>3, <3>4
  <2>5. CASE w[i].call # "getPayment"
    <3>1. PICK r \in Loads : /\ r = Request("getPayment", TRUE) /\ r.payment = Unread
                             /\ r.ledger = UnreadLedger
      BY <1>3, RequestIs
    <3>2. Ask(t, r, v) /\ UNCHANGED <<scene, rendered, lost>>
      BY <1>12, <2>1, <2>3, <2>5, <3>1 DEF Answer
    <3>3. rendered' = [rendered EXCEPT ![t] = sh]
      BY <1>2, <2>1, <3>2
    <3>4. TabFits(sh, v, record) /\ (~http => DemoTabFits(t, sh, v, record))
      BY <1>1, <2>3
    <3> QED BY <3>1, <3>2, <3>3, <3>4, AskKeeps
  <2> QED BY <2>4, <2>5
\* A step of the payment alone.
<1>13. ASSUME NEW q \in SoundPayments, Later(View(p), View(q)), record' = q,
              UNCHANGED <<rendered, waiting, lost>>
       PROVE  TrackInv'
  <2>1. ASSUME NEW t \in Tabs
        PROVE  /\ TabFits(rendered[t], waiting[t], q)
               /\ ~http => DemoTabFits(t, rendered[t], waiting[t], q)
    <3>1. /\ TabFits(rendered[t], waiting[t], p)
          /\ ~http => DemoTabFits(t, rendered[t], waiting[t], p)
      BY <1>1 DEF TrackInv
    <3> QED BY <1>13, <3>1, TabFitsStays
  <2>2. ASSUME NEW t \in Tabs
        PROVE  /\ TabFits(rendered[t], waiting[t], record)'
               /\ ~http => DemoTabFits(t, rendered[t], waiting[t], record)'
    <3>1. PICK a, b : a = rendered[t] /\ b = waiting[t]
      OBVIOUS
    <3>2. rendered'[t] = a /\ waiting'[t] = b /\ record' = q
      BY <1>13, <3>1
    <3>3. TabFits(a, b, q) /\ (~http => DemoTabFits(t, a, b, q))
      BY <2>1, <3>1
    <3>4. TabFits(rendered[t], waiting[t], record)'
      BY <3>2, <3>3
    <3>5. ~http => DemoTabFits(t, rendered[t], waiting[t], record)'
      BY <3>2, <3>3
    <3> QED BY <3>4, <3>5
  <2> QED BY <1>13, <2>2 DEF TrackInv, http
<1>14. CASE ScheduleMoves
  <2>1. PICK n : n = record.steps + 1
    OBVIOUS
  <2>2. n \in {Unset} \union 0 .. 5
    BY <1>1, <1>14, <2>1 DEF ScheduleMoves, SoundPayments, DemoPayments, STAGES_AFTER_FUNDED
  <2>3. PICK q \in SoundPayments : q = [p EXCEPT !.steps = n] /\ View(q) = View(p)
    BY <2>2, Rescheduled
  <2>4. record' = q /\ UNCHANGED <<rendered, waiting, lost>> /\ Later(View(p), View(q))
    BY <1>1, <1>14, <2>1, <2>3, LaterIsTransitive DEF ScheduleMoves
  <2> QED BY <1>13, <2>4
<1>15. CASE ApiMoves
  <2>1. PICK to \in TRANSITIONS[p.status] : record' = ApplyStage(p, to)
    BY <1>1, <1>15 DEF ApiMoves
  <2>2. PICK q \in SoundPayments : q = ApplyStage(p, to) /\ Later(View(p), View(q))
    BY ApiMoveIsLater
  <2> QED BY <1>13, <1>15, <2>1, <2>2 DEF ApiMoves
<1> QED
  BY <1>4, <1>6, <1>7, <1>8, <1>10, <1>11, <1>12, <1>14, <1>15 DEF TrackNext

LEMMA TrackInvHolds == BrowserSpec => []TrackInv
<1>1. TrackInv /\ [BrowserNext]_vars => TrackInv'
  <2> SUFFICES ASSUME TrackInv, [BrowserNext]_vars PROVE TrackInv'
    OBVIOUS
  <2>1. CASE scene.page = "track" /\ TrackNext /\ UNCHANGED scene
    BY <2>1, TrackSteps
  <2>2. CASE UNCHANGED <<scene, trackVars>>
    BY <2>2 DEF trackVars, TrackInv, http
  <2> QED BY <2>1, <2>2 DEF BrowserNext, vars
<1> QED BY <1>1, TrackStarts, PTL DEF BrowserSpec

\* Over HTTP a payment that has gone on from AwaitingFunding, other than by failing, has
\* been collected: the graph has no other way.
CollectedInv ==
  http => record.status \in {"AwaitingFunding", "Failed"} \/ "Funded" \in Reached(record)

LEMMA CollectedHolds == BrowserSpec => []CollectedInv
<1>1. BrowserInit => CollectedInv
  BY DEF BrowserInit, TrackInit, CollectedInv, MakePayment
<1>2. TrackInv /\ CollectedInv /\ [BrowserNext]_vars => CollectedInv'
  <2> SUFFICES ASSUME TrackInv, CollectedInv, [BrowserNext]_vars PROVE CollectedInv'
    OBVIOUS
  <2>1. scene' = scene /\ (http' <=> http)
    BY DEF BrowserNext, vars, http
  <2>2. CASE UNCHANGED record
    BY <2>1, <2>2 DEF CollectedInv
  <2>3. CASE ~http
    BY <2>1, <2>3 DEF CollectedInv
  <2>4. CASE http /\ scene.page = "track" /\ ApiMoves
    <3>1. PICK p \in SoundPayments : p = record
      BY DEF TrackInv
    <3>2. PICK to \in TRANSITIONS[p.status] : record' = ApplyStage(p, to)
      BY <2>4, <3>1 DEF ApiMoves
    <3>3. PICK q \in SoundPayments : q = ApplyStage(p, to)
      BY ApiMoveIsLater
    <3>4. p \in DemoPayments /\ p.status \in PAYMENT_STATUSES /\ to \in PAYMENT_STATUSES
      BY DEF SoundPayments, DemoPayments, TRANSITIONS, PAYMENT_STATUSES
    <3>5. q.status = to /\ Reached(q) = Reached(p) \union {to}
      BY <3>3, <3>4, StageApplied, ViewTypes DEF SoundPayments
    <3>6. p.status = "AwaitingFunding" => to \in {"Funded", "Failed"}
      BY DEF TRANSITIONS
    <3>7. p.status # "Failed"
      BY DEF TRANSITIONS
    <3>8. q.status \in {"AwaitingFunding", "Failed"} \/ "Funded" \in Reached(q)
      BY <2>4, <3>1, <3>5, <3>6, <3>7 DEF CollectedInv
    <3>9. record' = q
      BY <3>2, <3>3
    <3> QED BY <3>8, <3>9 DEF CollectedInv
  <2>5. http /\ ~UNCHANGED record => scene.page = "track" /\ ApiMoves
    <3>1. BrowserNext /\ ~UNCHANGED record => scene.page = "track" /\ TrackNext
      BY DEF BrowserNext, trackVars
    <3>2. ~UNCHANGED record => BrowserNext
      BY DEF vars, trackVars
    <3>3. http /\ TrackNext => UNCHANGED record \/ ApiMoves
      BY DEF TrackNext, Open, PollPayment, Confirm, Act, Serve, Answer, Lose, ScheduleMoves, Ask
    <3> QED BY <3>1, <3>2, <3>3
  <2> QED BY <2>2, <2>3, <2>4, <2>5
<1> QED BY <1>1, <1>2, TrackInvHolds, PTL DEF BrowserSpec

(***************************************************************************)
(* What follows for the pages.                                             *)
(***************************************************************************)

\* Every step of the browser, whatever it is used for, keeps the state well formed: no
\* tab has more requests waiting, and no page made more payments, than the bounds say.
THEOREM TypesOfBrowser == BrowserSpec => []BrowserTypeOK
<1>1. CreateInv => CreateTypeOK \/ scene.page # "create"
  <2> SUFFICES ASSUME CreateInv, scene.page = "create" PROVE CreateTypeOK
    OBVIOUS
  <2>1. PICK n \in [made : 0 .. MaxMade, opened : Nat, failed : 0 .. MaxDropped] :
          n = tally /\ n.opened <= n.made
    <3>1. PICK n \in [made : 0 .. MaxMade, opened : Nat, failed : 0 .. MaxDropped] :
            n = tally /\ Paying(asked, draft.busy, n)
      BY DEF CreateInv, PayingInv, Paying
    <3>2. n.opened + 1 <= n.made \/ n.opened <= n.made
      BY <3>1 DEF Paying
    <3>3. n.opened \in Nat /\ n.made \in Nat
      BY NewPaymentAssumption
    <3> QED BY <3>1, <3>2, <3>3
  <2>2. n.opened \in 0 .. MaxMade
    BY <2>1, NewPaymentAssumption
  <2>3. tally \in [made : 0 .. MaxMade, opened : 0 .. MaxMade, failed : 0 .. MaxDropped]
    BY <2>1, <2>2
  <2>4. PICK d \in DraftSet : d = draft
    BY DEF CreateInv, FormTypes
  <2>5. /\ d.importers \in Seq(FormImporters) /\ d.suppliers \in Seq(FormSuppliers)
        /\ d.importer \in FormImporters \union {NoId} /\ d.supplier \in FormSuppliers \union {NoId}
        /\ {d.amount, d.timer, d.quote} \subseteq Amounts \union {0} /\ d.busy \in BOOLEAN
    BY DEF DraftSet
  <2> QED BY <2>3, <2>4, <2>5 DEF CreateInv, FormTypes, CreateTypeOK, RowSet, IntentSet
<1>2. TrackInv => TrackTypeOK \/ scene.page # "track"
  <2> SUFFICES ASSUME TrackInv, scene.page = "track" PROVE TrackTypeOK
    OBVIOUS
  <2>1. ASSUME NEW t \in Tabs
        PROVE  /\ rendered[t].payment \in Views
               /\ rendered[t].ledger \in {UnreadLedger} \union SUBSET Bookings
               /\ Len(waiting[t]) <= scene.ahead
               /\ \A i \in DOMAIN waiting[t] :
                    /\ waiting[t][i].call \in Calls /\ waiting[t][i].busy \in BOOLEAN
                    /\ waiting[t][i].payment \in Views
                    /\ waiting[t][i].ledger \in {UnreadLedger} \union SUBSET Bookings
    <3>1. rendered[t] \in Screens /\ waiting[t] \in Seq(Loads) /\ Len(waiting[t]) <= scene.ahead
      BY DEF TrackInv
    <3>2. \A i \in DOMAIN waiting[t] : waiting[t][i] \in Loads
      BY <3>1
    <3> QED BY <3>1, <3>2 DEF Screens, Loads, Ledgers
  <2> QED BY <2>1 DEF TrackTypeOK, TrackInv, SoundPayments
<1>3. TrackInv /\ CreateInv => BrowserTypeOK
  BY <1>1, <1>2 DEF TrackInv, BrowserTypeOK
<1> QED BY <1>3, TrackInvHolds, CreateInvHolds, PTL

\* However its polls, buttons and answers crossed, a page that has stopped asking shows
\* the payment as it ended; and the operations page of the demo its whole ledger.
THEOREM StoppedPagesShowTheEnd == BrowserSpec => []StoppedPagesAreFinal
<1>1. TrackInv => StoppedPagesAreFinal
  <2> SUFFICES ASSUME TrackInv, NEW t \in Tabs, rendered[t].payment # Unread, ~InFlight(t)
               PROVE  /\ rendered[t].payment = View(record)
                      /\ ~http /\ t \in OpsTabs => rendered[t].ledger = LedgerFor(record)
    BY DEF StoppedPagesAreFinal
  <2>1. IsTerminal(rendered[t].payment.status)
    BY DEF InFlight
  <2>2. Later(rendered[t].payment, View(record))
    BY DEF TrackInv, TabFits, Known
  <2>3. ~http /\ t \in OpsTabs => rendered[t].ledger = LedgerFor(record)
    BY <2>1 DEF TrackInv, DemoTabFits
  <2> QED BY <2>1, <2>2, <2>3 DEF Later
<1> QED BY <1>1, TrackInvHolds, PTL

\* Where a payment is that has reached what a page shows.
LEMMA WhatWasShown ==
  ASSUME NEW p \in SoundPayments, NEW v, Shape(v), Later(v, View(p))
  PROVE  /\ v.status = "Settled" => "Settled" \in LedgerFor(p)
         /\ v.status \in {"Failed", "Refunding", "Refunded"} => "Settled" \notin LedgerFor(p)
         /\ v.status = "Failed" => "Funded" \notin LedgerFor(p)
         /\ v.status \in {"Failed", "Refunded"} => p.status = v.status
         /\ v.status = "Refunding" => IsRefundFlow(p.status)
         /\ v.status \notin {"Quoted", "AwaitingFunding", "Failed", "Refunding", "Refunded"} =>
              "Funded" \in LedgerFor(p)
<1>1. /\ Shape(View(p)) /\ View(p).status = p.status /\ View(p).reached = Reached(p)
      /\ v.reached \subseteq Reached(p)
  BY ViewTypes DEF SoundPayments, Later
<1>2. ASSUME v.status = "Settled" PROVE "Settled" \in LedgerFor(p)
  <2>1. p.status = "Settled"
    BY <1>1, <1>2 DEF Later, IsTerminal, TERMINAL_STATUSES
  <2> QED BY <2>1 DEF LedgerFor, HasReached
<1>3. \A k \in 2 .. 7 : {"Settled", "Failed", "Refunding", "Refunded"} \intersect Upto(k) = {}
  BY IndexOfIs DEF Upto
<1>4. ASSUME v.status \in {"Failed", "Refunding", "Refunded"}
      PROVE  IndexOf(p.status) = 0 /\ p.status # "Settled" /\ "Settled" \notin Reached(p)
  <2>1. v.status \in v.reached
    BY <1>4, IndexOfIs DEF Shape
  <2>2. v.status \in Reached(p)
    BY <1>1, <2>1
  <2>3. ~(IndexOf(p.status) \in 2 .. 8 /\ Reached(p) = Upto(IndexOf(p.status)))
    <3>1. v.status \notin Upto(8) /\ \A k \in 2 .. 8 : v.status \notin Upto(k)
      BY <1>4, IndexOfIs DEF Upto
    <3> QED BY <2>2, <3>1
  <2>4. \/ p.status = "Failed" /\ Reached(p) = Upto(2) \union {"Failed"}
        \/ p.status = "Refunding" /\ \E k \in 2 .. 7 : Reached(p) = Upto(k) \union {"Refunding"}
        \/ p.status = "Refunded"
           /\ \E k \in 2 .. 7 : Reached(p) = Upto(k) \union {"Refunding", "Refunded"}
    BY <1>1, <2>3 DEF Shape
  <2>5. p.status \in {"Failed", "Refunding", "Refunded"}
    BY <2>4
  <2>6. "Settled" \notin Reached(p)
    BY <1>3, <2>4
  <2> QED BY <2>5, <2>6, IndexOfIs
<1>5. ASSUME v.status \in {"Failed", "Refunding", "Refunded"} PROVE "Settled" \notin LedgerFor(p)
  BY <1>4, <1>5, IndexOfIs DEF LedgerFor, HasReached
<1>6. ASSUME v.status = "Failed" PROVE "Funded" \notin LedgerFor(p)
  <2>1. p.status = "Failed" /\ Reached(p) = v.reached
    BY <1>1, <1>6 DEF Later, IsTerminal, TERMINAL_STATUSES
  <2>2. "Funded" \notin v.reached
    <3>1. "Funded" \notin Upto(2)
      BY IndexOfIs DEF Upto
    <3> QED BY <1>6, <3>1, IndexOfIs DEF Shape
  <2> QED BY <2>1, <2>2, IndexOfIs DEF LedgerFor, HasReached
<1>7. v.status \in {"Failed", "Refunded"} => p.status = v.status
  BY <1>1 DEF Later, IsTerminal, TERMINAL_STATUSES
<1>8. ASSUME v.status = "Refunding" PROVE IsRefundFlow(p.status)
  <2>1. "Refunding" \in Reached(p)
    BY <1>1, <1>8, IndexOfIs DEF Shape
  <2>2. \A k \in 2 .. 8 : "Refunding" \notin Upto(k)
    BY IndexOfIs DEF Upto
  <2> QED BY <1>1, <2>1, <2>2 DEF Shape, IsRefundFlow
<1>9. ASSUME v.status \notin {"Quoted", "AwaitingFunding", "Failed", "Refunding", "Refunded"}
      PROVE  "Funded" \in LedgerFor(p)
  <2>1. IndexOf(v.status) \in 3 .. 8 /\ v.reached = Upto(IndexOf(v.status))
    <3>1. v.status \in {"Funded", "OnRamped", "Bridging", "Bridged", "PayingOut", "Settled"}
      BY <1>9 DEF Shape, PAYMENT_STATUSES
    <3>2. IndexOf(v.status) \in 3 .. 8
      BY <3>1, IndexOfIs
    <3> QED BY <1>9, <3>2 DEF Shape
  <2>2. "Funded" \in v.reached
    BY <2>1, IndexOfIs DEF Upto, PAYMENT_STATUSES
  <2> QED BY <1>1, <2>2 DEF LedgerFor, HasReached
<1> QED BY <1>2, <1>5, <1>6, <1>7, <1>8, <1>9

\* The words under the milestones, by status.
LEMMA WordsOfMilestones ==
  ASSUME NEW status \in PAYMENT_STATUSES, NEW perspective \in {"importer", "exporter"}
  PROVE  \A w \in MilestoneWords(status, perspective) :
           /\ w \notin OfNoDelivery /\ w \notin OfNoCollection
           /\ w \in OfDelivery => status = "Settled"
           /\ w \in OfCollection => status \notin {"Quoted", "AwaitingFunding"}
<1> SUFFICES ASSUME NEW w \in MilestoneWords(status, perspective)
             PROVE  /\ w \notin OfNoDelivery /\ w \notin OfNoCollection
                    /\ w \in OfDelivery => status = "Settled"
                    /\ w \in OfCollection => status \notin {"Quoted", "AwaitingFunding"}
  OBVIOUS
<1>1. PICK i \in 0 .. 3 :
        /\ Milestone(status, i) # "upcoming" \/ (i = 0 /\ perspective = "importer")
        /\ w = LABELS[perspective][i + 1].label \/ w = MilestoneSub(status, perspective, i)
  BY DEF MilestoneWords
<1>2. /\ Milestone(status, 1) # "upcoming" => status \notin {"Quoted", "AwaitingFunding"}
      /\ Milestone(status, 3) # "upcoming" => status = "Settled"
  BY DEF Milestone, MILESTONE_INDEX, Unset, PAYMENT_STATUSES
<1>3. CASE perspective = "importer"
  <2>1. CASE i = 0
    <3>1. \/ w \in {"Confirm & pay", "Preparing your quote", "Approve the M-Pesa prompt on your phone"}
          \/ w = "Paid via M-Pesa" /\ status \notin {"Quoted", "AwaitingFunding"}
      <4>1. LABELS["importer"][1].label = "Confirm & pay"
        BY DEF LABELS
      <4>2. 0 + 1 = 1
        OBVIOUS
      <4>3. w = "Confirm & pay" \/ w = MilestoneSub(status, "importer", 0)
        BY <1>1, <1>3, <2>1, <4>1, <4>2
      <4> QED BY <4>3 DEF MilestoneSub
    <3> QED BY <3>1 DEF OfDelivery, OfReturn, OfNoDelivery, OfCollection,
                           OfNoCollection
  <2>2. CASE i = 1
    <3>1. w \in {"Payment received", "We've got your shillings"}
      <4>1. /\ LABELS["importer"][2].label = "Payment received"
            /\ LABELS["importer"][2].sub = "We've got your shillings"
        BY DEF LABELS
      <4>2. 1 + 1 = 2
        OBVIOUS
      <4>3. w = LABELS["importer"][2].label \/ w = LABELS["importer"][2].sub
        BY <1>1, <1>3, <2>2, <4>2 DEF MilestoneSub
      <4> QED BY <4>1, <4>3
    <3>2. status \notin {"Quoted", "AwaitingFunding"}
      BY <1>1, <1>2, <1>3, <2>2
    <3> QED BY <3>1, <3>2 DEF OfDelivery, OfReturn, OfNoDelivery, OfCollection,
                           OfNoCollection
  <2>3. CASE i = 2
    <3>1. w \in {"On its way", "Converting and sending to your supplier"}
      <4>1. /\ LABELS["importer"][3].label = "On its way"
            /\ LABELS["importer"][3].sub = "Converting and sending to your supplier"
        BY DEF LABELS
      <4>2. 2 + 1 = 3
        OBVIOUS
      <4>3. w = LABELS["importer"][3].label \/ w = LABELS["importer"][3].sub
        BY <1>1, <1>3, <2>3, <4>2 DEF MilestoneSub
      <4> QED BY <4>1, <4>3
    <3> QED BY <3>1 DEF OfDelivery, OfReturn, OfNoDelivery, OfCollection,
                           OfNoCollection
  <2>4. CASE i = 3
    <3>1. w \in {"Supplier paid", "Delivered to your supplier"}
      <4>1. /\ LABELS["importer"][4].label = "Supplier paid"
            /\ LABELS["importer"][4].sub = "Delivered to your supplier"
        BY DEF LABELS
      <4>2. 3 + 1 = 4
        OBVIOUS
      <4>3. w = LABELS["importer"][4].label \/ w = LABELS["importer"][4].sub
        BY <1>1, <1>3, <2>4, <4>2 DEF MilestoneSub
      <4> QED BY <4>1, <4>3
    <3>2. status = "Settled"
      BY <1>1, <1>2, <1>3, <2>4
    <3> QED BY <3>1, <3>2 DEF OfDelivery, OfReturn, OfNoDelivery, OfCollection,
                           OfNoCollection
  <2> QED BY <2>1, <2>2, <2>3, <2>4
<1>4. CASE perspective = "exporter"
  <2>1. CASE i = 0
    <3>1. w \in {"Buyer confirming", "Your buyer is approving the payment"}
      <4>1. /\ LABELS["exporter"][1].label = "Buyer confirming"
            /\ LABELS["exporter"][1].sub = "Your buyer is approving the payment"
        BY DEF LABELS
      <4>2. 0 + 1 = 1
        OBVIOUS
      <4>3. w = LABELS["exporter"][1].label \/ w = LABELS["exporter"][1].sub
        BY <1>1, <1>4, <2>1, <4>2 DEF MilestoneSub
      <4> QED BY <4>1, <4>3
    <3> QED BY <3>1 DEF OfDelivery, OfReturn, OfNoDelivery, OfCollection,
                           OfNoCollection
  <2>2. CASE i = 1
    <3>1. w \in {"Buyer paid", "Funds collected from your buyer"}
      <4>1. /\ LABELS["exporter"][2].label = "Buyer paid"
            /\ LABELS["exporter"][2].sub = "Funds collected from your buyer"
        BY DEF LABELS
      <4>2. 1 + 1 = 2
        OBVIOUS
      <4>3. w = LABELS["exporter"][2].label \/ w = LABELS["exporter"][2].sub
        BY <1>1, <1>4, <2>2, <4>2 DEF MilestoneSub
      <4> QED BY <4>1, <4>3
    <3>2. status \notin {"Quoted", "AwaitingFunding"}
      BY <1>1, <1>2, <1>4, <2>2
    <3> QED BY <3>1, <3>2 DEF OfDelivery, OfReturn, OfNoDelivery, OfCollection,
                           OfNoCollection
  <2>3. CASE i = 2
    <3>1. w \in {"In transit", "On its way to your account"}
      <4>1. /\ LABELS["exporter"][3].label = "In transit"
            /\ LABELS["exporter"][3].sub = "On its way to your account"
        BY DEF LABELS
      <4>2. 2 + 1 = 3
        OBVIOUS
      <4>3. w = LABELS["exporter"][3].label \/ w = LABELS["exporter"][3].sub
        BY <1>1, <1>4, <2>3, <4>2 DEF MilestoneSub
      <4> QED BY <4>1, <4>3
    <3> QED BY <3>1 DEF OfDelivery, OfReturn, OfNoDelivery, OfCollection,
                           OfNoCollection
  <2>4. CASE i = 3
    <3>1. w \in {"Received", "Paid out to your account"}
      <4>1. /\ LABELS["exporter"][4].label = "Received"
            /\ LABELS["exporter"][4].sub = "Paid out to your account"
        BY DEF LABELS
      <4>2. 3 + 1 = 4
        OBVIOUS
      <4>3. w = LABELS["exporter"][4].label \/ w = LABELS["exporter"][4].sub
        BY <1>1, <1>4, <2>4, <4>2 DEF MilestoneSub
      <4> QED BY <4>1, <4>3
    <3>2. status = "Settled"
      BY <1>1, <1>2, <1>4, <2>4
    <3> QED BY <3>1, <3>2 DEF OfDelivery, OfReturn, OfNoDelivery, OfCollection,
                           OfNoCollection
  <2> QED BY <2>1, <2>2, <2>3, <2>4
<1> QED BY <1>3, <1>4

\* The words of the trackers, by status.
LEMMA WordsOfTrackers ==
  ASSUME NEW status \in PAYMENT_STATUSES
  PROVE  \A words \in {{CustomerStatus(status, "importer")} \union ImporterCards(status)
                         \union MilestoneWords(status, "importer"),
                       {CustomerStatus(status, "exporter")} \union ExporterCards(status)
                         \union MilestoneWords(status, "exporter")} :
           /\ words \intersect OfDelivery # {} => status = "Settled"
           /\ words \intersect OfNoDelivery # {} => status \in {"Failed", "Refunding", "Refunded"}
           /\ words \intersect OfNoCollection # {} => status = "Failed"
           /\ words \intersect OfCollection # {} => status \notin {"Quoted", "AwaitingFunding"}
<1> DEFINE Bears(w) ==
      /\ w \in OfDelivery => status = "Settled"
      /\ w \in OfNoDelivery => status \in {"Failed", "Refunding", "Refunded"}
      /\ w \in OfNoCollection => status = "Failed"
      /\ w \in OfCollection => status \notin {"Quoted", "AwaitingFunding"}
<1>1. Bears(CustomerStatus(status, "importer")) /\ Bears(CustomerStatus(status, "exporter"))
  BY DEF CustomerStatus, IsRefundFlow, OfDelivery, OfReturn, OfNoDelivery, OfCollection,
         OfNoCollection
<1>2. \A w \in ImporterCards(status) : Bears(w)
  BY DEF ImporterCards, IsRefundFlow, OfDelivery, OfReturn, OfNoDelivery, OfCollection,
         OfNoCollection
<1>3. \A w \in ExporterCards(status) : Bears(w)
  BY DEF ExporterCards, IsRefundFlow, OfDelivery, OfReturn, OfNoDelivery, OfCollection,
         OfNoCollection
<1>4. \A w \in MilestoneWords(status, "importer") \union MilestoneWords(status, "exporter") : Bears(w)
  BY WordsOfMilestones
<1> HIDE DEF Bears
<1>5. \A words \in {{CustomerStatus(status, "importer")} \union ImporterCards(status)
                         \union MilestoneWords(status, "importer"),
                    {CustomerStatus(status, "exporter")} \union ExporterCards(status)
                         \union MilestoneWords(status, "exporter")} : \A w \in words : Bears(w)
  BY <1>1, <1>2, <1>3, <1>4
<1> QED BY <1>5 DEF Bears

\* However old what they show, the trackers of the importer and of the exporter never
\* say, in pill, cards or milestones, that the supplier was paid or was not, or that
\* nothing was collected, when the ledger of the payment says otherwise.  Of money paid
\* in or returned they speak wrongly only if the payment ended with nothing collected:
\* it failed or, in the demo, was refunded unpaid.
THEOREM TrackersTellTheTruth == BrowserSpec => []PagesTellTheTruth
<1>1. TrackInv /\ CollectedInv => PagesTellTheTruth
  <2> SUFFICES ASSUME TrackInv, CollectedInv, NEW t \in ImporterTabs \union ExporterTabs,
                      rendered[t].payment # Unread
               PROVE
      /\ Says(t) \intersect OfDelivery # {} => "Settled" \in LedgerFor(record)
      /\ Says(t) \intersect OfNoDelivery # {} => "Settled" \notin LedgerFor(record)
      /\ Says(t) \intersect OfNoCollection # {} => "Funded" \notin LedgerFor(record)
      /\ Says(t) \intersect OfCollection # {} => "Funded" \in LedgerFor(record) \/ EndedUnpaid
    BY DEF PagesTellTheTruth
  <2>1. t \in Tabs
    BY DEF Tabs
  <2>2. PICK v : v = rendered[t].payment
    OBVIOUS
  <2>3. PICK p \in SoundPayments : p = record
    BY DEF TrackInv
  <2>4. Shape(v) /\ Later(v, View(p))
    BY <2>1, <2>2, <2>3 DEF TrackInv, TabFits, Known
  <2>5. v.status \in PAYMENT_STATUSES
    BY <2>4 DEF Shape
  <2>6. Says(t) \in {{CustomerStatus(v.status, "importer")} \union ImporterCards(v.status)
                       \union MilestoneWords(v.status, "importer"),
                     {CustomerStatus(v.status, "exporter")} \union ExporterCards(v.status)
                       \union MilestoneWords(v.status, "exporter")}
    BY <2>2 DEF Says
  <2>7. /\ v.status = "Settled" => "Settled" \in LedgerFor(p)
        /\ v.status \in {"Failed", "Refunding", "Refunded"} => "Settled" \notin LedgerFor(p)
        /\ v.status = "Failed" => "Funded" \notin LedgerFor(p)
        /\ v.status \in {"Failed", "Refunded"} => p.status = v.status
        /\ v.status = "Refunding" => IsRefundFlow(p.status)
        /\ v.status \notin {"Quoted", "AwaitingFunding", "Failed", "Refunding", "Refunded"} =>
             "Funded" \in LedgerFor(p)
    BY <2>4, WhatWasShown
  <2>8. v.status \notin {"Quoted", "AwaitingFunding"} => "Funded" \in LedgerFor(p) \/ EndedUnpaid
    <3>1. CASE v.status = "Failed"
      BY <2>3, <2>7, <3>1 DEF EndedUnpaid
    <3>2. CASE v.status \in {"Refunding", "Refunded"}
      <4>1. IsRefundFlow(p.status)
        BY <2>7, <3>2 DEF IsRefundFlow
      <4>2. http => "Funded" \in Reached(p)
        BY <2>3, <4>1 DEF CollectedInv, IsRefundFlow
      <4>3. "Funded" \in Reached(p) => "Funded" \in LedgerFor(p)
        BY DEF LedgerFor, HasReached
      <4> QED BY <2>3, <4>1, <4>2, <4>3 DEF EndedUnpaid
    <3> QED BY <2>7, <3>1, <3>2
  <2>9. /\ Says(t) \intersect OfDelivery # {} => v.status = "Settled"
        /\ Says(t) \intersect OfNoDelivery # {} => v.status \in {"Failed", "Refunding", "Refunded"}
        /\ Says(t) \intersect OfNoCollection # {} => v.status = "Failed"
        /\ Says(t) \intersect OfCollection # {} => v.status \notin {"Quoted", "AwaitingFunding"}
    BY <2>5, <2>6, WordsOfTrackers
  <2> QED BY <2>3, <2>7, <2>8, <2>9
<1> QED BY <1>1, TrackInvHolds, CollectedHolds, PTL

\* A page that shows a later payment shows no less progress.
LEMMA LaterShowsMore ==
  ASSUME NEW u, NEW v, Shape(u), Shape(v), Later(u, v)
  PROVE  /\ DoneSteps(u) \subseteq DoneSteps(v)
         /\ IsRefundFlow(v.status) \/ DoneMilestones(u) \subseteq DoneMilestones(v)
<1>1. /\ u.reached \subseteq v.reached /\ u.status \in PAYMENT_STATUSES
      /\ v.status \in PAYMENT_STATUSES /\ (IsTerminal(u.status) => u = v)
  BY DEF Shape, Later
<1>2. \A s \in PAYMENT_STATUSES : IndexOf(s) \in 0 .. 8
  BY HappyPathIs
<1>3. \A s, k : s \in Upto(k) <=> s \in PAYMENT_STATUSES /\ IndexOf(s) \in 1 .. k
  BY DEF Upto
<1>4. u.status \in u.reached
  <2>1. IndexOf(u.status) \in 2 .. 8 => u.status \in Upto(IndexOf(u.status))
    BY <1>1, <1>3
  <2> QED BY <2>1 DEF Shape
\* On the happy path both are, or what is shown first is before a way off it.
<1>5. IndexOf(v.status) # 0 =>
        /\ IndexOf(u.status) \in 2 .. 8 /\ IndexOf(v.status) \in 2 .. 8
        /\ u.reached = Upto(IndexOf(u.status)) /\ v.reached = Upto(IndexOf(v.status))
        /\ IndexOf(u.status) <= IndexOf(v.status)
  <2> SUFFICES ASSUME IndexOf(v.status) # 0
               PROVE  /\ IndexOf(u.status) \in 2 .. 8 /\ IndexOf(v.status) \in 2 .. 8
                      /\ u.reached = Upto(IndexOf(u.status)) /\ v.reached = Upto(IndexOf(v.status))
                      /\ IndexOf(u.status) <= IndexOf(v.status)
    OBVIOUS
  <2>1. IndexOf(v.status) \in 2 .. 8 /\ v.reached = Upto(IndexOf(v.status))
    BY IndexOfIs DEF Shape
  <2>2. IndexOf(u.status) \in 1 .. IndexOf(v.status)
    BY <1>1, <1>3, <1>4, <2>1
  <2>3. IndexOf(u.status) \in 2 .. 8 /\ u.reached = Upto(IndexOf(u.status))
    BY <2>2, IndexOfIs DEF Shape
  <2> QED BY <2>1, <2>2, <2>3
<1>6. ASSUME NEW s \in DoneSteps(u) PROVE s \in DoneSteps(v)
  <2>1. s \in Range(HAPPY_PATH) /\ StepState(u, s) = "done" /\ s \in PAYMENT_STATUSES
        /\ IndexOf(s) \in 1 .. 8
    <3>1. s \in Range(HAPPY_PATH) /\ StepState(u, s) = "done"
      BY <1>6 DEF DoneSteps
    <3>2. PICK i \in 1 .. 8 : s = HAPPY_PATH[i]
      BY <3>1, HappyPathIs DEF Range
    <3> QED BY <3>1, <3>2, HappyPathIs
  <2>2. CASE IsTerminal(u.status)
    BY <1>1, <1>6, <2>2
  <2>3. CASE ~IsTerminal(u.status)
    <3>1. s # u.status
      BY <2>1, <2>3 DEF StepState
    <3>2. IndexOf(u.status) > 0 => IndexOf(s) < IndexOf(u.status)
      BY <2>1, <3>1 DEF StepState
    <3>3. ~(IndexOf(u.status) > 0) => s \in u.reached
      BY <2>1, <3>1 DEF StepState
    <3>4. s \in u.reached
      <4>1. CASE IndexOf(u.status) > 0
        <5>1. IndexOf(u.status) \in 2 .. 8 /\ u.reached = Upto(IndexOf(u.status))
          BY <4>1, IndexOfIs DEF Shape
        <5> QED BY <1>3, <2>1, <3>2, <4>1, <5>1
      <4> QED BY <3>3, <4>1
    <3>5. CASE IndexOf(v.status) # 0
      <4>1. IndexOf(u.status) > 0 /\ IndexOf(s) < IndexOf(v.status) /\ IndexOf(v.status) > 0
        BY <1>5, <2>1, <3>2, <3>5
      <4>2. s # v.status
        BY <2>1, <4>1
      <4>3. StepState(v, s) = "done"
        BY <4>1, <4>2 DEF StepState
      <4> QED BY <2>1, <4>3 DEF DoneSteps
    <3>6. CASE IndexOf(v.status) = 0
      <4>1. s \in v.reached /\ s # v.status /\ ~(IndexOf(v.status) > 0)
        BY <1>1, <2>1, <3>4, <3>6
      <4>2. StepState(v, s) = "done"
        BY <4>1 DEF StepState
      <4> QED BY <2>1, <4>2 DEF DoneSteps
    <3> QED BY <3>5, <3>6
  <2> QED BY <2>2, <2>3
<1>7. ASSUME ~IsRefundFlow(v.status), NEW i \in DoneMilestones(u)
      PROVE  i \in DoneMilestones(v)
  <2>1. CASE IsTerminal(u.status)
    BY <1>1, <1>7, <2>1
  <2>2. CASE ~IsTerminal(u.status)
    <3>1. i \in 0 .. 3 /\ i < MILESTONE_INDEX[u.status]
      BY <1>7, <2>2 DEF DoneMilestones, Milestone, IsTerminal, TERMINAL_STATUSES
    <3>2. CASE v.status = "Failed"
      <4>1. v.reached = Upto(2) \union {"Failed"}
        BY <3>2, IndexOfIs DEF Shape
      <4>2. IndexOf(u.status) \in 0 .. 2
        BY <1>1, <1>2, <1>3, <1>4, <4>1, IndexOfIs
      <4>3. u.status \in {"Quoted", "AwaitingFunding", "Failed", "Refunding", "Refunded"}
        BY <1>1, <4>2, IndexOfIs DEF PAYMENT_STATUSES
      <4> QED BY <3>1, <4>3 DEF MILESTONE_INDEX, Unset
    <3>3. CASE v.status # "Failed"
      <4>1. IndexOf(v.status) # 0
        BY <1>1, <1>7, <3>3, IndexOfIs DEF PAYMENT_STATUSES, IsRefundFlow
      <4>2. IndexOf(u.status) <= IndexOf(v.status) /\ IndexOf(u.status) \in 2 .. 8
        BY <1>5, <4>1
      <4>3. v.status = "Settled" \/ MILESTONE_INDEX[u.status] <= MILESTONE_INDEX[v.status]
        BY <1>1, <4>1, <4>2, IndexOfIs DEF PAYMENT_STATUSES, MILESTONE_INDEX
      <4>4. MILESTONE_INDEX[u.status] \in Int /\ MILESTONE_INDEX[v.status] \in Int
        BY <1>1 DEF PAYMENT_STATUSES, MILESTONE_INDEX, Unset
      <4>5. v.status = "Settled" \/ i < MILESTONE_INDEX[v.status]
        BY <3>1, <4>3, <4>4
      <4>6. Milestone(v.status, i) = "done"
        BY <4>5 DEF Milestone
      <4> QED BY <3>1, <4>6 DEF DoneMilestones
    <3> QED BY <3>2, <3>3
  <2> QED BY <2>1, <2>2
<1> QED BY <1>6, <1>7

\* What a step does to what a tab shows: nothing, or it starts again, or shows an answer.
LEMMA ShownNext ==
  ASSUME TrackInv, ~http, TrackNext, NEW u \in Tabs,
         rendered[u].payment # Unread, rendered'[u].payment # Unread
  PROVE  Later(rendered[u].payment, rendered'[u].payment) /\ Shape(rendered'[u].payment)
<1>1. rendered \in [Tabs -> Screens] /\ waiting \in [Tabs -> Seq(Loads)]
  BY DEF TrackInv
<1>2. Shape(rendered[u].payment)
  BY DEF TrackInv, TabFits, Known
<1>3. ASSUME rendered'[u] = rendered[u]
      PROVE  Later(rendered[u].payment, rendered'[u].payment) /\ Shape(rendered'[u].payment)
  BY <1>2, <1>3, LaterIsTransitive
<1>4. ASSUME UNCHANGED rendered PROVE rendered'[u] = rendered[u]
  BY <1>4
<1>5. ASSUME NEW t \in Tabs, Open(t) PROVE rendered'[u] = rendered[u]
  <2>1. PICK b : b = [payment |-> Unread, ledger |-> UnreadLedger]
    OBVIOUS
  <2>2. rendered' = [rendered EXCEPT ![t] = b] /\ b.payment = Unread
    BY <1>5, <2>1 DEF Open
  <2>3. u = t => rendered'[u] = b
    BY <1>1, <2>2
  <2>4. u # t
    BY <2>2, <2>3
  <2> QED BY <1>1, <2>2, <2>4
<1>6. ASSUME NEW t \in Tabs, NEW i, Answer(t, i)
      PROVE  Later(rendered[u].payment, rendered'[u].payment) /\ Shape(rendered'[u].payment)
  <2>1. PICK w \in Seq(Loads) : w = waiting[t]
    BY <1>1
  <2>2. i = 1 /\ 1 \in 1 .. Len(w)
    BY <1>6, <2>1 DEF Answer
  <2>3. CASE w[1].call # "getPayment"
    BY <1>3, <1>4, <1>6, <2>1, <2>2, <2>3 DEF Answer
  <2>4. CASE w[1].call = "getPayment"
    <3>1. PICK new : new = [payment |-> w[1].payment, ledger |-> w[1].ledger]
      OBVIOUS
    <3>2. rendered' = [rendered EXCEPT ![t] = new] /\ new.payment = w[1].payment
      BY <1>6, <2>1, <2>2, <2>4, <3>1 DEF Answer
    <3>3. CASE u # t
      BY <1>1, <1>3, <3>2, <3>3
    <3>4. CASE u = t
      <4>1. rendered'[u] = new
        BY <1>1, <3>2, <3>4
      <4>2. /\ TabFits(rendered[u], w, record) /\ DemoTabFits(u, rendered[u], w, record)
        BY <2>1, <3>4 DEF TrackInv
      <4>3. Later(rendered[u].payment, w[1].payment) /\ w[1].payment # Unread
        BY <2>2, <4>2 DEF DemoTabFits
      <4>4. Shape(w[1].payment)
        BY <2>2, <4>2, <4>3 DEF TabFits, Known
      <4> QED BY <3>2, <4>1, <4>3, <4>4
    <3> QED BY <3>3, <3>4
  <2> QED BY <2>3, <2>4
<1>7. ASSUME NEW t \in Tabs, PollPayment(t) \/ Confirm(t) PROVE UNCHANGED rendered
  BY <1>7 DEF PollPayment, Confirm
<1>8. ASSUME NEW t \in Tabs, NEW call, Act(t, call) PROVE UNCHANGED rendered
  BY <1>8 DEF Act
<1>9. ASSUME NEW t \in Tabs, NEW i, Serve(t, i) \/ Lose(t, i) PROVE UNCHANGED rendered
  BY <1>9 DEF Serve, Lose
<1>10. ASSUME ScheduleMoves \/ ApiMoves PROVE UNCHANGED rendered
  BY <1>10 DEF ScheduleMoves, ApiMoves
<1> QED
  BY <1>3, <1>4, <1>5, <1>6, <1>7, <1>8, <1>9, <1>10 DEF TrackNext

\* No page of the demo ever takes back progress that it has shown, however many tabs
\* press buttons and poll: its steps and milestones that are done stay done, until it
\* shows the money coming back.
THEOREM ProgressStays == BrowserSpec => ProgressIsKept
<1> DEFINE Keeps ==
      ~http => \A t \in Tabs :
        Unread \notin {rendered[t].payment, rendered'[t].payment} =>
          /\ DoneSteps(rendered[t].payment) \subseteq DoneSteps(rendered'[t].payment)
          /\ \/ IsRefundFlow(rendered'[t].payment.status)
             \/ DoneMilestones(rendered[t].payment) \subseteq DoneMilestones(rendered'[t].payment)
<1>1. TrackInv /\ [BrowserNext]_vars => [Keeps]_trackVars
  <2> SUFFICES ASSUME TrackInv, TrackNext, ~http, NEW t \in Tabs,
                      rendered[t].payment # Unread, rendered'[t].payment # Unread
               PROVE
          /\ DoneSteps(rendered[t].payment) \subseteq DoneSteps(rendered'[t].payment)
          /\ \/ IsRefundFlow(rendered'[t].payment.status)
             \/ DoneMilestones(rendered[t].payment) \subseteq DoneMilestones(rendered'[t].payment)
    BY DEF BrowserNext, vars, trackVars
  <2>1. PICK u, v : u = rendered[t].payment /\ v = rendered'[t].payment
    OBVIOUS
  <2>2. Shape(u) /\ Shape(v) /\ Later(u, v)
    BY <2>1, ShownNext DEF TrackInv, TabFits, Known
  <2> QED BY <2>1, <2>2, LaterShowsMore
<1> QED BY <1>1, TrackInvHolds, PTL DEF BrowserSpec, ProgressIsKept

=============================================================================
