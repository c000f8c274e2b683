---------------------------- MODULE OperationPages ----------------------------
(***************************************************************************)
(* The pages that post stock movements (inventory/views.py, forms.py).     *)
(*                                                                         *)
(* A page hides the operation_id that was drawn when it was opened, so a   *)
(* page is identified with it here.  Whatever is sent from it, by clicking *)
(* twice, after an answer that was lost or after going back and typing     *)
(* something else, carries that identifier.  Serving a request is two      *)
(* steps: the form is cleaned, reading rows that nothing locks, and then   *)
(* the service posts, repeats its answer or refuses in a transaction of    *)
(* its own (InventoryMutation and SerializedAssets look into that).        *)
(***************************************************************************)
EXTENDS Naturals, FiniteSets

CONSTANTS
  Page,       \* operation identifiers of the pages that are opened
  Content,    \* what may be entered; of an asset receipt, its asset code
  PageUnit,   \* units of the material, of which a page hides none
  Client,     \* requests that are served at once
  Together,   \* [Page -> form or Nothing]s that may be open at the same time
  Nothing

PagePosting == [content : Content, unit : PageUnit \union {Nothing}]

ASSUME PageConstants ==
  /\ PageUnit # {}
  /\ Nothing \notin Page \union Content \union PageUnit \union PagePosting

VARIABLES
  form,      \* [Page -> the form of the page, or Nothing before it is opened]
  previewed, \* [Page -> the contents that a preview has shown]
  posted,    \* [Page -> what has been posted under its identifier, or Nothing]
  client,    \* [Client -> the request in progress, or NoRequest]
  usable,    \* the kinds of rows of which those chosen are active
  unitNow    \* the unit of the material

pageVars == <<form, previewed, posted, client, usable, unitNow>>

-----------------------------------------------------------------------------
(***************************************************************************)
(* Forms: the rows that are chosen in them, those that must be active for  *)
(* the form to be valid (ModelChoiceField; the service judges the others,  *)
(* ServiceValidatedModelChoiceField), and whether the view adds the unit   *)
(* of the material.                                                        *)
(***************************************************************************)
Form(rows, strict, takesUnit) ==
  [rows |-> rows, strict |-> strict, takesUnit |-> takesUnit]

QuantityReceiptForm == Form({"stock"}, {"stock"}, TRUE)
QuantityIssueForm == Form({"stock", "receiver"}, {"stock", "receiver"}, TRUE)
QuantityReturnForm == Form({"stock"}, {}, FALSE)
QuantityTransferForm == Form({"stock"}, {}, TRUE)
SerializedReceiptForm == Form({"stock"}, {}, FALSE)
SerializedIssueForm == Form({"stock", "receiver"}, {"receiver"}, FALSE)
SerializedReturnForm == Form({"stock"}, {}, FALSE)
SerializedTransferForm == Form({"stock"}, {}, FALSE)

Forms ==
  [receipt |-> QuantityReceiptForm, issue |-> QuantityIssueForm,
   return |-> QuantityReturnForm, transfer |-> QuantityTransferForm,
   assetReceipt |-> SerializedReceiptForm, assetIssue |-> SerializedIssueForm,
   assetReturn |-> SerializedReturnForm, assetTransfer |-> SerializedTransferForm]

ChosenRow == {"stock", "receiver"}
Kind == DOMAIN Forms

\* `unit' is what the view has added, `told' what the user reads at the end.
NoClient == [phase |-> "none"]
Sent(p, c, confirm) ==
  [phase |-> "sent", page |-> p, content |-> c, confirm |-> confirm,
   unit |-> Nothing, told |-> Nothing]

Error == {"invalid", "conflict", "refused"}
Told == Error \union {"saved", "already saved", "preview", "denied"}

PagesTypeOK ==
  /\ form \in [Page -> Kind \union {Nothing}]
  /\ previewed \in [Page -> SUBSET Content]
  /\ posted \in [Page -> PagePosting \union {Nothing}]
  /\ client \in [Client -> {NoClient} \union
       [phase : {"sent", "cleaned", "answered"}, page : Page, content : Content,
        confirm : BOOLEAN, unit : PageUnit \union {Nothing},
        told : Told \union {Nothing}]]
  /\ usable \subseteq ChosenRow
  /\ unitNow \in PageUnit

PagesInit ==
  /\ form = [p \in Page |-> Nothing]
  /\ previewed = [p \in Page |-> {}]
  /\ posted = [p \in Page |-> Nothing]
  /\ client = [r \in Client |-> NoClient]
  /\ usable = ChosenRow
  /\ unitNow = CHOOSE u \in PageUnit : TRUE

-----------------------------------------------------------------------------
(***************************************************************************)
(* The user                                                                *)
(***************************************************************************)
Open(p, k) ==
  /\ form[p] = Nothing
  /\ \E t \in Together : t[p] = k /\ \A q \in Page : form[q] \in {Nothing, t[q]}
  /\ form' = [form EXCEPT ![p] = k]
  /\ UNCHANGED <<previewed, posted, client, usable, unitNow>>

\* Only the preview has the button that confirms.
Send(r, p, c, confirm) ==
  /\ client[r] = NoClient
  /\ form[p] # Nothing
  /\ confirm => c \in previewed[p]
  /\ client' = [client EXCEPT ![r] = Sent(p, c, confirm)]
  /\ UNCHANGED <<form, previewed, posted, usable, unitNow>>

\* The user reads the answer, or it is lost.
Leave(r) ==
  /\ client[r].phase = "answered"
  /\ client' = [client EXCEPT ![r] = NoClient]
  /\ UNCHANGED <<form, previewed, posted, usable, unitNow>>

-----------------------------------------------------------------------------
(***************************************************************************)
(* The views                                                               *)
(***************************************************************************)
Shows(r, k) == client[r].phase # "none" /\ form[client[r].page] = k

\* The code is that of an asset already.
CodeInUse(r) ==
  \E p \in Page :
    /\ form[p] = "assetReceipt"
    /\ posted[p] # Nothing
    /\ posted[p].content = client[r].content

Valid(r) ==
  LET k == form[client[r].page]
  IN  /\ Forms[k].strict \subseteq usable
      /\ k = "assetReceipt" => ~CodeInUse(r)

Tell(r, answer) ==
  client' = [client EXCEPT ![r].phase = "answered", ![r].told = answer]

RejectForm(r) ==
  /\ client[r].phase = "sent"
  /\ ~Valid(r)
  /\ Tell(r, "invalid")
  /\ UNCHANGED <<form, previewed, posted, usable, unitNow>>

AcceptForm(r) ==
  /\ client[r].phase = "sent"
  /\ Valid(r)
  /\ client' = [client EXCEPT ![r].phase = "cleaned",
       ![r].unit = IF Forms[form[client[r].page]].takesUnit THEN unitNow ELSE Nothing]
  /\ UNCHANGED <<form, previewed, posted, usable, unitNow>>

\* A quantity receipt that is not confirmed is shown once more.
Preview(r) ==
  LET p == client[r].page
  IN  /\ Valid(r)
      /\ previewed' = [previewed EXCEPT ![p] = @ \union {client[r].content}]
      /\ Tell(r, "preview")
      /\ UNCHANGED <<form, posted, usable, unitNow>>

Asked(r) == [content |-> client[r].content, unit |-> client[r].unit]

NotPosted(r) == posted[client[r].page] = Nothing

\* The service finds the identifier and compares what was posted under it.
SameType(r) == TRUE   \* mutant: the fingerprints are not compared
SameAsPosted(r) == posted[client[r].page] = Asked(r)

Repeat(r) ==
  /\ client[r].phase = "cleaned"
  /\ ~NotPosted(r)
  /\ Tell(r, IF SameAsPosted(r) THEN "already saved" ELSE "conflict")
  /\ UNCHANGED <<form, previewed, posted, usable, unitNow>>

\* What the service checks of the rows it locks, before it posts anew.
Postable(r) ==
  LET k == form[client[r].page]
  IN  /\ Forms[k].rows \subseteq usable
      /\ Forms[k].takesUnit => client[r].unit = unitNow
      /\ k = "assetReceipt" => ~CodeInUse(r)

Post(r) ==
  /\ client[r].phase = "cleaned"
  /\ NotPosted(r)
  /\ Postable(r)
  /\ posted' = [posted EXCEPT ![client[r].page] = Asked(r)]
  /\ Tell(r, "saved")
  /\ UNCHANGED <<form, previewed, usable, unitNow>>

RowsJudgedFirst(r) == NotPosted(r) \/ ~Postable(r)   \* mutant
MayRefuse(r) == NotPosted(r)

\* The rows, or the stock that there is, do not allow it.
Refuse(r) ==
  /\ client[r].phase = "cleaned"
  /\ MayRefuse(r)
  /\ Tell(r, "refused")
  /\ UNCHANGED <<form, previewed, posted, usable, unitNow>>

\* The permission is gone, of which the view and the service ask anew.
Deny(r) ==
  /\ client[r].phase \in {"sent", "cleaned"}
  /\ Tell(r, "denied")
  /\ UNCHANGED <<form, previewed, posted, usable, unitNow>>

Handle(r) == RejectForm(r) \/ AcceptForm(r) \/ Repeat(r) \/ Post(r) \/ Refuse(r) \/ Deny(r)

ToPreview(r) == client[r].phase = "sent" /\ ~client[r].confirm

ReceiptCreateView(r) ==
  /\ Shows(r, "receipt")
  /\ \/ ToPreview(r) /\ (RejectForm(r) \/ Preview(r) \/ Deny(r))
     \/ ~ToPreview(r) /\ Handle(r)

IssueCreateView(r) == Shows(r, "issue") /\ Handle(r)
ReturnCreateView(r) == Shows(r, "return") /\ Handle(r)
TransferCreateView(r) == Shows(r, "transfer") /\ Handle(r)
SerializedReceiptCreateView(r) == Shows(r, "assetReceipt") /\ Handle(r)
SerializedIssueCreateView(r) == Shows(r, "assetIssue") /\ Handle(r)
SerializedReturnCreateView(r) == Shows(r, "assetReturn") /\ Handle(r)
SerializedTransferCreateView(r) == Shows(r, "assetTransfer") /\ Handle(r)

-----------------------------------------------------------------------------
\* Master data is kept at any time.
SetRowActive(row) ==
  /\ usable' = IF row \in usable THEN usable \ {row} ELSE usable \union {row}
  /\ UNCHANGED <<form, previewed, posted, client, unitNow>>

ChangeMaterialUnit(u) ==
  /\ u # unitNow
  /\ unitNow' = u
  /\ UNCHANGED <<form, previewed, posted, client, usable>>

PagesNext ==
  \/ \E p \in Page, k \in Kind : Open(p, k)
  \/ \E r \in Client :
       \/ \E p \in Page, c \in Content, confirm \in BOOLEAN : Send(r, p, c, confirm)
       \/ ReceiptCreateView(r)
       \/ IssueCreateView(r)
       \/ ReturnCreateView(r)
       \/ TransferCreateView(r)
       \/ SerializedReceiptCreateView(r)
       \/ SerializedIssueCreateView(r)
       \/ SerializedReturnCreateView(r)
       \/ SerializedTransferCreateView(r)
       \/ Leave(r)
  \/ \E row \in ChosenRow : SetRowActive(row)
  \/ \E u \in PageUnit : ChangeMaterialUnit(u)

PagesSpec == PagesInit /\ [][PagesNext]_pageVars

-----------------------------------------------------------------------------
(***************************************************************************)
(* Properties                                                              *)
(***************************************************************************)
\* Who reads that something is saved, or was saved already, reads of what she
\* has sent: not of what was sent before from the same page with other contents.
AcknowledgedAsSent ==
  \A r \in Client :
    client[r].phase = "answered" /\ client[r].told \in {"saved", "already saved"} =>
      posted[client[r].page] = Asked(r)

Answered(r) == client[r].phase \in {"sent", "cleaned"} /\ client'[r].phase = "answered"

\* Whoever sends once more what has been posted is told so and reads no error,
\* though the rows she chose may be retired by now.  Not so where the form itself
\* asks for active rows, where the unit of the material has been changed, and of
\* an asset receipt, whose form finds its own asset.
RetriesAreAcknowledged ==
  [][\A r \in Client :
       Answered(r) /\ client'[r].told \in Error =>
         LET p == client[r].page
         IN  \/ NotPosted(r)
             \/ posted[p].content # client[r].content
             \/ ~(Forms[form[p]].strict \subseteq usable)
             \/ client[r].phase = "cleaned" /\ posted[p].unit # client[r].unit
             \/ form[p] = "assetReceipt"]_pageVars
=============================================================================
