------------------------- MODULE MCDocumentPipeline -------------------------
(* Small instances of DocumentPipeline for TLC. *)
EXTENDS DocumentPipeline, TLC

CONSTANTS d1, d2, r0, r1, r2, alice, bob

\* Invoices of two line items and two fields, in half cents: around the threshold
\* 85, and around the tolerance, where rounding to cents goes either way.
Invoice(amount1, amount2, subtotal, vendor, total) ==
  [lineItems |-> <<amount1, amount2>>, subtotal |-> subtotal,
   confidence |-> ("vendor.name" :> vendor @@ "totals.total" :> total)]
ClearInvoices == {Invoice(80, 120, 200, 85, 90), Invoice(80, 120, 200, 90, 84)}
\* One invoice, a cent off, that is judged either way.
EitherWay == {Invoice(80, 120, 202, 85, 90)}
\* On the threshold and below it; and on the tolerance, with a subtotal that may be
\* rounded to either side of it.
EdgeInvoices == {Invoice(80, 120, 200, 85, 90), Invoice(80, 120, 200, 84, 90),
                 Invoice(80, 121, 203, 85, 90)}

\* Reviewers differ only in who they are.
ReviewerSymmetry == Permutations(Reviewers)

\* No guard reads the audit log, so a run whose properties do not mention it
\* need not tell states apart by it.
WithoutAudit == <<status, content, queues, api, workers, unannounced>>
=============================================================================
