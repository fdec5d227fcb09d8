---------------------------- MODULE DecisionEngine ----------------------------
(***************************************************************************)
(* evaluateExtraction of decision-engine.ts, a pure function the           *)
(* extraction worker calls on each answer of the LLM.                      *)
(*                                                                         *)
(* The schema takes any numbers.  Amounts are integers in a unit Cent of   *)
(* which make a cent; of confidences and the threshold only the order      *)
(* matters.  The code computes in doubles: a difference that is exactly    *)
(* the tolerance comes out on either side of it (0.02 - 0.01 = 0.01, but   *)
(* 100.01 - 100 > 0.01), so there the outcome is left open.  The reasons,  *)
(* the sum and the least confidence are only logged, and left out.         *)
(***************************************************************************)
EXTENDS Integers, Sequences

CONSTANTS
  Cent,        \* how many units of an amount make a cent
  Invoices,    \* what the LLM may extract, a set of records: lineItems, a
               \* sequence of amounts; subtotal, an amount; confidence, a
               \* function from the names of the fields
  Threshold    \* the tenant's extractionThreshold

\* invoiceExtractionSchema, as far as the decision goes.
IsInvoice(inv) ==
  /\ inv.lineItems \in Seq(Int) /\ inv.subtotal \in Int
  /\ \A field \in DOMAIN inv.confidence : inv.confidence[field] \in Int

ASSUME EngineAssumption == /\ Cent \in Nat \ {0}
                           /\ \A inv \in Invoices : IsInvoice(inv)
                           /\ Threshold \in Int

Decisions == {"auto_approve", "route_to_review"}

\* MATH_TOLERANCE, $0.01.
Tolerance == Cent

Distance(a, b) == IF a >= b THEN a - b ELSE b - a
\* The sums of the first n items, for each n.
Sums(items) ==
  LET sum[n \in 0 .. Len(items)] == IF n = 0 THEN 0 ELSE sum[n - 1] + items[n]
  IN  sum
LineItemsSum(inv) == Sums(inv.lineItems)[Len(inv.lineItems)]

\* The values Math.abs(lineItemsSum - subtotal) <= MATH_TOLERANCE may have.
MathValid(inv) ==
  LET d == Distance(LineItemsSum(inv), inv.subtotal)
  IN IF d = Tolerance THEN BOOLEAN ELSE {d < Tolerance}

\* (Mutant: a field at the threshold counts as below it.)
BelowThreshold_Inclusive(inv) ==
  {field \in DOMAIN inv.confidence : inv.confidence[field] <= Threshold}
BelowThreshold(inv) ==
  {field \in DOMAIN inv.confidence : inv.confidence[field] < Threshold}

\* The decisions evaluateExtraction may come to on an invoice.
EvaluateExtraction(inv) ==
  {IF mathValid /\ BelowThreshold(inv) = {} THEN "auto_approve"
                                            ELSE "route_to_review" :
     mathValid \in MathValid(inv)}
=============================================================================
