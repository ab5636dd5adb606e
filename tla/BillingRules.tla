----------------------------- MODULE BillingRules -----------------------------
(***************************************************************************)
(* The arithmetic of invoices: the end of a billing period, the key of the *)
(* usage it is charged by, overage and proration.  Dates are UTC; months   *)
(* count from a January, and no year is a leap year.                       *)
(***************************************************************************)
EXTENDS Integers

Intervals == {"MONTHLY", "ANNUALLY"}

Length(m) == CASE m % 12 = 1 -> 28
               [] m % 12 \in {3, 5, 8, 10} -> 30
               [] OTHER -> 31

Date == {d \in [month : Nat, day : 1 .. 31] : d.day <= Length(d.month)}

Before(d, e) == d.month < e.month \/ (d.month = e.month /\ d.day < e.day)

\* calculatePeriodEnd and calculateNextPeriodEnd: setMonth and setFullYear carry the
\* days a month does not have over to the next one.
NextPeriodEnd(d, interval) ==
    LET m == d.month + (IF interval = "ANNUALLY" THEN 12 ELSE 1)
    IN  IF d.day <= Length(m) THEN [month |-> m, day |-> d.day]
                              ELSE [month |-> m + 1, day |-> d.day - Length(m)]

\* Mutant: 1 is added to a month that counts from 1 already.
UsageKeyNext(start, interval) ==
    IF interval = "ANNUALLY" THEN -1 - (start.month \div 12) ELSE start.month + 1

\* getPeriodKey: a month, or a year, which is negative here to tell the two apart.
UsageKey(start, interval) ==
    IF interval = "ANNUALLY" THEN -1 - (start.month \div 12) ELSE start.month

\* Math.round of n / d, for n >= 0 and d > 0.
Rounded(n, d) == (2 * n + d) \div (2 * d)

\* calculateOverage: what is charged, in cents, for units at a price in micro-cents.
OverageUnits(used, included) == IF used > included THEN used - included ELSE 0
Overage(used, included, price) == Rounded(OverageUnits(used, included) * price, 100)

\* Which features have a line on the invoice.
Charged(type, behavior) == type # "BOOLEAN" /\ ~(type = "QUOTA" /\ behavior = "HARD")

\* calculateProration of the base fee, by the part of the period that was used.
ProratedFee(fee, used, total) ==
    CASE total <= 0 -> fee
      [] total > 0 /\ used <= 0 -> 0
      [] total > 0 /\ used >= total -> fee
      [] OTHER -> Rounded(fee * used, total)

=============================================================================
