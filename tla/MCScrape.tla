------------------------------ MODULE MCScrape ------------------------------
(***************************************************************************)
(* Requests that differ in what the code looks at: a plain and a rendered  *)
(* page of one host, and one of another that may not be attempted at all.  *)
(***************************************************************************)
EXTENDS ScrapeProperties

CONSTANTS w1, w2, h1, h2

Plain    == [host |-> h1, retries |-> 2, render |-> FALSE, follow |-> TRUE]
Rendered == [host |-> h1, retries |-> 2, render |-> TRUE, follow |-> FALSE]
NoRetry  == [host |-> h2, retries |-> 0, render |-> FALSE, follow |-> TRUE]

MCRequests == {Plain, Rendered, NoRetry}
MCPlain    == {Plain}
=============================================================================
