------------------------------- MODULE Scrape -------------------------------
(***************************************************************************)
(* The metrics endpoint of samsarix_analytics.exposition over a registry   *)
(* that holds the HTTP instruments: a scrape renders one instrument after  *)
(* the other in the order of their names, each under that instrument's     *)
(* lock, while requests go on recording (HTTPInstrumentation).  A page is  *)
(* therefore consistent within an instrument only; what it may show across *)
(* them follows from the two orders, of rendering and of recording.        *)
(*                                                                         *)
(* A page is measured in the shortest lines: its bytes depend on how many  *)
(* digits the values happen to have, so a line is one unit or some more,   *)
(* and a page may be shorter than one before it that had fewer series.     *)
(***************************************************************************)
EXTENDS HTTPInstrumentation, Sequences, Functions

CONSTANTS
  MaxLines,  \* max_response_bytes, in units
  Spread     \* how many units the digits of a value may add to its line

ASSUME LinesAssumption == MaxLines \in Nat \ {0} /\ Spread \in Nat

\* Variant: in the order in which HTTPMetrics.create registers them.
NamesRegistered == <<"requests_total", "request_duration_seconds", "active_requests">>

\* The registered names, sorted; the instruments are copied under the registry's
\* lock, and HTTPMetrics.create registered them before.
Names == <<"active_requests", "request_duration_seconds", "requests_total">>

NoPage == <<>>

VARIABLES
  todo,      \* instruments that the scrape in progress has not rendered
  draft,     \* what it has rendered: series by instrument
  size,      \* encoded_size
  outgrown   \* observed: whether, when it began, not even the shortest page would fit

scrape     == <<todo, draft, size, outgrown>>
scrapeVars == <<vars, scrape>>

Contents(name) ==
  CASE name = "active_requests"          -> active
    [] name = "request_duration_seconds" -> duration
    [] OTHER                             -> requests

\* The lines of values: one for a series, three more for one of a histogram.
Values(name) ==
  LET n == Cardinality(DOMAIN Contents(name))
  IN  IF name = "request_duration_seconds" THEN 4 * n ELSE n

\* HELP and TYPE, and the values at their shortest.
Shortest(name) == 2 + Values(name)

\* What an instrument may add to encoded_size.
Widths(name) == Shortest(name) .. Shortest(name) + Spread * Values(name)

\* Whether the page is too long whatever digits the values have.
TooLongNow ==
  Shortest("active_requests") + Shortest("request_duration_seconds")
    + Shortest("requests_total") > MaxLines

\* What was read, with one instrument more.
PageWith(read, name) ==
  [n \in DOMAIN read \cup {name} |-> IF n = name THEN Contents(n) ELSE read[n]]

Page == PageWith(draft, Head(todo))

EndScrape == todo' = <<>> /\ draft' = NoPage /\ size' = 0 /\ outgrown' = FALSE

ScrapeInit ==
  /\ Init
  /\ todo = <<>> /\ draft = NoPage /\ size = 0 /\ outgrown = FALSE

\* A request for the page that is authorized and asks for the right path.
StartScrape ==
  /\ todo = <<>>
  /\ todo' = Names
  /\ outgrown' = TooLongNow
  /\ UNCHANGED <<vars, draft, size>>

\* The next instrument, and the page still fits.
Render ==
  /\ Len(todo) > 1
  /\ \E width \in Widths(Head(todo)) :
       size + width <= MaxLines /\ size' = size + width
  /\ todo' = Tail(todo)
  /\ draft' = Page
  /\ UNCHANGED <<vars, outgrown>>

\* The last instrument, and _response_for answers 200 with the whole page.
Deliver ==
  /\ Len(todo) = 1
  /\ \E width \in Widths(Head(todo)) : size + width <= MaxLines
  /\ EndScrape
  /\ UNCHANGED vars

\* encoded_size > max_bytes: to_prometheus raises, and the answer is 503.
Refuse ==
  /\ todo # <<>>
  /\ \E width \in Widths(Head(todo)) : size + width > MaxLines
  /\ EndScrape
  /\ UNCHANGED vars

-----------------------------------------------------------------------------
\* No key has more observed durations than completed requests.
NotAhead(observed, counted) ==
  \A k \in DOMAIN observed \cap DOMAIN counted : observed[k] <= counted[k]
=============================================================================
