------------------------------ MODULE CandleFeed ------------------------------
(***************************************************************************)
(* The candles of an exchange, fetched page by page through the one client *)
(* all callers of a process share.  Which way out it takes is an attribute *)
(* of that client, which each call sets before its request.  Times are     *)
(* positions of candles; a millisecond past one is the next position.      *)
(***************************************************************************)
EXTENDS Naturals, FiniteSets

CONSTANTS Callers,
          History,        \* the candles the exchange has to begin with
          Newest,         \* bound: the last candle that may yet print
          PageSize, Servers

ASSUME FeedBounds ==
  /\ Newest \in Nat /\ History \subseteq 1..Newest /\ History # {}
  /\ PageSize \in Nat /\ Servers \subseteq {"from", "window", "static"}

VARIABLES printed,   \* candles at the exchange
          server,    \* how it reads "since": "from", "window" or "static"
          setRoute,  \* the shared client's way out
          call       \* per caller: its walk through the pages

feedVars == <<printed, server, setRoute, call>>

Routes == <<"proxy", "backup", "direct">>
NoCall == [pc |-> "idle"]
Top(S) == CHOOSE t \in S : \A u \in S : u <= t

FeedInit ==
  /\ printed = History /\ server \in Servers /\ setRoute = "proxy"
  /\ call = [c \in Callers |-> NoCall]

CandlePrints ==
  /\ \E t \in 1..Newest : t > Top(printed) /\ printed' = printed \cup {t}
  /\ UNCHANGED <<server, setRoute, call>>

(* From start to end; a replay needs a candle at or after window, the rest *)
(* is padding.  "via" is the way the last request really went.             *)
FetchRange(c, start, window, end) ==
  /\ call[c].pc = "idle" /\ start <= window /\ window <= end /\ start < end
  /\ call' = [call EXCEPT ![c] = [pc |-> "pick", route |-> 1, tries |-> 0, via |-> "proxy", start |-> start,
                                  window |-> window, end |-> end, cursor |-> start, got |-> {}, pages |-> 0]]
  /\ UNCHANGED <<printed, server, setRoute>>

PickRoute(c) ==
  /\ call[c].pc = "pick"
  /\ setRoute' = Routes[call[c].route]
  /\ call' = [call EXCEPT ![c].pc = "inFlight"]
  /\ UNCHANGED <<printed, server>>

(* Markets may have to be loaded and the pace kept before it goes out.     *)
Send(c) ==
  /\ call[c].pc = "inFlight"
  /\ call' = [call EXCEPT ![c].pc = "sent", ![c].via = setRoute]
  /\ UNCHANGED <<printed, server, setRoute>>

(* The next route, or none is left.                                        *)
OtherRoute(c) ==
  LET k == call[c]
  IN  call' = [call EXCEPT ![c] = IF k.route = 3 THEN [k EXCEPT !.pc = "failed"]
                                  ELSE [k EXCEPT !.pc = "pick", !.route = k.route + 1, !.tries = 0]]
Unreachable(c) ==
  /\ call[c].pc = "sent" /\ OtherRoute(c)
  /\ UNCHANGED <<printed, server, setRoute>>

(* "Busy" is tried three times by the client as it then is.                *)
Busy(c) ==
  /\ call[c].pc = "sent"
  /\ IF call[c].tries < 2 THEN call' = [call EXCEPT ![c].pc = "inFlight", ![c].tries = @ + 1]
                          ELSE OtherRoute(c)
  /\ UNCHANGED <<printed, server, setRoute>>

Rejected(c) ==
  /\ call[c].pc = "sent"
  /\ call' = [call EXCEPT ![c].pc = "failed"]
  /\ UNCHANGED <<printed, server, setRoute>>

(* What an exchange returns: candles from the cursor on, those of a page's *)
(* length after it, or its latest ones whatever is asked.                  *)
Answer(cursor) ==
  CASE server = "window" -> {t \in printed : t >= cursor /\ t < cursor + PageSize}
    [] server = "from"   -> {t \in printed : t >= cursor /\ Cardinality({u \in printed : u >= cursor /\ u < t}) < PageSize}
    [] OTHER             -> {t \in printed : Cardinality({u \in printed : u > t}) < PageSize}

NextCursorSkips(page) == Top(page) + 2   \* Mutant: the next page starts one candle too late
NextCursor(page) == Top(page) + 1
StalledNever(got, page, cursor) == FALSE   \* Mutant: nothing tells that the pages no longer advance
Stalled(got, page, cursor) == page \subseteq got \/ Top(page) <= cursor

(* A page: nothing, nothing new, no progress, or on to the next one.       *)
Page(c) ==
  LET k == call[c]  page == Answer(k.cursor) IN
  /\ k.pc = "sent"
  /\ call' = [call EXCEPT ![c] =
       IF page = {} \/ (page \subseteq k.got /\ Stalled(k.got, page, k.cursor))
       THEN [k EXCEPT !.pc = "fetched", !.pages = @ + 1]
       ELSE LET more == [k EXCEPT !.got = @ \cup page, !.pages = @ + 1, !.route = 1, !.tries = 0]
            IN  IF Stalled(k.got, page, k.cursor) \/ NextCursor(page) >= k.end
                THEN [more EXCEPT !.pc = "fetched"]
                ELSE [more EXCEPT !.pc = "pick", !.cursor = NextCursor(page)]]
  /\ UNCHANGED <<printed, server, setRoute>>

(* Only the range asked for is kept; without a candle in the window itself *)
(* the caller gets an error instead of an empty replay.                    *)
Kept(k) == {t \in k.got : k.start <= t /\ t <= k.end}
Deliver(c) ==
  /\ call[c].pc = "fetched"
  /\ call' = [call EXCEPT ![c].pc = IF \E t \in Kept(call[c]) : t >= call[c].window THEN "served" ELSE "noData"]
  /\ UNCHANGED <<printed, server, setRoute>>

FeedNext ==
  \/ CandlePrints
  \/ \E c \in Callers :
       \/ PickRoute(c) \/ Send(c) \/ Unreachable(c) \/ Busy(c) \/ Rejected(c) \/ Page(c) \/ Deliver(c)
       \/ \E start, window, end \in 1..Newest : FetchRange(c, start, window, end)

FeedSpec == FeedInit /\ [][FeedNext]_feedVars

-----------------------------------------------------------------------------
(* A range that is served has no hole: every candle that had printed before*)
(* its last one and belongs to it is there, for an exchange that answers   *)
(* from the time asked for; and every page but the last brings something   *)
(* new, even from an exchange that does not advance.                       *)
RangeHasNoHole ==
  \A c \in Callers :
    LET k == call[c] IN
    /\ k.pc = "served" /\ server # "static" =>
         \A t \in printed : k.start <= t /\ t <= Top(Kept(k)) => t \in k.got
    /\ k.pc # "idle" => k.pages <= Cardinality(printed) + 1

(* No two routes are ever in flight on the client at once.                 *)
OneRouteInFlight ==
  \A c, d \in Callers :
    call[c].pc \in {"inFlight", "sent"} /\ call[d].pc \in {"inFlight", "sent"} => call[c].route = call[d].route
=============================================================================
