------------------------------- MODULE Dashboard -------------------------------
(***************************************************************************)
(* The dashboard (src/crypto_pipeline/dashboard): one session of it, with  *)
(* its two pages, the cache it shares with other sessions, and the session *)
(* state by which the market page tells the backtest page what the user    *)
(* looked at last.  Streamlit runs the script of a page from the top for   *)
(* each thing the user does; every call of the API may fail (ApiError).    *)
(*                                                                         *)
(* Streamlit's cache_data is external.  It knows a function by its name    *)
(* and its source text, so that the load_symbols of the two pages, whose   *)
(* text is the same, share one entry.                                      *)
(***************************************************************************)
EXTENDS Coverage

CONSTANT Day      \* the time between two midnights

ASSUME DashboardAssumption == Day \in Nat \ {0} /\ Day % Minute = 0

VARIABLES
    cache,        \* [Views -> what load_symbols has returned, or None]
    view,         \* where the script of the page is, "idle" when it is done
    symbols,      \* the symbols it has in hand
    symbol,       \* the one that is selected
    remembered    \* st.session_state["last_selection"]: its symbol

session == <<view, symbols, symbol, remembered>>
vars == <<stores, answers, cache, session>>

Views == {"market", "form"}

-----------------------------------------------------------------------------
(* The cache. *)

(* Mutant: each page has an entry of its own. *)
CacheKeyOfPage(v) == v

CacheKey(v) == "market"

(* The time to live of an entry is over. *)
Expire ==
    /\ \E v \in Views : cache' = [cache EXCEPT ![CacheKey(v)] = None]
    /\ UNCHANGED <<stores, answers, session>>

(* Another session fills it. *)
OthersLoad ==
    /\ \E v \in Views :
          /\ cache[CacheKey(v)] = None
          /\ cache' = [cache EXCEPT ![CacheKey(v)] = Listed]
    /\ UNCHANGED <<stores, answers, session>>

(* load_symbols: the cached list, or GET /symbols.  Without symbols, or with an
   ApiError, the page stops. *)
LoadSymbols(v) ==
    /\ view = "idle"
    /\ symbols' = IF cache[CacheKey(v)] = None THEN Listed ELSE cache[CacheKey(v)]
    /\ cache' = [cache EXCEPT ![CacheKey(v)] = symbols']
    /\ view' = IF symbols' = {} THEN "idle" ELSE v
    /\ UNCHANGED <<stores, answers, remembered>>

-----------------------------------------------------------------------------
(* The market page. *)

First(times) == CHOOSE t \in times : \A u \in times : t <= u
Last(times) == CHOOSE t \in times : \A u \in times : u <= t

(* Of the pairs of marks, those that are too far apart, with no candle between. *)
FarApart(marks, p) ==
    {m \in marks : m[2] - m[1] > p.interval /\ \A t \in p.candles : ~(m[1] < t /\ t < m[2])}

(* Mutant: the ends of the range are not looked at. *)
SpansBetweenCandles(p) == FarApart(p.candles \X p.candles, p)

(* gap_spans: between two candles that follow each other, and between a
   candle and an end of the range. *)
Spans(p) ==
    FarApart(p.candles \X p.candles
                \cup {<<p.range.start, First(p.candles)>>, <<Last(p.candles), p.range.end>>}, p)

OpenMarket == LoadSymbols("market") /\ symbol' = None

(* A symbol is selected and load_candles is called. *)
Select ==
    /\ view = "market"
    /\ symbol' \in symbols
    /\ \/ /\ symbol' = Watched
          /\ \E r \in Ranges, interval \in {Minute, Hour}, limit \in Limits :
                GetCandles(r, interval, limit)
       \/ symbol' # Watched /\ UNCHANGED <<stores, answers>>
    /\ view' = "loading"
    /\ UNCHANGED <<cache, symbols, remembered>>

(* The second statement of GET /candles. *)
AnswerEmpty ==
    /\ ListSymbols
    /\ UNCHANGED <<cache, session>>

(* There are candles: the chart is drawn, load_candles and load_coverage are
   called, and the selection is remembered last of all. *)
Remember ==
    /\ view = "loading"
    /\ listing = None
    /\ \/ /\ symbol = Watched
          /\ page # None
          /\ page.candles # {}
          /\ GetCoverage(page.range)
       \/ symbol # Watched /\ UNCHANGED <<stores, answers>>
    /\ remembered' = symbol
    /\ view' = "idle"
    /\ symbols' = {}
    /\ UNCHANGED <<cache, symbol>>

-----------------------------------------------------------------------------
(* The backtest page. *)

(* The form is shown, with the remembered symbol preselected, or the first. *)
OpenForm ==
    /\ LoadSymbols("form")
    /\ IF symbols' = {} THEN symbol' = None
       ELSE IF remembered # None THEN symbol' = remembered
       ELSE symbol' \in symbols'

(* _as_utc(day, time.min): of a moment the form keeps the date only, and sends
   the midnight at which that day begins. *)
AsUtc(t) == (t \div Day) * Day

(* What the date inputs can be made to send. *)
Midnights == {AsUtc(t) : t \in Instants}

(* The form is filled in and sent: any two dates, those of the remembered range
   or others, from midnight to midnight.  The page checks that they are in
   order, and the windows as check_consistency does. *)
Submit ==
    /\ view = "form"
    /\ symbol' \in symbols
    /\ \/ /\ symbol' = Watched
          /\ \E start, end \in Midnights, slow \in SlowWindows :
                start < end /\ PostBacktest([start |-> start, end |-> end], slow)
       \/ symbol' # Watched /\ UNCHANGED <<stores, answers>>
    /\ view' = "idle"
    /\ symbols' = {}
    /\ UNCHANGED <<cache, remembered>>

(* An ApiError, an empty answer, or the user goes elsewhere. *)
PageEnds ==
    /\ view # "idle"
    /\ listing = None
    /\ view' = "idle"
    /\ symbols' = {}
    /\ symbol' = None
    /\ UNCHANGED <<stores, answers, cache, remembered>>

-----------------------------------------------------------------------------

Init ==
    /\ stored = {}
    /\ others = {}
    /\ NothingAsked
    /\ cache = [v \in Views |-> None]
    /\ view = "idle"
    /\ symbols = {}
    /\ symbol = None
    /\ remembered = None

CandlesStored == Store /\ UNCHANGED <<cache, session>>

(* Another client of the API asks for any range, of a symbol that may have no
   candles yet. *)
ClientAsks ==
    /\ view = "idle"
    /\ listing = None
    /\ stored = {}
    /\ \E r \in Ranges, limit \in Limits : GetCandles(r, Minute, limit)
    /\ UNCHANGED <<cache, session>>

Next ==
    \/ CandlesStored
    \/ Expire
    \/ OthersLoad
    \/ OpenMarket
    \/ OpenForm
    \/ Select
    \/ AnswerEmpty
    \/ Remember
    \/ Submit
    \/ PageEnds
    \/ ClientAsks

Spec == Init /\ [][Next]_vars

-----------------------------------------------------------------------------
(* Properties *)

TypeOK ==
    /\ AnswersTypeOK
    /\ cache \in [Views -> (SUBSET (Others \cup {Watched})) \cup {None}]
    /\ view \in Views \cup {"idle", "loading"}
    /\ symbols \in SUBSET (Others \cup {Watched})
    /\ symbol \in Others \cup {Watched, None}
    /\ remembered \in Others \cup {Watched, None}

(* Whenever the backtest page looks for the remembered symbol in its list
   (symbols.index, which would raise), the symbol is in it, however old the
   list in the cache is. *)
RememberedIsListed == view = "form" => symbol \in symbols

(* The red spans of the chart are the gaps: of the candles due strictly inside
   the range, those inside a span are those that are not stored.  A page that
   is cut off would show what it leaves out as missing; the dashboard asks for
   MAX_CANDLES, more than any of its ranges holds. *)
SpansAreGaps ==
    page # None /\ page.candles # {} /\ ~page.truncated =>
        \A t \in {u \in page.range.start + 1 .. page.range.end - 1 : u % page.interval = 0} :
            t \in page.all <=> ~ \E s \in Spans(page) : s[1] < t /\ t < s[2]

=============================================================================
