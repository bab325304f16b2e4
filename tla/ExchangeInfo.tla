---------------------------- MODULE ExchangeInfo ----------------------------
(***************************************************************************)
(* The tables of binance::api about what is traded (binance.cpp,           *)
(* binance.h): get_exchange_info reloads symbols_, get_currency hands out  *)
(* references into currencies_, get_symbol finds a symbol, which a caller  *)
(* may copy and keep.  The tables are cleared before the request is made   *)
(* (module RestClient), and its callback fills them.                       *)
(*                                                                         *)
(* A response is a sequence of entries, read one by one.  Reading may      *)
(* throw at any entry, because an absent field reads as a null string;     *)
(* what was done up to there stays.                                        *)
(***************************************************************************)
EXTENDS RestClient, SequencesExt

CONSTANTS
    Name,           \* names of symbols
    Asset,          \* names of currencies
    Responses       \* the responses the exchange may give

\* enum order_types; a type the code does not know has no bit.
Bit == [LIMIT |-> 1, LIMIT_MAKER |-> 2, MARKET |-> 4, STOP_LOSS |-> 8,
        STOP_LOSS_LIMIT |-> 16, TAKE_PROFIT |-> 32, TAKE_PROFIT_LIMIT |-> 64]

Entry == [symbol : Name, baseAsset : Asset, quoteAsset : Asset, orderTypes : Seq(STRING)]

ASSUME ResponsesAssumption == Responses \subseteq Seq(Entry)

VARIABLES
    symbols_,       \* name -> symbol, for the names present
    currencies_,    \* asset -> the node of its currency, for the assets present
    nodes,          \* currency nodes allocated so far
    copy,           \* a symbol that a caller copied, or none
    response        \* what was read of the latest response

tableVars == <<symbols_, currencies_, nodes, response>>
exchangeVars == <<vars, tableVars, copy>>

Nothing == <<>>     \* the empty map, and no symbol

ExchangeInit ==
    /\ Init
    /\ symbols_ = Nothing
    /\ currencies_ = Nothing
    /\ nodes = 0
    /\ copy = Nothing
    /\ response = <<>>

-----------------------------------------------------------------------------
(* Reading one entry.  The tables are handled as one record.               *)

\* map.emplace(key, value): an entry that is there stays.
Emplace(map, key, value) ==
    [k \in DOMAIN map \cup {key} |-> IF k \in DOMAIN map THEN map[k] ELSE value]

\* get_currency(asset): a new node when there is none.
WithCurrency(t, asset) ==
    IF asset \in DOMAIN t.currencies
    THEN t
    ELSE [t EXCEPT !.currencies = Emplace(@, asset, t.nodes + 1), !.nodes = @ + 1]

\* mask | bit, for a bit that is a power of two
Or(mask, bit) == IF (mask \div bit) % 2 = 1 THEN mask ELSE mask + bit

\* The orderTypes of an entry as a mask of order_types, type by type.
Mask(types) ==
    LET After[k \in 0 .. Len(types)] ==
            IF k = 0 THEN 0
            ELSE IF types[k] \in DOMAIN Bit THEN Or(After[k - 1], Bit[types[k]])
            ELSE After[k - 1]
    IN  After[Len(types)]

\* Mutant: operator[] and assignment instead of emplace.
AddSymbolLast(map, name, s) ==
    [k \in DOMAIN map \cup {name} |-> IF k = name THEN s ELSE map[k]]

\* symbols_.emplace(name, s)
AddSymbol(map, name, s) == Emplace(map, name, s)

WithCurrencies(t, entry) == WithCurrency(WithCurrency(t, entry.baseAsset), entry.quoteAsset)

WithEntry(t, entry) ==
    LET u == WithCurrencies(t, entry)
        s == [name_ |-> entry.symbol,
              base_ |-> u.currencies[entry.baseAsset],
              quote_ |-> u.currencies[entry.quoteAsset],
              order_types_ |-> Mask(entry.orderTypes)]
    IN  [u EXCEPT !.symbols = AddSymbol(@, entry.symbol, s)]

\* Mutant: get_exchange_info clears both maps.
ClearedBoth == [symbols |-> Nothing, currencies |-> Nothing, nodes |-> nodes]

\* The tables after symbols_.clear().
Cleared == [symbols |-> Nothing, currencies |-> currencies_, nodes |-> nodes]

Tables == [symbols |-> symbols_, currencies |-> currencies_, nodes |-> nodes]

-----------------------------------------------------------------------------
(* The operations.                                                         *)

Become(t) ==
    /\ symbols_' = t.symbols
    /\ currencies_' = t.currencies
    /\ nodes' = t.nodes

\* api::get_exchange_info, up to its request.  If that fails, api::get logs and
\* returns false, which nobody looks at.
ClearAndRequest ==
    /\ get_exchange_info
    /\ Become(Cleared)
    /\ response' = <<>>
    /\ UNCHANGED copy

\* Its callback is at an entry of the response r, of which it has read what is in response.
AtEntry(r) ==
    /\ stack # <<>> /\ Top.pc = "callback" /\ Top.url = ExchangeInfoUrl
    /\ IsStrictPrefix(response, r)

NextEntry(r) == r[Len(response) + 1]

\* One turn of the callback's loop.
ReadEntry(r) ==
    /\ AtEntry(r)
    /\ Become(WithEntry(Tables, NextEntry(r)))
    /\ response' = Append(response, NextEntry(r))
    /\ UNCHANGED <<vars, copy>>

\* Reading an entry throws, before or after its currencies have been looked up.
ReadThrows(r) ==
    /\ AtEntry(r) /\ CallbackReturns
    /\ \/ Become(Tables)
       \/ Become(WithCurrencies(Tables, NextEntry(r)))
    /\ UNCHANGED <<response, copy>>

\* The whole response has been read.
ReadEnds ==
    /\ CallbackReturns /\ Top.url = ExchangeInfoUrl
    /\ response \in Responses
    /\ UNCHANGED <<tableVars, copy>>

\* A caller copies *get_symbol(name).
CopySymbol(name) ==
    /\ MayCall /\ name \in DOMAIN symbols_
    /\ copy' = symbols_[name]
    /\ UNCHANGED <<vars, tableVars>>

\* What leaves the tables alone: other requests, and the steps of each request.
OtherStep ==
    /\ \/ RequestStep
       \/ CallbackReturns /\ Top.url # ExchangeInfoUrl
    /\ UNCHANGED <<tableVars, copy>>

ExchangeNext ==
    \/ ClearAndRequest
    \/ \E r \in Responses : ReadEntry(r) \/ ReadThrows(r)
    \/ ReadEnds
    \/ \E name \in Name : CopySymbol(name)
    \/ OtherStep

ExchangeSpec == ExchangeInit /\ [][ExchangeNext]_exchangeVars

-----------------------------------------------------------------------------
(* Properties.                                                             *)

ExchangeTypeOK ==
    /\ DOMAIN symbols_ \subseteq Name
    /\ DOMAIN currencies_ \subseteq Asset
    /\ \A a \in DOMAIN currencies_ : currencies_[a] \in 1 .. nodes
    /\ \A n \in DOMAIN symbols_ : symbols_[n].order_types_ \in 0 .. 127

\* A symbol's references to its currencies never dangle, not even those of a
\* copy that a caller kept while the tables were reloaded or a reload failed.
KeptSymbols == {symbols_[n] : n \in DOMAIN symbols_} \cup ({copy} \ {Nothing})
ReferencesAlive ==
    \A s \in KeptSymbols :
        \A node \in {s.base_, s.quote_} : \E a \in DOMAIN currencies_ : currencies_[a] = node

\* The entry of name n that counts: the first, as emplace keeps what is there.
FirstEntry(n) ==
    response[CHOOSE i \in DOMAIN response :
                 response[i].symbol = n /\ \A j \in 1 .. i - 1 : response[j].symbol # n]

\* symbols_ holds exactly what was read of the latest response, and nothing of an
\* earlier one; each symbol is that of its first entry.
SymbolsOfResponse ==
    /\ DOMAIN symbols_ = {response[i].symbol : i \in DOMAIN response}
    /\ \A n \in DOMAIN symbols_ :
        LET s == symbols_[n]
            e == FirstEntry(n)
        IN  /\ s.base_ = currencies_[e.baseAsset] /\ s.quote_ = currencies_[e.quoteAsset]
            /\ s.order_types_ = Mask(e.orderTypes)

HasType(mask, type) == (mask \div Bit[type]) % 2 = 1

\* The order types of a symbol are those its entry lists, however often each.
SymbolsMatchResponse ==
    /\ ExchangeTypeOK /\ SymbolsOfResponse
    /\ \A n \in DOMAIN symbols_, type \in DOMAIN Bit :
          LET types == FirstEntry(n).orderTypes IN
          HasType(symbols_[n].order_types_, type) <=> \E j \in DOMAIN types : types[j] = type

\* Every request is answered into the strings of its own call: they are alive while
\* libcurl writes to them, and whole, without the header, when its callback reads
\* them, also when that callback makes other requests with the same handle.
OwnResponse == TypeOK /\ WritesToLiveStrings /\ SeesOwnResponse
=============================================================================
