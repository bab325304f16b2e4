------------------------ MODULE ExchangeInfo_proofs ------------------------
(***************************************************************************)
(* That every request is answered into the strings of its own call, that   *)
(* no symbol has a dangling reference, and that symbols_ is what was read  *)
(* of the latest response, its order types included, for every number of   *)
(* calls and of nested calls and for every response.                       *)
(***************************************************************************)
EXTENDS ExchangeInfo, WellFoundedInduction, TLAPS

USE BoundsAssumption DEF BoundsAssumption

-----------------------------------------------------------------------------
(* The requests.                                                           *)

Pcs == {"set", "perform", "callback", "return"}
DepthUrl(symbol) == <<binance_url, "/api/v3/depth?", "symbol=", symbol, "&limit=1000">>
Urls == {ExchangeInfoUrl} \cup {DepthUrl(symbol) : symbol \in Symbol}
Calls == [pc : Pcs, call : Nat, url : Urls]

\* The first n pieces of a part.
Begun(url, kind, n) == [k \in 1 .. n |-> <<url, kind, k>>]

\* Calls are numbered as they are made, and only the latest is not in its callback.
Nested ==
    /\ calls \in 0 .. MaxCalls
    /\ stack \in Seq(Calls)
    /\ \A i \in 1 .. Len(stack) :
          /\ stack[i].call \in 1 .. calls
          /\ i < Len(stack) => stack[i].pc = "callback"
          /\ \A j \in 1 .. Len(stack) : stack[i].call = stack[j].call => i = j

\* The strings of call c for url, when it is at pc and the options are as in handle.
Filled(str, handle, c, url, pc) ==
    /\ pc = "set" => str[Object(c, "body")] = <<>> /\ str[Object(c, "header")] = <<>>
    /\ pc = "perform" =>
          /\ handle.url = url
          /\ handle.writedata = Object(c, "body") /\ handle.headerdata = Object(c, "header")
          /\ \E n \in 0 .. Pieces : str[Object(c, "body")] = Begun(url, "body", n)
          /\ \E n \in 0 .. Pieces : str[Object(c, "header")] = Begun(url, "header", n)
    /\ pc = "callback" => str[Object(c, "body")] = Begun(url, "body", Pieces)

Alive == {Object(stack[i].call, name) : i \in 1 .. Len(stack), name \in {"header", "body"}}

RInv ==
    /\ Nested
    /\ DOMAIN curl = {"url", "writedata", "headerdata"}
    /\ DOMAIN strings = Alive
    /\ strings = [o \in DOMAIN strings |-> strings[o]]
    /\ \A i \in 1 .. Len(stack) :
          Filled(strings, curl, stack[i].call, stack[i].url, stack[i].pc)

LEMMA RequestInit == Init => RInv
BY DEF Init, RInv, Nested, Alive, Filled, Calls

\* What the invariant says of the latest call.
LEMMA TopType ==
    ASSUME RInv, stack # <<>>
    PROVE  /\ Len(stack) \in Nat \ {0} /\ Len(stack) \in 1 .. Len(stack) /\ Top.call \in 1 .. calls
           /\ Top.pc \in Pcs /\ Filled(strings, curl, Top.call, Top.url, Top.pc)
           /\ Object(Top.call, "body") \in DOMAIN strings
           /\ Object(Top.call, "header") \in DOMAIN strings
           /\ Top \in Calls
<1>1. Len(stack) # 0
  BY DEF RInv, Nested
<1>2. Len(stack) \in Nat \ {0} /\ Len(stack) \in 1 .. Len(stack)
  BY <1>1 DEF RInv, Nested
<1>3. Top \in Calls /\ Top.pc \in Pcs
  <2>1. Top \in Calls
    BY <1>2 DEF RInv, Nested, Top
  <2> QED
    BY <2>1 DEF Calls
<1>4. Top.call \in 1 .. calls /\ Filled(strings, curl, Top.call, Top.url, Top.pc)
  BY <1>2 DEF RInv, Nested, Top
<1>5. Object(Top.call, "body") \in Alive /\ Object(Top.call, "header") \in Alive
  BY <1>2 DEF Alive, Top
<1> QED
  BY <1>2, <1>3, <1>4, <1>5 DEF RInv

LEMMA ObjectDiffers ==
    ASSUME NEW c, NEW d, NEW m, NEW n, Object(c, m) = Object(d, n)
    PROVE  c = d /\ m = n
BY DEF Object

LEMMA NoPieces == ASSUME NEW url, NEW kind PROVE Begun(url, kind, 0) = <<>>
BY DEF Begun

LEMMA OnePieceMore ==
    ASSUME NEW url, NEW kind, NEW n \in Nat, n < Pieces
    PROVE  Append(Begun(url, kind, n), Part(url, kind)[n + 1]) = Begun(url, kind, n + 1)
BY DEF Begun, Part

\* The latest call goes on: the strings of the others stay.
LEMMA TopMoves ==
    ASSUME RInv, stack # <<>>, NEW pc \in Pcs, Goto(pc), calls' = calls,
           DOMAIN curl' = {"url", "writedata", "headerdata"},
           DOMAIN strings' = DOMAIN strings, strings' = [o \in DOMAIN strings' |-> strings'[o]],
           \A o \in DOMAIN strings : o[1] # Top.call => strings'[o] = strings[o],
           Filled(strings', curl', Top.call, Top.url, pc)
    PROVE  RInv'
<1>1. /\ stack' \in Seq(Calls) /\ Len(stack') = Len(stack)
      /\ stack'[Len(stack)] = [stack[Len(stack)] EXCEPT !.pc = pc]
      /\ \A i \in 1 .. Len(stack) : i # Len(stack) => stack'[i] = stack[i]
  <2>1. stack \in Seq(Calls) /\ Len(stack) \in Nat \ {0}
    BY TopType DEF RInv, Nested
  <2>2. PICK x \in Calls : x = Top
    BY TopType
  <2>3. [x EXCEPT !.pc = pc] \in Calls
    BY DEF Calls
  <2>4. [stack[Len(stack)] EXCEPT !.pc = pc] \in Calls
    BY <2>2, <2>3 DEF Top
  <2> QED
    BY <2>1, <2>4 DEF Goto
<1>2. Len(stack) \in Nat \ {0} /\ Top = stack[Len(stack)] /\ Top.call \in 1 .. calls
  BY TopType DEF Top
<1>3. /\ stack'[Len(stack)].pc = pc
      /\ \A i \in 1 .. Len(stack) : stack'[i].call = stack[i].call /\ stack'[i].url = stack[i].url
  <2>1. PICK x \in Calls : x = Top
    BY TopType
  <2>2. /\ [x EXCEPT !.pc = pc].pc = pc
        /\ [x EXCEPT !.pc = pc].call = x.call /\ [x EXCEPT !.pc = pc].url = x.url
    BY DEF Calls
  <2> QED
    BY <1>1, <1>2, <2>1, <2>2
<1>4. Nested'
  BY <1>1, <1>2, <1>3 DEF RInv, Nested
<1>5. DOMAIN strings' = Alive'
  BY <1>1, <1>3 DEF RInv, Alive
<1>6. ASSUME NEW i \in 1 .. Len(stack)
      PROVE  Filled(strings', curl', stack'[i].call, stack'[i].url, stack'[i].pc)
  <2>1. CASE i = Len(stack)
    <3>1. stack'[i].pc = pc
      BY <1>3, <2>1
    <3> QED
      BY <1>2, <1>3, <2>1, <3>1
  <2>2. CASE i # Len(stack)
    <3>1. stack'[i] = stack[i] /\ stack[i].pc = "callback" /\ stack[i].call # Top.call
      BY <1>1, <1>2, <2>2 DEF RInv, Nested
    <3>2. /\ Object(stack[i].call, "body") \in DOMAIN strings
          /\ Object(stack[i].call, "body")[1] # Top.call
      BY <3>1 DEF RInv, Alive, Object
    <3>3. Filled(strings, curl, stack[i].call, stack[i].url, "callback")
      BY <3>1 DEF RInv
    <3> QED
      BY <3>1, <3>2, <3>3 DEF Filled
  <2> QED
    BY <2>1, <2>2
<1> QED
  BY <1>1, <1>4, <1>5, <1>6 DEF RInv

LEMMA SetOptionsStep == ASSUME RInv, SetOptions PROVE RInv'
<1>1. Filled(strings, curl, Top.call, Top.url, "set")
  BY TopType DEF SetOptions
<1>2. Filled(strings', curl', Top.call, Top.url, "perform")
  <2>1. /\ curl'.url = Top.url
        /\ curl'.writedata = Object(Top.call, "body") /\ curl'.headerdata = Object(Top.call, "header")
    BY DEF SetOptions
  <2>2. /\ strings'[Object(Top.call, "body")] = Begun(Top.url, "body", 0)
        /\ strings'[Object(Top.call, "header")] = Begun(Top.url, "header", 0)
    BY <1>1, NoPieces DEF SetOptions, Filled
  <2>3. 0 \in 0 .. Pieces
    OBVIOUS
  <2> QED
    BY <2>1, <2>2, <2>3 DEF Filled
<1> QED
  BY <1>2, TopMoves DEF SetOptions, Pcs, RInv

LEMMA ReceiveStep == ASSUME RInv, NEW kind, NEW o, curl_cb(kind, o),
        kind \in {"header", "body"}, o = IF kind = "header" THEN curl.headerdata ELSE curl.writedata
      PROVE RInv'
<1>1. Filled(strings, curl, Top.call, Top.url, "perform") /\ Top.pc = "perform" /\ stack # <<>>
  BY TopType DEF curl_cb
<1>2. o = Object(Top.call, kind) /\ curl.url = Top.url
  BY <1>1 DEF Filled
<1>3. PICK n \in 0 .. Pieces : strings[o] = Begun(Top.url, kind, n)
  BY <1>1, <1>2 DEF Filled
<1>4. Len(strings[o]) = n /\ n < Pieces
  BY <1>3 DEF curl_cb, Begun
<1>5. /\ DOMAIN strings' = DOMAIN strings /\ strings' = [p \in DOMAIN strings' |-> strings'[p]]
      /\ \A p \in DOMAIN strings : p # o => strings'[p] = strings[p]
      /\ strings'[o] = Append(strings[o], Part(curl.url, kind)[Len(strings[o]) + 1])
  BY DEF curl_cb
<1>6. strings'[o] = Begun(Top.url, kind, n + 1) /\ n + 1 \in 0 .. Pieces
  <2>1. strings'[o] = Append(Begun(Top.url, kind, n), Part(Top.url, kind)[n + 1])
    BY <1>2, <1>3, <1>4, <1>5
  <2>2. n \in Nat
    OBVIOUS
  <2> QED
    BY <1>4, <2>1, <2>2, OnePieceMore
<1>7. \A p \in DOMAIN strings : p[1] # Top.call => strings'[p] = strings[p]
  BY <1>2, <1>5 DEF Object
<1>8. Filled(strings', curl', Top.call, Top.url, "perform")
  <2>1. curl' = curl
    BY DEF curl_cb
  <2>2. ASSUME NEW other \in {"header", "body"}, other # kind
        PROVE  strings'[Object(Top.call, other)] = strings[Object(Top.call, other)]
    BY <1>1, <1>2, <1>5, <2>2, ObjectDiffers, TopType
  <2> QED
    BY <1>1, <1>2, <1>6, <2>1, <2>2 DEF Filled
<1>9. Goto("perform") /\ calls' = calls /\ DOMAIN curl' = {"url", "writedata", "headerdata"}
  <2>1. [Top EXCEPT !.pc = "perform"] = Top
    BY <1>1, TopType DEF Calls
  <2>2. stack' = stack /\ stack \in Seq(Calls) /\ Len(stack) \in 1 .. Len(stack)
    BY <1>1, TopType DEF curl_cb, RInv, Nested
  <2> QED
    BY <2>1, <2>2 DEF Goto, Top, curl_cb, RInv
<1> QED
  BY <1>1, <1>5, <1>7, <1>8, <1>9, TopMoves DEF Pcs

LEMMA PerformStep == ASSUME RInv, PerformFails \/ PerformSucceeds \/ CallbackReturns PROVE RInv'
<1>1. ASSUME PerformFails \/ CallbackReturns PROVE RInv'
  <2>1. stack # <<>> /\ Goto("return") /\ UNCHANGED <<curl, strings, calls>>
    BY <1>1 DEF PerformFails, CallbackReturns, AfterFailure
  <2>2. Filled(strings', curl', Top.call, Top.url, "return")
    BY DEF Filled
  <2> QED
    BY <2>1, <2>2, TopMoves DEF Pcs, RInv
<1>2. ASSUME PerformSucceeds PROVE RInv'
  <2>1. /\ stack # <<>> /\ Goto("callback") /\ UNCHANGED <<curl, strings, calls>>
        /\ Len(strings[curl.writedata]) = Pieces
        /\ Filled(strings, curl, Top.call, Top.url, "perform")
    BY <1>2, TopType DEF PerformSucceeds
  <2>2. PICK n \in 0 .. Pieces : strings[Object(Top.call, "body")] = Begun(Top.url, "body", n)
    BY <2>1 DEF Filled
  <2>3. n = Pieces
    BY <2>1, <2>2 DEF Filled, Begun
  <2>4. Filled(strings', curl', Top.call, Top.url, "callback")
    BY <2>1, <2>2, <2>3 DEF Filled
  <2> QED
    BY <2>1, <2>4, TopMoves DEF Pcs, RInv
<1> QED
  BY <1>1, <1>2

LEMMA GetStep == ASSUME RInv, NEW url \in Urls, get(url) PROVE RInv'
<1>1. PICK n \in Nat : n = Len(stack) /\ stack \in Seq(Calls)
  BY DEF RInv, Nested
<1>2. PICK q : q = stack'
  OBVIOUS
<1>3. /\ q \in Seq(Calls) /\ Len(q) = n + 1
      /\ q[n + 1] = [pc |-> "set", call |-> calls + 1, url |-> url]
      /\ \A i \in 1 .. n : q[i] = stack[i]
  <2>1. [pc |-> "set", call |-> calls + 1, url |-> url] \in Calls
    BY DEF Calls, Pcs, RInv, Nested
  <2> QED
    BY <1>1, <1>2, <2>1 DEF get
<1>4. calls \in 0 .. MaxCalls /\ calls' = calls + 1 /\ calls' \in 0 .. MaxCalls /\ curl' = curl
  BY DEF get, RInv, Nested
<1>5. n = 0 \/ stack[n].pc = "callback"
  <2>1. CASE n = 0
    BY <2>1
  <2>2. CASE n # 0
    BY <1>1, <2>2 DEF get, MayCall, Top
  <2> QED
    BY <2>1, <2>2
<1>6. \A i \in 1 .. n : stack[i].pc = "callback"
  BY <1>1, <1>5 DEF RInv, Nested
<1>7. Nested'
  BY <1>1, <1>2, <1>3, <1>4, <1>6 DEF RInv, Nested, Pcs
<1>8. /\ DOMAIN strings' = DOMAIN strings \cup {Object(calls + 1, "body"), Object(calls + 1, "header")}
      /\ strings' = [o \in DOMAIN strings' |-> strings'[o]]
      /\ \A o \in DOMAIN strings : strings'[o] = strings[o]
      /\ \A o \in DOMAIN strings' \ DOMAIN strings : strings'[o] = <<>>
  BY DEF get
<1>9. DOMAIN strings' = Alive'
  <2>1. Alive' = {Object(q[i].call, name) : i \in 1 .. n + 1, name \in {"header", "body"}}
    BY <1>2, <1>3 DEF Alive
  <2>2. Alive = {Object(q[i].call, name) : i \in 1 .. n, name \in {"header", "body"}}
    BY <1>1, <1>3 DEF Alive
  <2> QED
    BY <1>3, <1>8, <2>1, <2>2 DEF RInv
<1>10. ASSUME NEW i \in 1 .. n + 1
       PROVE  Filled(strings', curl', q[i].call, q[i].url, q[i].pc)
  <2>1. CASE i \in 1 .. n
    <3>1. Object(stack[i].call, "body") \in DOMAIN strings
      BY <1>1, <2>1 DEF RInv, Alive
    <3>2. Filled(strings, curl, stack[i].call, stack[i].url, "callback")
      BY <1>1, <1>6, <2>1 DEF RInv
    <3> QED
      BY <1>3, <1>6, <1>8, <2>1, <3>1, <3>2 DEF Filled
  <2>2. CASE i = n + 1
    <3>1. ASSUME NEW name PROVE Object(calls + 1, name) \notin DOMAIN strings
      BY ObjectDiffers DEF RInv, Nested, Alive
    <3> QED
      BY <1>3, <1>8, <2>2, <3>1 DEF Filled
  <2> QED
    BY <2>1, <2>2
<1> QED
  BY <1>2, <1>3, <1>4, <1>7, <1>8, <1>9, <1>10 DEF RInv

LEMMA ReturnStep == ASSUME RInv, Return PROVE RInv'
<1>1. PICK n \in Nat \ {0} : n = Len(stack) /\ stack \in Seq(Calls)
  BY TopType DEF Return, RInv, Nested
<1>2. PICK q : q = stack'
  OBVIOUS
<1>3. q \in Seq(Calls) /\ Len(q) = n - 1 /\ \A i \in 1 .. n - 1 : q[i] = stack[i]
  <2>1. q = SubSeq(stack, 1, n - 1)
    BY <1>1, <1>2 DEF Return
  <2> QED
    BY <1>1, <2>1
<1>4. curl' = curl /\ calls' = calls
  BY DEF Return
<1>5. Nested'
  <2>1. \A i \in 1 .. n - 1 : i \in 1 .. n /\ i < n
    OBVIOUS
  <2>2. \A i \in 1 .. n - 1 : /\ q[i].call \in 1 .. calls /\ q[i].pc = "callback"
                              /\ \A j \in 1 .. n - 1 : q[i].call = q[j].call => i = j
    BY <1>1, <1>3, <2>1 DEF RInv, Nested
  <2> QED
    BY <1>2, <1>3, <1>4, <2>2 DEF RInv, Nested
<1>6. /\ DOMAIN strings' = {o \in DOMAIN strings : o[1] # Top.call}
      /\ strings' = [o \in DOMAIN strings' |-> strings'[o]]
      /\ \A o \in DOMAIN strings' : strings'[o] = strings[o]
  BY DEF Return
<1>7. Top = stack[n] /\ \A i \in 1 .. n - 1 : stack[i].call # Top.call /\ stack[i].pc = "callback"
  BY <1>1 DEF RInv, Nested, Top
<1>8. DOMAIN strings' = Alive'
  <2>1. Alive' = {Object(stack[i].call, name) : i \in 1 .. n - 1, name \in {"header", "body"}}
    BY <1>2, <1>3 DEF Alive
  <2>2. Alive = {Object(stack[i].call, name) : i \in 1 .. n, name \in {"header", "body"}}
    BY <1>1 DEF Alive
  <2> QED
    BY <1>6, <1>7, <2>1, <2>2 DEF RInv, Object
<1>9. ASSUME NEW i \in 1 .. n - 1
      PROVE  Filled(strings', curl', q[i].call, q[i].url, q[i].pc)
  <2>1. Object(stack[i].call, "body") \in DOMAIN strings'
    BY <1>1, <1>6, <1>7 DEF RInv, Alive, Object
  <2>2. Filled(strings, curl, stack[i].call, stack[i].url, "callback")
    BY <1>1, <1>7 DEF RInv
  <2> QED
    BY <1>3, <1>6, <1>7, <2>1, <2>2 DEF Filled
<1> QED
  BY <1>2, <1>3, <1>4, <1>5, <1>6, <1>8, <1>9 DEF RInv

-----------------------------------------------------------------------------
(* The tables.                                                             *)

IsFirst(i, n) == response[i].symbol = n /\ \A j \in 1 .. i - 1 : response[j].symbol # n

\* The symbol s is that of entry e.
SymbolOf(s, e, currencies) ==
    /\ e.baseAsset \in DOMAIN currencies /\ e.quoteAsset \in DOMAIN currencies
    /\ s.base_ = currencies[e.baseAsset] /\ s.quote_ = currencies[e.quoteAsset]
    /\ s.order_types_ = Mask(e.orderTypes)

RefersTo(s, currencies) ==
    \A node \in {s.base_, s.quote_} : \E a \in DOMAIN currencies : currencies[a] = node

\* The map n extends the map m.
Extends(n, m) == DOMAIN m \subseteq DOMAIN n /\ \A k \in DOMAIN m : n[k] = m[k]

TInv ==
    /\ response \in Seq(Entry)
    /\ symbols_ = [n \in DOMAIN symbols_ |-> symbols_[n]]
    /\ DOMAIN symbols_ = {response[i].symbol : i \in 1 .. Len(response)}
    /\ \A n \in DOMAIN symbols_ : \E i \in 1 .. Len(response) : IsFirst(i, n)
    /\ \A n \in DOMAIN symbols_ : \A i \in 1 .. Len(response) :
          IsFirst(i, n) => SymbolOf(symbols_[n], response[i], currencies_)
    /\ \A n \in DOMAIN symbols_ : RefersTo(symbols_[n], currencies_)
    /\ copy # Nothing => RefersTo(copy, currencies_)

IInv == RInv /\ TInv

LEMMA CurrencyFound ==
    ASSUME NEW t, NEW asset,
           t = [symbols |-> t.symbols, currencies |-> t.currencies, nodes |-> t.nodes]
    PROVE  LET u == WithCurrency(t, asset) IN
           /\ u = [symbols |-> t.symbols, currencies |-> u.currencies, nodes |-> u.nodes]
           /\ Extends(u.currencies, t.currencies) /\ asset \in DOMAIN u.currencies
<1>1. CASE asset \in DOMAIN t.currencies
  BY <1>1 DEF WithCurrency, Extends
<1>2. CASE asset \notin DOMAIN t.currencies
  <2>1. WithCurrency(t, asset) =
          [symbols |-> t.symbols, currencies |-> Emplace(t.currencies, asset, t.nodes + 1),
           nodes |-> t.nodes + 1]
    BY <1>2 DEF WithCurrency
  <2>2. PICK m : m = Emplace(t.currencies, asset, t.nodes + 1)
    OBVIOUS
  <2>3. Extends(m, t.currencies) /\ asset \in DOMAIN m
    BY <2>2 DEF Emplace, Extends
  <2> QED
    BY <2>1, <2>2, <2>3
<1> QED
  BY <1>1, <1>2

LEMMA CurrenciesFound ==
    ASSUME NEW entry
    PROVE  LET u == WithCurrencies(Tables, entry) IN
           /\ u = [symbols |-> symbols_, currencies |-> u.currencies, nodes |-> u.nodes]
           /\ Extends(u.currencies, currencies_)
           /\ entry.baseAsset \in DOMAIN u.currencies /\ entry.quoteAsset \in DOMAIN u.currencies
<1>1. PICK u : u = WithCurrency(Tables, entry.baseAsset)
  OBVIOUS
<1>2. /\ u = [symbols |-> symbols_, currencies |-> u.currencies, nodes |-> u.nodes]
      /\ Extends(u.currencies, currencies_) /\ entry.baseAsset \in DOMAIN u.currencies
  BY <1>1, CurrencyFound DEF Tables
<1>3. PICK w : w = WithCurrency(u, entry.quoteAsset)
  OBVIOUS
<1>4. /\ w = [symbols |-> symbols_, currencies |-> w.currencies, nodes |-> w.nodes]
      /\ Extends(w.currencies, u.currencies) /\ entry.quoteAsset \in DOMAIN w.currencies
  BY <1>2, <1>3, CurrencyFound
<1>5. w = WithCurrencies(Tables, entry)
  BY <1>1, <1>3 DEF WithCurrencies
<1> QED
  BY <1>2, <1>4, <1>5 DEF Extends

\* What refers to a currency goes on doing so when currencies are added.
LEMMA StillRefers ==
    ASSUME NEW s, NEW m, NEW n, Extends(n, m)
    PROVE  /\ RefersTo(s, m) => RefersTo(s, n)
           /\ \A e : SymbolOf(s, e, m) => SymbolOf(s, e, n)
BY DEF Extends, RefersTo, SymbolOf

\* More currencies, the same symbols.
LEMMA MoreCurrencies ==
    ASSUME TInv, Extends(currencies_', currencies_), UNCHANGED <<symbols_, copy, response>>
    PROVE  TInv'
<1>1. \A i, n : IsFirst(i, n)' <=> IsFirst(i, n)
  BY DEF IsFirst
<1>2. ASSUME NEW n \in DOMAIN symbols_
      PROVE  /\ RefersTo(symbols_[n], currencies_')
             /\ \E i \in 1 .. Len(response) : IsFirst(i, n)
             /\ \A i \in 1 .. Len(response) :
                   IsFirst(i, n) => SymbolOf(symbols_[n], response[i], currencies_')
  BY StillRefers DEF TInv
<1>3. copy # Nothing => RefersTo(copy, currencies_')
  BY StillRefers DEF TInv
<1> QED
  BY <1>1, <1>2, <1>3 DEF TInv

\* What is read next is an entry.
LEMMA EntryRead ==
    ASSUME TInv, NEW r \in Responses, AtEntry(r)
    PROVE  NextEntry(r) \in Entry
<1>1. PICK n \in Nat : n = Len(response) /\ response \in Seq(Entry)
  BY DEF TInv
<1>2. r \in Seq(Entry) /\ n < Len(r)
  BY <1>1, ResponsesAssumption DEF AtEntry, IsStrictPrefix, IsPrefix, ResponsesAssumption
<1> QED
  BY <1>1, <1>2 DEF NextEntry

LEMMA ReadEntryStep ==
    ASSUME TInv, NEW r \in Responses, ReadEntry(r)
    PROVE  TInv'
<1>1. PICK n \in Nat : n = Len(response) /\ response \in Seq(Entry)
  BY DEF TInv
<1>2. PICK e \in Entry : e = NextEntry(r)
  BY EntryRead DEF ReadEntry
<1>3. PICK u : u = WithCurrencies(Tables, e)
  OBVIOUS
<1>4. /\ u = [symbols |-> symbols_, currencies |-> u.currencies, nodes |-> u.nodes]
      /\ Extends(u.currencies, currencies_)
      /\ e.baseAsset \in DOMAIN u.currencies /\ e.quoteAsset \in DOMAIN u.currencies
  BY <1>3, CurrenciesFound
<1>5. PICK s : s = [name_ |-> e.symbol, base_ |-> u.currencies[e.baseAsset],
                    quote_ |-> u.currencies[e.quoteAsset], order_types_ |-> Mask(e.orderTypes)]
  OBVIOUS
<1>6. SymbolOf(s, e, u.currencies) /\ RefersTo(s, u.currencies)
  BY <1>4, <1>5 DEF SymbolOf, RefersTo
<1>7. PICK m : m = Emplace(symbols_, e.symbol, s)
  OBVIOUS
<1>8. /\ DOMAIN m = DOMAIN symbols_ \cup {e.symbol} /\ m = [k \in DOMAIN m |-> m[k]]
      /\ \A k \in DOMAIN symbols_ : m[k] = symbols_[k]
      /\ e.symbol \notin DOMAIN symbols_ => m[e.symbol] = s
  BY <1>7 DEF Emplace
<1>9. symbols_' = m /\ currencies_' = u.currencies /\ copy' = copy
  <2>1. WithEntry(Tables, e) = [u EXCEPT !.symbols = Emplace(@, e.symbol, s)]
    BY <1>3, <1>5 DEF WithEntry, AddSymbol
  <2>2. [u EXCEPT !.symbols = Emplace(@, e.symbol, s)] =
          [symbols |-> m, currencies |-> u.currencies, nodes |-> u.nodes]
    BY <1>4, <1>7
  <2>3. Become(WithEntry(Tables, e)) /\ copy' = copy
    BY <1>2 DEF ReadEntry
  <2> QED
    BY <2>1, <2>2, <2>3 DEF Become
<1>10. PICK q : q = response'
  OBVIOUS
<1>11. /\ q \in Seq(Entry) /\ Len(q) = n + 1 /\ q[n + 1] = e
       /\ \A i \in 1 .. n : q[i] = response[i]
  BY <1>1, <1>2, <1>10 DEF ReadEntry
<1>12. DOMAIN m = {q[i].symbol : i \in 1 .. n + 1}
  <2>1. DOMAIN symbols_ = {q[i].symbol : i \in 1 .. n}
    BY <1>1, <1>11 DEF TInv
  <2> QED
    BY <1>8, <1>11, <2>1
<1>13. ASSUME NEW k \in DOMAIN m
       PROVE  /\ RefersTo(m[k], u.currencies)
              /\ \E i \in 1 .. n + 1 : IsFirst(i, k)'
              /\ \A i \in 1 .. n + 1 : IsFirst(i, k)' => SymbolOf(m[k], q[i], u.currencies)
  <2>1. CASE k \in DOMAIN symbols_
    <3>1. PICK i \in 1 .. n : IsFirst(i, k)
      BY <1>1, <2>1 DEF TInv
    <3>2. i \in 1 .. n + 1 /\ IsFirst(i, k)'
      BY <1>10, <1>11, <3>1 DEF IsFirst
    <3>3. ASSUME NEW j \in 1 .. n + 1, IsFirst(j, k)'
          PROVE  SymbolOf(m[k], q[j], u.currencies)
      <4>1. j \in 1 .. n /\ IsFirst(j, k)
        BY <1>10, <1>11, <3>1, <3>3 DEF IsFirst
      <4>2. SymbolOf(symbols_[k], response[j], currencies_)
        BY <1>1, <2>1, <4>1 DEF TInv
      <4> QED
        BY <1>4, <1>8, <1>11, <2>1, <4>1, <4>2, StillRefers
    <3>4. RefersTo(m[k], u.currencies)
      BY <1>4, <1>8, <2>1, StillRefers DEF TInv
    <3> QED
      BY <3>2, <3>3, <3>4
  <2>2. CASE k \notin DOMAIN symbols_
    <3>1. k = e.symbol /\ m[k] = s
      BY <1>8, <2>2
    <3>2. \A i \in 1 .. n : response[i].symbol # k
      BY <1>1, <2>2 DEF TInv
    <3>3. IsFirst(n + 1, k)'
      BY <1>10, <1>11, <3>1, <3>2 DEF IsFirst
    <3>4. \A i \in 1 .. n + 1 : IsFirst(i, k)' => i = n + 1
      BY <1>10, <1>11, <3>2 DEF IsFirst
    <3> QED
      BY <1>6, <1>11, <3>1, <3>3, <3>4
  <2> QED
    BY <2>1, <2>2
<1>14. copy # Nothing => RefersTo(copy, u.currencies)
  BY <1>4, StillRefers DEF TInv
<1> QED
  BY <1>8, <1>9, <1>10, <1>11, <1>12, <1>13, <1>14 DEF TInv

LEMMA ClearStep == ASSUME TInv, ClearAndRequest PROVE TInv'
<1>1. /\ symbols_' = Nothing /\ currencies_' = currencies_ /\ copy' = copy /\ response' = <<>>
  BY DEF ClearAndRequest, Become, Cleared
<1>2. DOMAIN Nothing = {} /\ Nothing = [n \in DOMAIN Nothing |-> Nothing[n]]
  BY DEF Nothing
<1> QED
  BY <1>1, <1>2 DEF TInv

LEMMA CopyStep == ASSUME TInv, NEW name, CopySymbol(name) PROVE TInv'
<1>1. \A i, n : IsFirst(i, n)' <=> IsFirst(i, n)
  BY DEF IsFirst, CopySymbol, tableVars
<1>2. RefersTo(copy', currencies_)
  BY DEF CopySymbol, TInv
<1> QED
  BY <1>1, <1>2 DEF CopySymbol, TInv, tableVars

-----------------------------------------------------------------------------
(* The theorems.                                                           *)

LEMMA RequestsNext == ASSUME RInv, ExchangeNext PROVE RInv'
<1>1. ASSUME UNCHANGED vars PROVE RInv'
  BY <1>1 DEF vars, RInv, Nested, Alive
<1>2. CASE ClearAndRequest
  BY <1>2, GetStep DEF ClearAndRequest, get_exchange_info, Urls
<1>3. CASE \E r \in Responses : ReadEntry(r) \/ ReadThrows(r)
  BY <1>1, <1>3, PerformStep DEF ReadEntry, ReadThrows
<1>4. CASE ReadEnds
  BY <1>4, PerformStep DEF ReadEnds
<1>5. CASE \E name \in Name : CopySymbol(name)
  BY <1>1, <1>5 DEF CopySymbol
<1>6. CASE OtherStep
  <2>1. CASE \E symbol \in Symbol : get_depth(symbol)
    BY <2>1, GetStep DEF get_depth, Urls, DepthUrl
  <2>2. CASE Receive
    BY <2>2, ReceiveStep DEF Receive
  <2> QED
    BY <1>6, <2>1, <2>2, SetOptionsStep, PerformStep, ReturnStep DEF OtherStep, RequestStep
<1> QED
  BY <1>2, <1>3, <1>4, <1>5, <1>6 DEF ExchangeNext

LEMMA TablesKept == ASSUME TInv, UNCHANGED <<tableVars, copy>> PROVE TInv'
<1>1. UNCHANGED <<symbols_, currencies_, copy, response>>
  BY DEF tableVars
<1>2. Extends(currencies_', currencies_)
  BY <1>1 DEF Extends
<1> QED
  BY <1>1, <1>2, MoreCurrencies

LEMMA TablesNext == ASSUME TInv, ExchangeNext PROVE TInv'
<1>2. ASSUME NEW r \in Responses, ReadThrows(r) PROVE TInv'
  <2>1. CASE Become(Tables)
    <3>1. Extends(currencies_', currencies_) /\ symbols_' = symbols_
      BY <2>1 DEF Become, Tables, Extends
    <3> QED
      BY <1>2, <3>1, MoreCurrencies DEF ReadThrows
  <2>2. CASE Become(WithCurrencies(Tables, NextEntry(r)))
    <3>1. PICK u : u = WithCurrencies(Tables, NextEntry(r))
      OBVIOUS
    <3>2. u.symbols = symbols_ /\ Extends(u.currencies, currencies_)
      <4>1. /\ u = [symbols |-> symbols_, currencies |-> u.currencies, nodes |-> u.nodes]
            /\ Extends(u.currencies, currencies_)
        BY <3>1, CurrenciesFound
      <4> QED
        BY <4>1
    <3> QED
      BY <1>2, <2>2, <3>1, <3>2, MoreCurrencies DEF ReadThrows, Become
  <2> QED
    BY <1>2, <2>1, <2>2 DEF ReadThrows
<1>3. CASE ReadEnds \/ OtherStep
  BY <1>3, TablesKept DEF ReadEnds, OtherStep
<1> QED
  BY <1>2, <1>3, ReadEntryStep, ClearStep, CopyStep DEF ExchangeNext

LEMMA ExchangeInvariant == ExchangeSpec => []IInv
<1>1. ExchangeInit => IInv
  <2>1. DOMAIN Nothing = {} /\ Nothing = [n \in DOMAIN Nothing |-> Nothing[n]]
    BY DEF Nothing
  <2>2. ExchangeInit => TInv
    BY <2>1 DEF ExchangeInit, TInv
  <2> QED
    BY <2>2, RequestInit DEF ExchangeInit, IInv
<1>2. IInv /\ [ExchangeNext]_exchangeVars => IInv'
  <2>1. ASSUME IInv, UNCHANGED exchangeVars PROVE IInv'
    <3>1. UNCHANGED <<curl, strings, stack, calls>> /\ UNCHANGED <<tableVars, copy>>
      BY <2>1 DEF exchangeVars, vars
    <3>2. RInv'
      BY <2>1, <3>1 DEF IInv, RInv, Nested, Alive
    <3>3. TInv'
      BY <2>1, <3>1, TablesKept DEF IInv
    <3> QED
      BY <3>2, <3>3 DEF IInv
  <2> QED
    BY <2>1, RequestsNext, TablesNext DEF IInv
<1> QED
  BY <1>1, <1>2, PTL DEF ExchangeSpec

\* api::get (binance.cpp) hands a callback the whole body of what it asked for, and
\* libcurl only ever writes to strings of a call that has not returned, however deep
\* the requests are nested over the one handle of restful.cpp.
THEOREM OwnResponseCorrect == ExchangeSpec => []OwnResponse
<1>1. ASSUME RInv PROVE TypeOK
  <2>1. DOMAIN stack = 1 .. Len(stack)
    BY <1>1 DEF RInv, Nested
  <2>2. \A i \in DOMAIN stack : stack[i] \in Calls
    BY <1>1 DEF RInv, Nested
  <2>3. \A i \in DOMAIN stack : stack[i].pc \in {"set", "perform", "callback", "return"}
    BY <2>2 DEF Calls, Pcs
  <2>4. \A i \in DOMAIN stack : i < Len(stack) => stack[i].pc = "callback"
    BY <1>1, <2>1 DEF RInv, Nested
  <2>5. Alive = StringsOfCalls
    BY <2>1 DEF Alive, StringsOfCalls
  <2> QED
    BY <1>1, <2>3, <2>4, <2>5 DEF RInv, Nested, TypeOK
<1>2. IInv => WritesToLiveStrings
  BY DEF IInv, RInv, Nested, Alive, Filled, WritesToLiveStrings
<1>3. IInv => SeesOwnResponse
  BY DEF IInv, RInv, Nested, Filled, Begun, Part, SeesOwnResponse
<1> QED
  BY <1>1, <1>2, <1>3, ExchangeInvariant, PTL DEF OwnResponse, IInv

\* The currencies a symbol refers to, or a copy of one that a caller kept, are there
\* however often get_exchange_info (binance.cpp) reloads, and wherever it throws.
THEOREM ReferencesCorrect == ExchangeSpec => []ReferencesAlive
<1>1. IInv => ReferencesAlive
  BY DEF IInv, TInv, ReferencesAlive, KeptSymbols, RefersTo
<1> QED
  BY <1>1, ExchangeInvariant, PTL

\* The entry of a name that counts is one that was read.
LEMMA FirstEntryRead ==
    ASSUME TInv, NEW n \in DOMAIN symbols_
    PROVE  \E i \in 1 .. Len(response) : IsFirst(i, n) /\ FirstEntry(n) = response[i]
<1>1. PICK i \in 1 .. Len(response) : IsFirst(i, n)
  BY DEF TInv
<1>2. DOMAIN response = 1 .. Len(response)
  BY DEF TInv
<1>3. \E j \in DOMAIN response : IsFirst(j, n)
  BY <1>1, <1>2
<1>4. PICK j \in DOMAIN response : IsFirst(j, n) /\ FirstEntry(n) = response[j]
  BY <1>3 DEF FirstEntry, IsFirst
<1> QED
  BY <1>2, <1>4


\* After any reload, whole or broken off, symbols_ is what get_exchange_info
\* (binance.cpp) read of the latest response and nothing else.
THEOREM SymbolsCorrect == ExchangeSpec => []SymbolsOfResponse
<1>1. ASSUME TInv, NEW n \in DOMAIN symbols_
      PROVE  SymbolOf(symbols_[n], FirstEntry(n), currencies_)
  <2>1. PICK i \in 1 .. Len(response) : IsFirst(i, n) /\ FirstEntry(n) = response[i]
    BY <1>1, FirstEntryRead
  <2> QED
    BY <1>1, <2>1 DEF TInv
<1>2. TInv => SymbolsOfResponse
  <2>1. TInv => DOMAIN response = 1 .. Len(response)
    BY DEF TInv
  <2> QED
    BY <1>1, <2>1 DEF TInv, SymbolsOfResponse, SymbolOf
<1> QED
  BY <1>2, ExchangeInvariant, PTL DEF IInv

-----------------------------------------------------------------------------
(* The mask of the order types.  It is read type by type; what it is after *)
(* each of them is found by looking at the least number at which it would  *)
(* be something else.                                                      *)

LEMMA LeastNumber ==
    ASSUME NEW T, T \subseteq Nat, T # {}
    PROVE  \E n \in T : \A m \in T : n <= m
<1>1. PICK n \in T : \A m \in T : ~(<<m, n>> \in OpToRel(<, Nat))
  BY NatLessThanWellFounded, WFMin, Zenon
<1>2. \A m \in T : ~(m < n)
  BY <1>1 DEF OpToRel
<1> QED
  BY <1>2

Bits == {1, 2, 4, 8, 16, 32, 64}
HasBit(mask, bit) == (mask \div bit) % 2 = 1

\* | sets one bit and leaves the others.
LEMMA OrBit ==
    ASSUME NEW mask \in 0 .. 127, NEW b \in Bits, NEW c \in Bits
    PROVE  /\ Or(mask, b) \in 0 .. 127
           /\ HasBit(Or(mask, b), c) <=> HasBit(mask, c) \/ c = b
<1> USE DEF Or, HasBit, Bits
<1>1. CASE b = 1
  BY <1>1
<1>2. CASE b = 2
  BY <1>2
<1>3. CASE b = 4
  BY <1>3
<1>4. CASE b = 8
  BY <1>4
<1>5. CASE b = 16
  BY <1>5
<1>6. CASE b = 32
  BY <1>6
<1>7. CASE b = 64
  BY <1>7
<1> QED
  BY <1>1, <1>2, <1>3, <1>4, <1>5, <1>6, <1>7

Types == {"LIMIT", "LIMIT_MAKER", "MARKET", "STOP_LOSS", "STOP_LOSS_LIMIT", "TAKE_PROFIT",
          "TAKE_PROFIT_LIMIT"}

LEMMA BitOfType ==
    /\ DOMAIN Bit = Types
    /\ \A type \in Types : Bit[type] \in Bits
    /\ \A t, u \in Types : Bit[t] = Bit[u] => t = u
BY DEF Bit, Types, Bits

\* f is the mask after each of the first n types.
Masks(f, types, n) ==
    f = [k \in 0 .. n |->
            IF k = 0 THEN 0
            ELSE IF types[k] \in DOMAIN Bit THEN Or(f[k - 1], Bit[types[k]])
            ELSE f[k - 1]]

LEMMA MasksExist ==
    ASSUME NEW types, NEW n \in Nat
    PROVE  \E f : Masks(f, types, n)
<1> DEFINE Next(before, k) ==
             IF types[k] \in DOMAIN Bit THEN Or(before, Bit[types[k]]) ELSE before
           Bad == {m \in Nat : ~\E f : Masks(f, types, m)}
<1>0. \A f, m : Masks(f, types, m) <=>
                  f = [k \in 0 .. m |-> IF k = 0 THEN 0 ELSE Next(f[k - 1], k)]
  BY DEF Masks
<1> HIDE DEF Next
<1> SUFFICES ASSUME Bad # {} PROVE FALSE
  OBVIOUS
<1>1. PICK m \in Bad : \A i \in Bad : m <= i
  <2> HIDE DEF Bad
  <2>1. Bad \subseteq Nat
    BY DEF Bad
  <2> QED
    BY <2>1, LeastNumber
<1>2. m \in Nat /\ ~\E f : Masks(f, types, m)
  OBVIOUS
<1>3. m # 0
  <2>1. Masks([k \in 0 .. 0 |-> 0], types, 0)
    BY DEF Masks
  <2> QED
    BY <1>2, <2>1
<1>4. PICK f : Masks(f, types, m - 1)
  BY <1>1, <1>2, <1>3
<1>5. f = [k \in 0 .. m - 1 |-> IF k = 0 THEN 0 ELSE Next(f[k - 1], k)]
  BY <1>0, <1>4
<1> DEFINE g == [k \in 0 .. m |-> IF k < m THEN f[k] ELSE Next(f[m - 1], m)]
           h == [k \in 0 .. m |-> IF k = 0 THEN 0 ELSE Next(g[k - 1], k)]
<1>6. ASSUME NEW k \in 0 .. m PROVE g[k] = h[k]
  <2>1. CASE k = 0
    BY <1>2, <1>3, <1>5, <2>1
  <2>2. CASE k # 0 /\ k < m
    <3>1. f[k] = Next(f[k - 1], k)
      BY <1>2, <1>5, <2>2
    <3>2. g[k] = f[k] /\ g[k - 1] = f[k - 1]
      BY <1>2, <2>2
    <3> QED
      BY <2>2, <3>1, <3>2
  <2>3. CASE k = m
    BY <1>2, <1>3, <2>3
  <2> QED
    BY <1>2, <2>1, <2>2, <2>3
<1>7. g = h
  BY <1>6
<1>8. Masks(g, types, m)
  BY <1>0, <1>7
<1> QED
  BY <1>2, <1>8

\* The mask is that of the types that are known, however often they occur.
LEMMA MaskRight ==
    ASSUME NEW types, Len(types) \in Nat
    PROVE  /\ Mask(types) \in 0 .. 127
           /\ \A type \in Types : HasBit(Mask(types), Bit[type]) <=>
                                    \E j \in 1 .. Len(types) : types[j] = type
<1> DEFINE f == CHOOSE g : Masks(g, types, Len(types))
<1>1. Masks(f, types, Len(types))
  <2>1. \E g : Masks(g, types, Len(types))
    BY MasksExist
  <2> QED
    BY <2>1, Zenon
<1>2. Mask(types) = f[Len(types)]
  BY Zenon DEF Mask, Masks
<1> HIDE DEF f
<1> DEFINE Right(k) ==
             /\ f[k] \in 0 .. 127
             /\ \A type \in Types : HasBit(f[k], Bit[type]) <=> \E j \in 1 .. k : types[j] = type
<1>3. PICK n \in Nat : n = Len(types)
  OBVIOUS
<1>4. /\ f[0] = 0
      /\ \A k \in 1 .. n : f[k] = IF types[k] \in Types THEN Or(f[k - 1], Bit[types[k]])
                                  ELSE f[k - 1]
  BY <1>1, <1>3, BitOfType DEF Masks
<1>5. Right(0)
  <2>1. \A bit \in Bits : ~HasBit(0, bit)
    BY DEF HasBit, Bits
  <2> QED
    BY <1>4, <2>1, BitOfType
<1>6. ASSUME NEW k \in 1 .. n, Right(k - 1) PROVE Right(k)
  <2>1. f[k - 1] \in 0 .. 127
    BY <1>6
  <2>2. ASSUME NEW type \in Types
        PROVE  (\E j \in 1 .. k : types[j] = type) <=>
                  types[k] = type \/ \E j \in 1 .. k - 1 : types[j] = type
    BY <1>3
  <2>3. CASE types[k] \in Types
    <3>1. f[k] = Or(f[k - 1], Bit[types[k]]) /\ Bit[types[k]] \in Bits
      BY <1>4, <2>3, BitOfType
    <3>2. ASSUME NEW type \in Types
          PROVE  HasBit(f[k], Bit[type]) <=> HasBit(f[k - 1], Bit[type]) \/ type = types[k]
      <4>1. Bit[type] \in Bits /\ (Bit[type] = Bit[types[k]] <=> type = types[k])
        BY <2>3, BitOfType
      <4>2. PICK mask \in 0 .. 127, b \in Bits, c \in Bits :
               mask = f[k - 1] /\ b = Bit[types[k]] /\ c = Bit[type]
        BY <2>1, <3>1, <4>1
      <4>3. HasBit(Or(mask, b), c) <=> HasBit(mask, c) \/ c = b
        BY OrBit
      <4>4. HasBit(f[k], Bit[type]) <=> HasBit(f[k - 1], Bit[type]) \/ Bit[type] = Bit[types[k]]
        BY <3>1, <4>2, <4>3, Zenon
      <4> QED
        BY <4>1, <4>4
    <3>3. f[k] \in 0 .. 127
      BY <2>1, <3>1, OrBit
    <3> QED
      BY <1>6, <2>2, <3>2, <3>3
  <2>4. CASE types[k] \notin Types
    <3>1. f[k] = f[k - 1]
      BY <1>4, <2>4
    <3> QED
      BY <1>6, <2>2, <2>4, <3>1
  <2> QED
    BY <2>3, <2>4
<1> HIDE DEF Right
<1> DEFINE Bad == {k \in 0 .. n : ~Right(k)}
<1>7. Bad = {}
  <2> SUFFICES ASSUME Bad # {} PROVE FALSE
    OBVIOUS
  <2>1. PICK m \in Bad : \A i \in Bad : m <= i
    <3>1. Bad \subseteq Nat
      OBVIOUS
    <3> HIDE DEF Bad
    <3> QED
      BY <3>1, LeastNumber
  <2>2. m \in 1 .. n /\ ~Right(m)
    BY <1>5
  <2>3. Right(m - 1)
    BY <2>1, <2>2
  <2> QED
    BY <1>6, <2>2, <2>3
<1>8. Right(n)
  BY <1>7
<1> QED
  BY <1>2, <1>3, <1>8 DEF Right

-----------------------------------------------------------------------------
(* The types of the tables.                                                *)

Typed(currencies, n) ==
    /\ n \in Nat /\ DOMAIN currencies \subseteq Asset
    /\ \A a \in DOMAIN currencies : currencies[a] \in 1 .. n

LEMMA CurrencyTyped ==
    ASSUME NEW t, NEW asset \in Asset, Typed(t.currencies, t.nodes),
           t = [symbols |-> t.symbols, currencies |-> t.currencies, nodes |-> t.nodes]
    PROVE  Typed(WithCurrency(t, asset).currencies, WithCurrency(t, asset).nodes)
<1>1. CASE asset \in DOMAIN t.currencies
  BY <1>1 DEF WithCurrency
<1>2. CASE asset \notin DOMAIN t.currencies
  <2>1. PICK n, m : n \in Nat /\ n = t.nodes /\ m = Emplace(t.currencies, asset, n + 1)
    BY DEF Typed
  <2>2. WithCurrency(t, asset) = [symbols |-> t.symbols, currencies |-> m, nodes |-> n + 1]
    BY <1>2, <2>1 DEF WithCurrency
  <2>3. /\ DOMAIN m = DOMAIN t.currencies \cup {asset} /\ m[asset] = n + 1
        /\ \A a \in DOMAIN t.currencies : m[a] = t.currencies[a]
    BY <1>2, <2>1 DEF Emplace
  <2>4. Typed(m, n + 1)
    <3>1. \A a \in DOMAIN t.currencies : t.currencies[a] \in 1 .. n + 1
      BY <2>1 DEF Typed
    <3>2. n + 1 \in Nat /\ n + 1 \in 1 .. n + 1 /\ DOMAIN m \subseteq Asset
      BY <2>1, <2>3 DEF Typed
    <3> QED
      BY <2>3, <3>1, <3>2 DEF Typed
  <2> QED
    BY <2>2, <2>4
<1> QED
  BY <1>1, <1>2

LEMMA CurrenciesTyped ==
    ASSUME NEW entry \in Entry, Typed(currencies_, nodes)
    PROVE  Typed(WithCurrencies(Tables, entry).currencies, WithCurrencies(Tables, entry).nodes)
<1>1. PICK u : u = WithCurrency(Tables, entry.baseAsset)
  OBVIOUS
<1>2. /\ u = [symbols |-> symbols_, currencies |-> u.currencies, nodes |-> u.nodes]
      /\ Typed(u.currencies, u.nodes)
  <2>1. PICK t : t = Tables
    OBVIOUS
  <2>2. /\ t = [symbols |-> t.symbols, currencies |-> t.currencies, nodes |-> t.nodes]
        /\ t.symbols = symbols_ /\ t.currencies = currencies_ /\ t.nodes = nodes
    BY <2>1 DEF Tables
  <2>3. entry.baseAsset \in Asset
    BY DEF Entry
  <2>4. Typed(t.currencies, t.nodes)
    BY <2>2
  <2>5. Typed(u.currencies, u.nodes)
    BY <1>1, <2>1, <2>2, <2>3, <2>4, CurrencyTyped
  <2>6. u = [symbols |-> t.symbols, currencies |-> u.currencies, nodes |-> u.nodes]
    BY <1>1, <2>1, <2>2, CurrencyFound
  <2> QED
    BY <2>2, <2>5, <2>6
<1>3. entry.quoteAsset \in Asset
  BY DEF Entry
<1>4. WithCurrencies(Tables, entry) = WithCurrency(u, entry.quoteAsset)
  BY <1>1 DEF WithCurrencies
<1>5. Typed(WithCurrency(u, entry.quoteAsset).currencies, WithCurrency(u, entry.quoteAsset).nodes)
  <2>1. u = [symbols |-> u.symbols, currencies |-> u.currencies, nodes |-> u.nodes]
    BY <1>2
  <2> QED
    BY <1>2, <1>3, <2>1, CurrencyTyped
<1> QED
  BY <1>4, <1>5

LEMMA TypedNext ==
    ASSUME IInv, Typed(currencies_, nodes), [ExchangeNext]_exchangeVars
    PROVE  Typed(currencies_, nodes)'
<1>1. ASSUME UNCHANGED <<currencies_, nodes>> PROVE Typed(currencies_, nodes)'
  BY <1>1 DEF Typed
<1>2. ASSUME NEW r \in Responses, ReadEntry(r) PROVE Typed(currencies_, nodes)'
  <2>1. PICK e \in Entry : e = NextEntry(r)
    BY <1>2, EntryRead DEF IInv, ReadEntry
  <2>2. PICK u : u = WithCurrencies(Tables, e)
    OBVIOUS
  <2>3. /\ u = [symbols |-> symbols_, currencies |-> u.currencies, nodes |-> u.nodes]
        /\ Typed(u.currencies, u.nodes)
    BY <2>2, CurrenciesFound, CurrenciesTyped
  <2>4. WithEntry(Tables, e).currencies = u.currencies /\ WithEntry(Tables, e).nodes = u.nodes
    BY <2>2, <2>3 DEF WithEntry
  <2>5. currencies_' = u.currencies /\ nodes' = u.nodes
    BY <1>2, <2>1, <2>4 DEF ReadEntry, Become
  <2> QED
    BY <2>3, <2>5 DEF Typed
<1>3. ASSUME NEW r \in Responses, ReadThrows(r) PROVE Typed(currencies_, nodes)'
  <2>1. PICK e \in Entry : e = NextEntry(r)
    BY <1>3, EntryRead DEF IInv, ReadThrows
  <2>2. CASE Become(Tables)
    BY <1>1, <2>2 DEF Become, Tables
  <2>3. CASE Become(WithCurrencies(Tables, e))
    <3>1. PICK u : u = WithCurrencies(Tables, e) /\ Typed(u.currencies, u.nodes)
      BY CurrenciesTyped
    <3>2. currencies_' = u.currencies /\ nodes' = u.nodes
      BY <2>3, <3>1 DEF Become
    <3> QED
      BY <3>1, <3>2 DEF Typed
  <2> QED
    BY <1>3, <2>1, <2>2, <2>3 DEF ReadThrows
<1>4. CASE ClearAndRequest
  BY <1>1, <1>4 DEF ClearAndRequest, Become, Cleared
<1>5. CASE ReadEnds \/ OtherStep \/ \E name \in Name : CopySymbol(name)
  BY <1>1, <1>5 DEF ReadEnds, OtherStep, CopySymbol, tableVars
<1>6. CASE UNCHANGED exchangeVars
  BY <1>1, <1>6 DEF exchangeVars, tableVars
<1> QED
  BY <1>2, <1>3, <1>4, <1>5, <1>6 DEF ExchangeNext

\* Each symbol has the order types its first entry lists, and no others, whatever
\* types there are and however often they are listed; and the tables have their types.
THEOREM SymbolsMatchCorrect == ExchangeSpec => []SymbolsMatchResponse
<1>1. ExchangeInit => Typed(currencies_, nodes)
  BY DEF ExchangeInit, Typed, Nothing
<1>2. IInv /\ Typed(currencies_, nodes) /\ SymbolsOfResponse => SymbolsMatchResponse
  <2> SUFFICES ASSUME IInv, Typed(currencies_, nodes), SymbolsOfResponse
               PROVE  SymbolsMatchResponse
    OBVIOUS
  <2>1. ASSUME NEW n \in DOMAIN symbols_
        PROVE  /\ n \in Name /\ symbols_[n].order_types_ \in 0 .. 127
               /\ \A type \in DOMAIN Bit :
                     HasType(symbols_[n].order_types_, type) <=>
                         \E j \in DOMAIN FirstEntry(n).orderTypes :
                             FirstEntry(n).orderTypes[j] = type
    <3>1. PICK i \in 1 .. Len(response) : IsFirst(i, n) /\ FirstEntry(n) = response[i]
      <4>1. TInv
        BY DEF IInv
      <4> QED
        BY <2>1, <4>1, FirstEntryRead
    <3>2. PICK e \in Entry : e = response[i]
      BY DEF IInv, TInv
    <3>3. PICK types \in Seq(STRING) : types = e.orderTypes
      BY DEF Entry
    <3>4. Len(types) \in Nat /\ DOMAIN types = 1 .. Len(types)
      OBVIOUS
    <3>5. FirstEntry(n).orderTypes = types
      BY <3>1, <3>2, <3>3
    <3>6. symbols_[n].order_types_ = Mask(types)
      BY <2>1, <3>5 DEF SymbolsOfResponse
    <3>7. n \in Name
      BY <3>1, <3>2 DEF Entry, IsFirst
    <3>8. /\ Mask(types) \in 0 .. 127
          /\ \A type \in Types : HasBit(Mask(types), Bit[type]) <=>
                                   \E j \in 1 .. Len(types) : types[j] = type
      BY <3>4, MaskRight
    <3>9. ASSUME NEW type \in DOMAIN Bit
          PROVE  HasType(Mask(types), type) <=> \E j \in DOMAIN types : types[j] = type
      <4>1. type \in Types
        BY BitOfType
      <4>2. HasType(Mask(types), type) <=> HasBit(Mask(types), Bit[type])
        BY DEF HasType, HasBit
      <4> QED
        BY <3>4, <3>8, <4>1, <4>2, Zenon
    <3> QED
      BY <3>5, <3>6, <3>7, <3>8, <3>9, Zenon
  <2>2. ExchangeTypeOK
    BY <2>1 DEF ExchangeTypeOK, Typed
  <2> QED
    BY <2>1, <2>2 DEF SymbolsMatchResponse
<1>3. ExchangeSpec => []IInv
  BY ExchangeInvariant
<1>4. ExchangeSpec => []SymbolsOfResponse
  BY SymbolsCorrect
<1> QED
  BY <1>1, <1>2, <1>3, <1>4, TypedNext, PTL DEF ExchangeSpec
=============================================================================
