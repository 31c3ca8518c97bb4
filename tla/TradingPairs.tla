---------------------------- MODULE TradingPairs ----------------------------
(***************************************************************************)
(* The enumeration of trading pairs (aos/trading_pair/trading_pair.h) and  *)
(* the tables that turn a pair into the symbol of the exchanges and back   *)
(* (aos/converters).                                                       *)
(*                                                                         *)
(* A pair is found in the first table by its number in the enumeration,    *)
(* but the table leaves out two pairs: from the fourth on every pair looks *)
(* at the entry of another one, and the comparison with the entry's pair   *)
(* refuses it.                                                             *)
(***************************************************************************)
EXTENDS Integers, Sequences

\* enum class TradingPair, in its order.
TradingPair == <<"BTCUSDT", "ETHUSDT", "ETHBTC", "BTCETH", "BNBUSDT", "BNBETH",
                 "ETHBNB", "SOLUSDT", "SOLBNB", "XRPUSDT", "ADAUSDT", "ADAXRP">>

TradingPairs == {TradingPair[i] : i \in DOMAIN TradingPair}

\* std::hash<TradingPair>
IndexOf(pair) == CHOOSE i \in DOMAIN TradingPair : TradingPair[i] = pair

\* kDictionary: the pairs that have a symbol.  Its last two entries are value-initialised,
\* that is they have the first pair and no symbol.
Dictionary == <<"BTCUSDT", "ETHUSDT", "ETHBTC", "BNBUSDT", "BNBETH", "SOLUSDT",
                "SOLBNB", "XRPUSDT", "ADAUSDT", "ADAXRP", "BTCUSDT", "BTCUSDT">>

\* Fault: the entry's pair is not compared.
EntryInRange(pair) == IndexOf(pair) <= 10

EntryIsPairs(pair) == Dictionary[IndexOf(pair)] = pair

\* TradingPairToBigStringView::Convert: no symbol, or the one of the entry.
Symbol(pair) == IF EntryIsPairs(pair) THEN {Dictionary[IndexOf(pair)]} ELSE {}

\* TradingPairToSmallStringView::Convert has the same table in small letters; symbols are
\* not told apart by case.
SmallSymbol(pair) == Symbol(pair)

\* BigStringViewToTradingPair::Convert: a map from the ten symbols.
PairOfSymbol == [s \in {Dictionary[i] : i \in 1 .. 10} |-> s]

=============================================================================
