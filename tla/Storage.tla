------------------------------ MODULE Storage ------------------------------
(***************************************************************************)
(* The tables of src/src/storage/sqlite.go (postgres.go writes the same    *)
(* statements for another dialect) and the operations on them, to be       *)
(* applied by the module that models the program.  A table is a set of     *)
(* rows in which a primary key occurs once.  Every save is a transaction:  *)
(* fails says that the database refused it (disk, lock, connection), and a *)
(* plain INSERT of a key that is there makes it fail as well.  Callers     *)
(* ignore the error, so a save that fails is a save that does nothing.     *)
(***************************************************************************)
EXTENDS Integers

CONSTANTS Window,     \* the names of the windows there are tables for
          Retention   \* DataRetentionDays, in seconds

ASSUME RetentionAssumption == Retention \in Nat \ {0}

VARIABLES
  stockPrices,       \* rows [symbol, timestamp, price, volume]
  aggregations,      \* for each window, rows of candles
  intermediateStats  \* for each window, the row of each symbol that has one

tables == <<stockPrices, aggregations, intermediateStats>>

\* Initialize: every table is dropped and created again.
Recreated == [stockPrices       |-> {},
              aggregations      |-> [w \in Window |-> {}],
              intermediateStats |-> [w \in Window |-> <<>>]]

SameKey(r, t) ==                        \* PRIMARY KEY (symbol, timestamp)
  r.symbol = t.symbol /\ r.timestamp = t.timestamp
SameStart(r, t) == r.startTime = t.startTime       \* Error: a key without the symbol
SameCandleKey(r, t) ==                  \* PRIMARY KEY (symbol, start_time)
  r.symbol = t.symbol /\ r.startTime = t.startTime

PriceClash(rows) == \E r \in rows, t \in stockPrices : SameKey(r, t)
CandleClash(w, rows) == \E r \in rows, t \in aggregations[w] : SameCandleKey(r, t)

SaveStockPricesBulk(rows, fails) ==
  stockPrices' = IF fails \/ PriceClash(rows) THEN stockPrices ELSE stockPrices \union rows

UpsertAggregations(w, rows, fails) ==              \* Error: ON CONFLICT DO UPDATE
  aggregations' = IF fails THEN aggregations
                  ELSE [aggregations EXCEPT ![w] =
                          {t \in @ : ~\E r \in rows : SameCandleKey(r, t)} \union rows]

SaveAggregations(w, rows, fails) ==
  aggregations' = IF fails \/ CandleClash(w, rows) THEN aggregations
                  ELSE [aggregations EXCEPT ![w] = @ \union rows]

\* ON CONFLICT DO UPDATE: the new row replaces the old one.
SaveIntermediateStats(w, rows, fails) ==
  intermediateStats' = [intermediateStats EXCEPT
    ![w] = [s \in DOMAIN @ \union (IF fails THEN {} ELSE DOMAIN rows) |->
              IF ~fails /\ s \in DOMAIN rows THEN rows[s] ELSE @[s]]]

ExpiredAtCutoff(time, cutoff) == time <= cutoff    \* Error: the cut-off itself
Expired(time, cutoff) == time < cutoff

\* One DELETE a table: the tables fails names keep their rows.
\* Statistics have no retention.
CleanupOldData(now, fails) ==
  LET cutoff == now - Retention IN
  /\ stockPrices' = IF "stock_prices" \in fails THEN stockPrices
                    ELSE {r \in stockPrices : ~Expired(r.timestamp, cutoff)}
  /\ aggregations' = [w \in Window |->
                        IF w \in fails THEN aggregations[w]
                        ELSE {r \in aggregations[w] : ~Expired(r.endTime, cutoff)}]
=============================================================================
