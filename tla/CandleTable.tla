----------------------------- MODULE CandleTable -----------------------------
(***************************************************************************)
(* The table candles_1m and the one statement that writes it.              *)
(*                                                                         *)
(* A row is a record with a field "key", its primary key (symbol, ts), and *)
(* a field "val", which stands for the five NUMERIC columns.  A table is a *)
(* set of rows.  Both writers of the table, the Kafka consumer and the     *)
(* backfill job, go through insert_candles.                                *)
(***************************************************************************)

(* The primary keys present in a set of rows. *)
KeysOf(rows) == {r.key : r \in rows}

(* PRIMARY KEY (symbol, ts): no two rows share a key. *)
OneRowPerKey(rows) == \A r, s \in rows : r.key = s.key => r = s

(* The staged rows that meet no row of the table. *)
Fresh(tbl, staged) == {r \in staged : r.key \notin KeysOf(tbl)}

(* Mutant: ON CONFLICT DO UPDATE instead of DO NOTHING. *)
UpsertResults(tbl, staged) ==
    {{r \in tbl : r.key \notin KeysOf(staged)} \cup new : new \in
        {n \in SUBSET staged : OneRowPerKey(n) /\ KeysOf(n) = KeysOf(staged)}}

(***************************************************************************)
(* The tables that                                                         *)
(*   INSERT INTO candles_1m SELECT ... FROM candles_stage                  *)
(*   ON CONFLICT (symbol, ts) DO NOTHING                                   *)
(* may leave behind.  The SELECT has no ORDER BY, so that which of several *)
(* staged rows with one key gets in is not determined.                     *)
(***************************************************************************)
InsertResults(tbl, staged) ==
    {tbl \cup new : new \in
        {n \in SUBSET Fresh(tbl, staged) :
            /\ OneRowPerKey(n)
            /\ KeysOf(n) = KeysOf(Fresh(tbl, staged))}}

=============================================================================
