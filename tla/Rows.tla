-------------------------------- MODULE Rows --------------------------------
(***************************************************************************)
(* LocusKit's tables and the codecs between its entities and their rows:   *)
(* schema.rs, the *_values and *_from_row functions of                     *)
(* drawer_store_inmemory.rs and node_store.rs, the manifest, the two       *)
(* ISO-8601 writers that must agree on a stored recalledAt; VectorKit's one *)
(* table with its row decoders; and CorpusKit's five tables, of chunks,    *)
(* corpus metadata, bases, counts and removed sources, with theirs.        *)
(*                                                                         *)
(* An entity is a record whose fields carry the names of the columns they  *)
(* are stored in; None is a Rust None.  A stored value keeps its           *)
(* TypedValue tag, because every reader matches on it.  A time is held as  *)
(* a whole number of days and the milliseconds into the day: the two parts *)
(* of an i64 of milliseconds, which TLC's integers are too narrow for.     *)
(***************************************************************************)
EXTENDS Integers, Sequences, FiniteSets

CONSTANT None

(* What f says, and what g says where f says nothing.                      *)
f ++ g ==
  [x \in DOMAIN f \cup DOMAIN g |-> IF x \in DOMAIN f THEN f[x] ELSE g[x]]

--------------------------------------------------------------------------
(* TypedValue and the column types that hold it.                           *)

Typed(type, v) == [type |-> type, val |-> v]
Text(v) == Typed("text", v)
Integer(v) == Typed("int", v)
Bitmap(v) == Typed("bitmap", v)
Timestamp(v) == Typed("timestamp", v)
Float(v) == Typed("float", v)
Blob(v) == Typed("blob", v)
Hlc(v) == Typed("hlc", v)
UuidValue(v) == Typed("uuid", v)
Json(v) == Typed("json", v)
Null == Typed("null", None)

NoDefault == Typed("none", None)
Columns(type, nullable, default, names) ==
  [c \in names |-> [type |-> type, nullable |-> nullable, default |-> default]]
Required(type, names) == Columns(type, FALSE, NoDefault, names)
Nullable(type, names) == Columns(type, TRUE, NoDefault, names)
Defaulted(value, names) == Columns(value.type, FALSE, value, names)

(* A generated column: width bits of a bitmap column, from bit low.        *)
Bits(column, low, width) == [column |-> column, low |-> low, width |-> width]

Table(key, columns) ==
  [key |-> key, columns |-> columns, unique |-> {}, generated |-> <<>>]

--------------------------------------------------------------------------
(* The 17 tables of LocusKit.                                              *)

lattice_columns ==
  Defaulted(Text(""), {"udcCode"})
    ++ Nullable("text", {"udcFacets", "wikidataQID", "wikidataQidsSecondary"})

drawers_table ==
  [Table({"id"},
     Required("text", {"id", "content", "parent_node_id", "addedBy",
                       "embeddingModelID"})
       ++ Nullable("text", {"sourceFile", "removedByBatch", "keyID"})
       ++ Nullable("int", {"chunkIndex"})
       ++ Required("timestamp", {"filedAt"})
       ++ Nullable("timestamp", {"eventTime", "tombstonedAt"})
       ++ Required("bitmap", {"provenance", "adjectiveBitmap",
                              "operationalBitmap"})
       ++ Defaulted(Text(""), {"lineageID"}) ++ lattice_columns
       ++ Nullable("json", {"ext"})
       ++ Nullable("blob", {"content_hash", "content_fingerprint"}))
   EXCEPT !.generated =
     [g_state_cluster |-> Bits("adjectiveBitmap", 0, 6),
      g_provenance_source |-> Bits("provenance", 0, 4),
      g_provenance_confirmation |-> Bits("provenance", 4, 3),
      g_operational_channel |-> Bits("operationalBitmap", 0, 4)]]

edge_columns ==
  Required("text", {"id", "sourceWing", "sourceRoom", "targetWing",
                    "targetRoom", "label", "addedBy"})
    ++ Nullable("text", {"sourceDrawerId", "targetDrawerId", "removedByBatch"})
    ++ Required("timestamp", {"filedAt"})
    ++ Nullable("timestamp", {"tombstonedAt"})
    ++ Required("bitmap", {"adjectiveBitmap", "operationalBitmap",
                           "provenanceBitmap"})
    ++ Nullable("json", {"ext"})

tunnels_table ==
  Table({"id"}, edge_columns ++ Defaulted(Integer(1), {"kind_id"})
                  ++ Nullable("float", {"order_key"}))

diary_table ==
  Table({"id"},
    Required("text", {"id", "agentName", "entry", "topic", "wing", "room",
                      "embeddingModelID"})
      ++ Nullable("text", {"removedByBatch", "rewardProvenance"})
      ++ Required("timestamp", {"filedAt"})
      ++ Nullable("timestamp", {"tombstonedAt"})
      ++ Required("bitmap", {"operationalBitmap"})
      ++ Nullable("float", {"reward"}) ++ Nullable("json", {"ext"}))

manifest_table == Table({"key"}, Required("text", {"key", "value"}))

kg_facts_table ==
  [Table({"id"},
     Required("text", {"id", "subject", "predicate", "object",
                       "sourceDrawerID"})
       ++ Required("bitmap", {"adjectiveBitmap", "operationalBitmap",
                              "provenanceBitmap"})
       ++ Required("timestamp", {"filedAt"}) ++ Nullable("json", {"ext"}))
   EXCEPT !.generated = [g_state_cluster |-> Bits("adjectiveBitmap", 0, 6)]]

proposals_table ==
  [Table({"id"},
     Required("text", {"id", "targetRowID"})
       ++ Nullable("text", {"justification"})
       ++ Required("bitmap", {"candidateState", "adjectiveBitmap",
                              "operationalBitmap", "provenanceBitmap"})
       ++ lattice_columns
       ++ Required("timestamp", {"filedAt"}) ++ Nullable("json", {"ext"}))
   EXCEPT !.generated = [g_state_cluster |-> Bits("adjectiveBitmap", 0, 6)]]

natural_key ==
  {"sourceWing", "sourceRoom", "sourceDrawerId", "targetWing", "targetRoom",
   "targetDrawerId", "label"}

associations_table ==
  [Table({"id"}, edge_columns ++ lattice_columns)
   EXCEPT !.unique = {natural_key}]

learned_references_table ==
  Table({"id"},
    Required("text", {"id", "sourceCatalogID", "handle", "addedBy"})
      ++ Required("timestamp", {"filedAt"})
      ++ Nullable("timestamp", {"tombstonedAt"})
      ++ Nullable("text", {"removedByBatch"}) ++ lattice_columns
      ++ Required("bitmap", {"adjectiveBitmap", "operationalBitmap",
                             "provenanceBitmap"})
      ++ Nullable("json", {"ext"}))

source_catalog_table ==
  Table({"id"},
    Required("text", {"id", "handle", "addedBy"}) ++ Required("int", {"kind"})
      ++ Required("timestamp", {"firstSeen"}) ++ lattice_columns
      ++ Nullable("json", {"ext"}))

node_bundles_table ==
  Table({"wing", "room", "bundleKind"},
    Required("text", {"wing", "room", "bundleKind"}) ++ Required("int", {"n"})
      ++ Required("blob", {"counts"}) ++ Required("timestamp", {"updatedAt"}))

container_fingerprints_table ==
  Table({"wing", "room"},
    Required("text", {"wing", "room"})
      ++ Required("bitmap", {"adjectiveOR", "operationalOR", "provenanceOR"})
      ++ Required("timestamp", {"updatedAt"}))

recall_trace_table ==
  Table({"id"},
    Required("text", {"id", "target"})
      ++ Required("timestamp", {"recalledAt"}) ++ Nullable("float", {"score"})
      ++ Required("bitmap", {"operationalBitmap"}) ++ Nullable("json", {"ext"}))

keys_table ==
  Table({"key_id"},
    Required("text", {"key_id", "algorithm"}) ++ Required("blob", {"wrapped"})
      ++ Required("timestamp", {"created_at"}) ++ Nullable("json", {"ext"}))

nodes_table ==
  Table({"id"},
    Required("text", {"id", "display_name", "lookup_name"})
      ++ Nullable("text", {"parent_id"}) ++ Required("int", {"depth", "lifecycle"})
      ++ Required("hlc", {"created_hlc"}) ++ Nullable("hlc", {"tombstoned_hlc"})
      ++ Nullable("timestamp", {"tombstoned_at"})
      ++ Nullable("blob", {"merkle_root"})
      ++ Required("timestamp", {"created_at", "updated_at"})
      ++ Nullable("json", {"ext"}))

erasure_ledger_table ==
  Table({"drawer_id"},
    Required("text", {"drawer_id"}) ++ Required("hlc", {"erased_hlc"}))

snapshot_registry_table ==
  Table({"snapshot_id"},
    Required("text", {"snapshot_id"}) ++ Required("hlc", {"hlc"})
      ++ Nullable("text", {"label"}) ++ Required("timestamp", {"created_at"}))

snapshot_attestations_table ==
  Table({"snapshot_id", "subject_kind", "subject_id"},
    Required("text", {"snapshot_id", "subject_kind", "subject_id",
                      "merkle_root"})
      ++ Nullable("int", {"key_version"}))

(* VectorKit, schema version 4.                                            *)
vectors_table ==
  [Table({"id"},
     Required("uuid", {"id"})
       ++ Required("text", {"item_id", "model_id", "model_version"})
       ++ Required("int", {"vector_index", "kind", "dim"})
       ++ Required("blob", {"payload"}) ++ Nullable("float", {"scale"})
       ++ Required("timestamp", {"filed_at"}) ++ Nullable("json", {"ext"}))
   EXCEPT !.unique = {{"item_id", "vector_index", "model_id"}}]

(* CorpusKit, four declarations of their own versions.                     *)
chunks_table ==
  Table({"id"},
    Required("uuid", {"id"}) ++ Required("text", {"source_id", "text"})
      ++ Required("int", {"start_offset", "length"}) ++ Required("hlc", {"hlc"})
      ++ Required("json", {"metadata"}) ++ Required("timestamp", {"created_at"})
      ++ Nullable("json", {"ext"}) ++ Nullable("blob", {"content_hash"}))

corpus_metadata_table ==
  Table({"source_id"},
    Required("text", {"source_id"}) ++ Nullable("blob", {"merkle_root"}))

corpus_provider_basis_table ==
  Table({"model_id", "model_version"},
    Required("text", {"model_id", "model_version"}) ++ Required("blob", {"basis"})
      ++ Required("timestamp", {"trained_at"})
      ++ Required("int", {"trained_chunk_count"}) ++ Nullable("json", {"ext"}))

corpus_provider_counts_table ==
  Table({"model_id", "model_version"},
    Required("text", {"model_id", "model_version"}) ++ Required("blob", {"counts"})
      ++ Required("int", {"doc_count", "vocab_size"})
      ++ Required("timestamp", {"updated_at"}) ++ Nullable("json", {"ext"}))

removed_sources_table ==
  Table({"source_id"},
    Required("text", {"source_id"}) ++ Required("timestamp", {"removed_at"}))

CorpusTables ==
  [chunks |-> chunks_table, corpus_metadata |-> corpus_metadata_table,
   corpus_provider_basis |-> corpus_provider_basis_table,
   corpus_provider_counts |-> corpus_provider_counts_table,
   removed_sources |-> removed_sources_table]

EstateTables ==
  [vectors |-> vectors_table, drawers |-> drawers_table,
   tunnels |-> tunnels_table, diary |-> diary_table,
   manifest |-> manifest_table, kg_facts |-> kg_facts_table,
   proposals |-> proposals_table,
   associations |-> associations_table,
   learned_references |-> learned_references_table,
   source_catalog |-> source_catalog_table,
   node_bundles |-> node_bundles_table,
   container_fingerprints |-> container_fingerprints_table,
   recall_trace |-> recall_trace_table, keys |-> keys_table,
   nodes |-> nodes_table,
   erasure_ledger |-> erasure_ledger_table,
   snapshot_registry |-> snapshot_registry_table,
   snapshot_attestations |-> snapshot_attestations_table]

tables == CorpusTables ++ EstateTables

(* The indexed column sets of each table; one with no entry has no index.  *)
TableIndices ==
  [drawers |-> {{"parent_node_id"}, {"sourceFile"}, {"tombstonedAt"},
                {"lineageID"}, {"udcCode"}, {"g_provenance_source"},
                {"g_provenance_confirmation"}, {"g_operational_channel"},
                {"g_state_cluster"}},
   tunnels |-> {{"sourceWing", "sourceRoom"}, {"targetWing", "targetRoom"},
                {"kind_id", "sourceDrawerId"}, {"kind_id", "targetDrawerId"}},
   diary |-> {{"agentName"}, {"wing"}, {"filedAt"}},
   kg_facts |-> {{"sourceDrawerID"}, {"subject"}, {"g_state_cluster"}},
   proposals |-> {{"targetRowID"}, {"udcCode"}, {"g_state_cluster"}},
   associations |-> {{"sourceWing", "sourceRoom"},
                     {"targetWing", "targetRoom"}, {"udcCode"}},
   learned_references |-> {{"handle"}, {"sourceCatalogID"}, {"udcCode"}},
   source_catalog |-> {{"handle"}},
   recall_trace |-> {{"target"}, {"recalledAt"}},
   nodes |-> {{"parent_id"}, {"parent_id", "lookup_name"},
              {"depth", "lookup_name"}},
   vectors |-> {{"item_id"}, {"model_id", "item_id"}, {"filed_at", "item_id"}},
   chunks |-> {{"source_id"}, {"hlc"}}]

indices == TableIndices ++ [t \in DOMAIN tables |-> {}]

(* The version 9 to 10 migration: of the association rows that agree on    *)
(* the natural key, the one with the least rowid stays; then the unique    *)
(* index is added.  rows maps a rowid to its natural key.                  *)
migrate_associations(rows) ==
  LET kept == {r \in DOMAIN rows :
                 \A s \in DOMAIN rows : rows[s] = rows[r] => r <= s}
  IN  [r \in kept |-> rows[r]]

--------------------------------------------------------------------------
(* Times.                                                                  *)

Day == 86400000
Time(day, ms) == [day |-> day, ms |-> ms]

(* Eras of 400 years that begin in March, so that a leap day is the last   *)
(* day of its year; day 0 is the first of 1970.                            *)
DaysPerEra == 146097
EpochShift == 719468
days_before_year(yoe) == 365 * yoe + yoe \div 4 - yoe \div 100
year_of_era(doe) ==
  (doe - doe \div 1460 + doe \div 36524 - doe \div 146096) \div 365
days_before_month(mp) == (153 * mp + 2) \div 5
month_of_year(doy) == (5 * doy + 2) \div 153

days_from_civil(y0, m, d) ==
  LET y == IF m <= 2 THEN y0 - 1 ELSE y0
      era == y \div 400
      yoe == y - era * 400
      mp == IF m > 2 THEN m - 3 ELSE m + 9
      doy == days_before_month(mp) + d - 1
  IN  era * DaysPerEra + (days_before_year(yoe) + doy) - EpochShift

civil_from_days(z0) ==
  LET z == z0 + EpochShift
      era == z \div DaysPerEra
      doe == z - era * DaysPerEra
      yoe == year_of_era(doe)
      doy == doe - days_before_year(yoe)
      mp == month_of_year(doy)
      m == IF mp < 10 THEN mp + 3 ELSE mp - 9
  IN  <<(yoe + era * 400) + (IF m <= 2 THEN 1 ELSE 0), m,
        doy - days_before_month(mp) + 1>>

(* Hour, minute, second and millisecond of a time of day.                  *)
clock(ms) ==
  LET secs == ms \div 1000
  IN  <<secs \div 3600, (secs % 3600) \div 60, secs % 60, ms % 1000>>

(* The seven numbers of an ISO-8601 text, each of a fixed width.           *)
format_iso8601(t) == civil_from_days(t.day) \o clock(t.ms)

parse_iso8601(iso) ==
  IF Len(iso) = 7
    THEN Time(days_from_civil(iso[1], iso[2], iso[3]),
              ((iso[4] * 60 + iso[5]) * 60 + iso[6]) * 1000 + iso[7])
    ELSE None

(* CorpusKit's own reader of the same texts: to the second.                *)
parse_iso8601_utc(iso) ==
  IF Len(iso) >= 6 /\ iso[2] \in 1..12 /\ iso[3] \in 1..31
    THEN LET y == IF iso[2] <= 2 THEN iso[1] - 1 ELSE iso[1]
             era == (IF y >= 0 THEN y ELSE y - 399) \div 400
             yoe == y - era * 400
             mp == IF iso[2] > 2 THEN iso[2] - 3 ELSE iso[2] + 9
             doe == days_before_year(yoe) + (days_before_month(mp) + iso[3] - 1)
         IN  Time(era * DaysPerEra + doe - EpochShift,
                  ((iso[4] * 60 + iso[5]) * 60 + iso[6]) * 1000)
    ELSE None

is_leap(year) == (year % 4 = 0 /\ year % 100 # 0) \/ year % 400 = 0

days_in_months(year) ==
  <<31, IF is_leap(year) THEN 29 ELSE 28, 31, 30, 31, 30, 31, 31, 30, 31, 30, 31>>

(* The year-by-year and month-by-month loops of estate_verbs.rs: what a    *)
(* round makes of the state, and the state after n rounds, for more rounds *)
(* than either loop takes.                                                 *)
days_in_year(year) == IF is_leap(year) THEN 366 ELSE 365

year_loop(days) ==
  LET round == [was \in Int \X Int |->
                  IF was[2] < days_in_year(was[1]) THEN was
                  ELSE <<was[1] + 1, was[2] - days_in_year(was[1])>>]
      after[n \in Nat] == IF n = 0 THEN <<1970, days>> ELSE round[after[n - 1]]
  IN  after[days \div 365]

month_loop(months, days) ==
  LET round == [was \in (Nat \ {0}) \X Int |->
                  IF was[1] > 12 \/ was[2] < months[was[1]] THEN was
                  ELSE <<was[1] + 1, was[2] - months[was[1]]>>]
      after[n \in Nat] == IF n = 0 THEN <<1, days>> ELSE round[after[n - 1]]
  IN  <<after[12][1], after[12][2] + 1>>

epoch_to_iso8601(t) ==
  LET y == year_loop(t.day)
  IN  <<y[1]>> \o month_loop(days_in_months(y[1]), y[2]) \o clock(t.ms)

--------------------------------------------------------------------------
(* Reading a stored value: a value of another type reads as the blank of   *)
(* the wanted one.                                                         *)

string_value_of(v) == IF v.type \in {"text", "uuid"} THEN v.val ELSE ""
opt_string_value_of(v) == IF v.type = "text" THEN v.val ELSE None
i64_value_of(v) == IF v.type \in {"int", "bitmap", "timestamp"} THEN v.val ELSE 0
opt_int_value_of(v) ==
  IF v.type \in {"int", "bitmap", "timestamp"} THEN v.val ELSE None
opt_float_value_of(v) == IF v.type \in {"float", "int"} THEN v.val ELSE None
hlc_value_of(v) == IF v.type \in {"hlc", "int"} THEN v.val ELSE None
opt_merkle_root_value_of(v) == IF v.type = "blob" THEN v.val ELSE None
recalled_at_string(v) ==
  CASE v.type = "text" -> v.val
    [] v.type = "timestamp" -> format_iso8601(v.val)
    [] OTHER -> ""

Put(e, T(_), names) == [c \in names |-> T(e[c])]
PutOpt(e, T(_), names) ==
  [c \in names |-> IF e[c] = None THEN Null ELSE T(e[c])]
Take(row, read(_), names) ==
  [c \in names |-> read(IF c \in DOMAIN row THEN row[c] ELSE Null)]

(* External: a row as a backend hands it back.  Omitted columns take their *)
(* default or NULL.  The in-memory backend keeps every tag, a typed one    *)
(* parses the text of a timestamp column, a plain one hands integers and   *)
(* texts back as they are stored.  A raw one, which CorpusKit's decoders   *)
(* name, hands a timestamp back as its text and a JSON value as its bytes. *)
BackendsOf(table) ==
  {"memory", "typed", IF table \in DOMAIN CorpusTables THEN "raw" ELSE "plain"}
ReadBack(backend, columns, values) ==
  LET decode(c, v) ==
        IF backend = "memory" THEN v
        ELSE CASE v.type = "text" /\ backend = "typed" /\ columns[c].type = "timestamp" ->
                    Timestamp(parse_iso8601(v.val))
               [] v.type \in {"bitmap", "hlc"} -> Integer(v.val)
               [] v.type = "timestamp" /\ backend = "plain" -> Integer(v.val)
               [] v.type = "timestamp" /\ backend = "raw" -> Text(format_iso8601(v.val))
               [] v.type = "json" -> Blob(v.val)
               [] v.type = "uuid" -> Text(v.val)
               [] OTHER -> v
  IN  [c \in DOMAIN columns |->
         IF c \in DOMAIN values THEN decode(c, values[c])
         ELSE IF columns[c].default # NoDefault THEN columns[c].default ELSE Null]

--------------------------------------------------------------------------
(* One pair of codecs per entity.                                          *)

drawer_values(d, fingerprint) ==
  Put(d, Text, {"id", "content", "parent_node_id", "addedBy",
                "embeddingModelID", "lineageID", "udcCode"})
    ++ PutOpt(d, Text, {"sourceFile", "removedByBatch", "udcFacets",
                        "wikidataQID", "wikidataQidsSecondary"})
    ++ PutOpt(d, Integer, {"chunkIndex"})
    ++ Put(d, Timestamp, {"filedAt", "eventTime"})
    ++ PutOpt(d, Timestamp, {"tombstonedAt"})
    ++ Put(d, Bitmap, {"provenance", "adjectiveBitmap", "operationalBitmap"})
    ++ [content_fingerprint |-> Blob(fingerprint)]

(* External: Uuid::new_v4 and Uuid::parse_str.                             *)
FreshUuid == "fresh"
ParsesAsUuid(s) == s # "not-a-uuid"
Corrupt == [corrupt |-> TRUE]

(* A lineage is minted for a row without one and must parse otherwise; a   *)
(* row without an event time happened when it was filed.                   *)
drawer_from_row(row) ==
  LET raw == string_value_of(row["lineageID"])
      filed_at == i64_value_of(row["filedAt"])
      event == opt_int_value_of(row["eventTime"])
  IN  IF raw # "" /\ ~ParsesAsUuid(raw) THEN Corrupt
      ELSE Take(row, string_value_of,
                {"id", "content", "parent_node_id", "addedBy",
                 "embeddingModelID", "udcCode"})
             ++ Take(row, opt_string_value_of,
                     {"sourceFile", "removedByBatch", "udcFacets",
                      "wikidataQID", "wikidataQidsSecondary"})
             ++ Take(row, opt_int_value_of, {"chunkIndex", "tombstonedAt"})
             ++ Take(row, i64_value_of, {"provenance", "adjectiveBitmap",
                                         "operationalBitmap"})
             ++ [lineageID |-> IF raw = "" THEN FreshUuid ELSE raw,
                 filedAt |-> filed_at,
                 eventTime |-> IF event = None THEN filed_at ELSE event]

stored_fingerprint(row) ==
  IF row["content_fingerprint"].type = "blob"
    THEN row["content_fingerprint"].val ELSE Corrupt

(* A scan drops the rows it cannot decode and keeps the rest in order.     *)
decode_rows_skip_corrupt(rows) ==
  SelectSeq([i \in DOMAIN rows |-> drawer_from_row(rows[i])],
            LAMBDA d : d # Corrupt)

edge_values(e) ==
  Put(e, Text, {"id", "sourceWing", "sourceRoom", "targetWing", "targetRoom",
                "label", "addedBy"})
    ++ PutOpt(e, Text, {"sourceDrawerId", "targetDrawerId", "removedByBatch"})
    ++ Put(e, Timestamp, {"filedAt"})
    ++ PutOpt(e, Timestamp, {"tombstonedAt"})
    ++ Put(e, Bitmap, {"adjectiveBitmap", "operationalBitmap",
                       "provenanceBitmap"})
edge_from_row(row) ==
  Take(row, string_value_of, {"id", "sourceWing", "sourceRoom", "targetWing",
                              "targetRoom", "label", "addedBy"})
    ++ Take(row, opt_string_value_of, {"sourceDrawerId", "targetDrawerId",
                                       "removedByBatch"})
    ++ Take(row, i64_value_of, {"filedAt", "adjectiveBitmap",
                                "operationalBitmap", "provenanceBitmap"})
    ++ Take(row, opt_int_value_of, {"tombstonedAt"})

lattice_values(e) ==
  Put(e, Text, {"udcCode"})
    ++ PutOpt(e, Text, {"udcFacets", "wikidataQID", "wikidataQidsSecondary"})
lattice_from_row(row) ==
  Take(row, string_value_of, {"udcCode"})
    ++ Take(row, opt_string_value_of, {"udcFacets", "wikidataQID",
                                       "wikidataQidsSecondary"})

(* Unknown raw kinds decode to References and to the first source kind.    *)
TunnelKind_from_raw(raw) == IF raw \in 0..9 THEN raw ELSE 1
SourceKind_from_raw(raw) == IF raw \in 0..5 THEN raw ELSE 0

tunnel_values(t) ==
  edge_values(t) ++ Put(t, Integer, {"kind_id"}) ++ PutOpt(t, Float, {"order_key"})
tunnel_from_row(row) ==
  edge_from_row(row) ++ Take(row, opt_float_value_of, {"order_key"})
    ++ [kind_id |-> TunnelKind_from_raw(i64_value_of(row["kind_id"]))]

association_values(a) == edge_values(a) ++ lattice_values(a)
association_from_row(row) == edge_from_row(row) ++ lattice_from_row(row)

diary_values(e) ==
  Put(e, Text, {"id", "agentName", "entry", "topic", "wing", "room",
                "embeddingModelID"})
    ++ Put(e, Timestamp, {"filedAt"}) ++ PutOpt(e, Timestamp, {"tombstonedAt"})
    ++ PutOpt(e, Text, {"removedByBatch", "rewardProvenance"})
    ++ Put(e, Bitmap, {"operationalBitmap"}) ++ PutOpt(e, Float, {"reward"})
diary_from_row(row) ==
  Take(row, string_value_of, {"id", "agentName", "entry", "topic", "wing",
                              "room", "embeddingModelID"})
    ++ Take(row, i64_value_of, {"filedAt", "operationalBitmap"})
    ++ Take(row, opt_int_value_of, {"tombstonedAt"})
    ++ Take(row, opt_string_value_of, {"removedByBatch", "rewardProvenance"})
    ++ Take(row, opt_float_value_of, {"reward"})

kg_fact_values(f) ==
  Put(f, Text, {"id", "subject", "predicate", "object", "sourceDrawerID"})
    ++ Put(f, Bitmap, {"adjectiveBitmap", "operationalBitmap",
                       "provenanceBitmap"})
    ++ Put(f, Timestamp, {"filedAt"})
kg_fact_from_row(row) ==
  Take(row, string_value_of, {"id", "subject", "predicate", "object",
                              "sourceDrawerID"})
    ++ Take(row, i64_value_of, {"adjectiveBitmap", "operationalBitmap",
                                "provenanceBitmap", "filedAt"})

proposal_values(p) ==
  Put(p, Text, {"id", "targetRowID"}) ++ PutOpt(p, Text, {"justification"})
    ++ Put(p, Bitmap, {"candidateState", "adjectiveBitmap",
                       "operationalBitmap", "provenanceBitmap"})
    ++ lattice_values(p) ++ Put(p, Timestamp, {"filedAt"})
proposal_from_row(row) ==
  Take(row, string_value_of, {"id", "targetRowID"})
    ++ Take(row, opt_string_value_of, {"justification"})
    ++ Take(row, i64_value_of, {"candidateState", "adjectiveBitmap",
                                "operationalBitmap", "provenanceBitmap",
                                "filedAt"})
    ++ lattice_from_row(row)

learned_reference_values(r) ==
  Put(r, Text, {"id", "sourceCatalogID", "handle", "addedBy"})
    ++ Put(r, Timestamp, {"filedAt"}) ++ PutOpt(r, Timestamp, {"tombstonedAt"})
    ++ PutOpt(r, Text, {"removedByBatch"}) ++ lattice_values(r)
    ++ Put(r, Bitmap, {"adjectiveBitmap", "operationalBitmap",
                       "provenanceBitmap"})
learned_reference_from_row(row) ==
  Take(row, string_value_of, {"id", "sourceCatalogID", "handle", "addedBy"})
    ++ Take(row, i64_value_of, {"filedAt", "adjectiveBitmap",
                                "operationalBitmap", "provenanceBitmap"})
    ++ Take(row, opt_int_value_of, {"tombstonedAt"})
    ++ Take(row, opt_string_value_of, {"removedByBatch"})
    ++ lattice_from_row(row)

source_catalog_values(c) ==
  Put(c, Text, {"id", "handle", "addedBy"}) ++ Put(c, Integer, {"kind"})
    ++ Put(c, Timestamp, {"firstSeen"}) ++ lattice_values(c)
source_catalog_from_row(row) ==
  Take(row, string_value_of, {"id", "handle", "addedBy"})
    ++ [kind |-> SourceKind_from_raw(i64_value_of(row["kind"]))]
    ++ Take(row, i64_value_of, {"firstSeen"}) ++ lattice_from_row(row)

(* recalledAt is written as text into a timestamp column.                  *)
recall_trace_values(i) ==
  Put(i, Text, {"id", "target", "recalledAt"}) ++ PutOpt(i, Float, {"score"})
    ++ Put(i, Bitmap, {"operationalBitmap"})
recall_trace_from_row(row) ==
  Take(row, string_value_of, {"id", "target"})
    ++ [recalledAt |-> recalled_at_string(row["recalledAt"])]
    ++ Take(row, opt_float_value_of, {"score"})
    ++ Take(row, i64_value_of, {"operationalBitmap"})

(* A node as create_node inserts it; a root leaves parent_id out.          *)
node_values(n) ==
  Put(n, Text, {"id", "display_name", "lookup_name"})
    ++ (IF n.parent_id = None THEN <<>> ELSE Put(n, Text, {"parent_id"}))
    ++ Put(n, Integer, {"depth", "lifecycle"}) ++ Put(n, Hlc, {"created_hlc"})
    ++ Put(n, Timestamp, {"created_at", "updated_at"})
node_from_row(row) ==
  LET hlc == hlc_value_of(row["created_hlc"])
  IN  IF hlc = None \/ ~ParsesAsUuid(string_value_of(row["id"])) THEN Corrupt
      ELSE Take(row, string_value_of, {"id", "display_name", "lookup_name"})
             ++ Take(row, opt_string_value_of, {"parent_id", "ext"})
             ++ Take(row, i64_value_of, {"depth", "lifecycle", "created_at",
                                         "updated_at"})
             ++ [created_hlc |-> hlc]
             ++ Take(row, hlc_value_of, {"tombstoned_hlc"})
             ++ Take(row, opt_int_value_of, {"tombstoned_at"})
             ++ Take(row, opt_merkle_root_value_of, {"merkle_root"})

(* A vector row as add_payload upserts it, and its decoders: an 8-bit      *)
(* payload is refused, a row that is not whole is skipped.                 *)
Binary == 0
Float32 == 1
Int8 == 2
vector_values(v) ==
  Put(v, UuidValue, {"id"}) ++ Put(v, Text, {"item_id", "model_id", "model_version"})
    ++ Put(v, Integer, {"vector_index", "kind", "dim"}) ++ Put(v, Blob, {"payload"})
    ++ PutOpt(v, Float, {"scale"}) ++ Put(v, Timestamp, {"filed_at"})

Tagged(row, types, names) == \A c \in names : row[c].type \in types
decode_payload(row) ==
  IF /\ Tagged(row, {"int"}, {"kind", "dim"})
     /\ row["kind"].val \in {Binary, Float32}
     /\ Tagged(row, {"blob"}, {"payload"})
    THEN [kind |-> row["kind"].val, dim |-> row["dim"].val,
          payload |-> row["payload"].val,
          scale |-> IF row["scale"].type = "float" THEN row["scale"].val ELSE None]
    ELSE Corrupt
decode_stored_vector(row) ==
  IF /\ Tagged(row, {"uuid", "text"}, {"id"}) /\ ParsesAsUuid(row["id"].val)
     /\ Tagged(row, {"text"}, {"item_id", "model_id", "model_version"})
     /\ Tagged(row, {"int"}, {"vector_index"})
     /\ Tagged(row, {"timestamp", "int"}, {"filed_at"})
     /\ decode_payload(row) # Corrupt
     /\ decode_payload(row).kind = Binary
    THEN [c \in {"id", "item_id", "vector_index", "model_id", "model_version",
                 "filed_at"} |-> row[c].val] ++ decode_payload(row)
    ELSE Corrupt
decode_stored_vector_light(row) ==
  IF /\ Tagged(row, {"text"}, {"item_id", "model_id", "model_version"})
     /\ Tagged(row, {"int"}, {"vector_index", "kind"})
     /\ Tagged(row, {"blob"}, {"payload"})
     /\ row["kind"].val = Binary
    THEN [c \in {"item_id", "vector_index", "model_id", "model_version", "payload"}
            |-> row[c].val]
    ELSE Corrupt

(* CorpusKit's rows.  A chunk row also says when it was inserted, a        *)
(* removed source when it was removed; nothing reads that back.            *)
chunk_values(c, now) ==
  Put(c, UuidValue, {"id"}) ++ Put(c, Text, {"source_id", "text"})
    ++ Put(c, Integer, {"start_offset", "length"}) ++ Put(c, Hlc, {"hlc"})
    ++ Put(c, Json, {"metadata"}) ++ [created_at |-> Timestamp(now)]

ChunkFields == {"id", "source_id", "start_offset", "length", "text", "hlc"}

(* Mutant: only the in-memory form of an id is accepted. *)
decode_chunk_UuidOnly(row) ==
  IF Tagged(row, {"uuid"}, {"id"})
    THEN [c \in ChunkFields |-> row[c].val] ++ [metadata |-> row["metadata"].val]
    ELSE Corrupt

decode_chunk(row) ==
  IF /\ Tagged(row, {"uuid", "text"}, {"id"}) /\ ParsesAsUuid(row["id"].val)
     /\ Tagged(row, {"text"}, {"source_id", "text"})
     /\ Tagged(row, {"int"}, {"start_offset", "length"})
     /\ Tagged(row, {"hlc", "int"}, {"hlc"})
    THEN [c \in ChunkFields |-> row[c].val]
           ++ [metadata |-> IF Tagged(row, {"json", "blob"}, {"metadata"})
                              THEN row["metadata"].val ELSE <<>>]
    ELSE Corrupt

chunk_source_pair(row) ==
  IF /\ Tagged(row, {"uuid", "text"}, {"id"}) /\ ParsesAsUuid(row["id"].val)
     /\ Tagged(row, {"text"}, {"source_id"})
    THEN <<row["id"].val, row["source_id"].val>> ELSE Corrupt

decode_trained_at_secs(v) ==
  CASE v.type = "timestamp" -> v.val
    [] v.type = "text" -> parse_iso8601_utc(v.val)
    [] OTHER -> None

basis_values(b) ==
  Put(b, Text, {"model_id", "model_version"}) ++ Put(b, Blob, {"basis"})
    ++ Put(b, Timestamp, {"trained_at"}) ++ Put(b, Integer, {"trained_chunk_count"})
decode_basis(row) ==
  IF /\ Tagged(row, {"text"}, {"model_id", "model_version"})
     /\ Tagged(row, {"blob"}, {"basis"})
     /\ decode_trained_at_secs(row["trained_at"]) # None
     /\ Tagged(row, {"int"}, {"trained_chunk_count"})
    THEN [c \in {"model_id", "model_version", "basis", "trained_chunk_count"} |-> row[c].val]
           ++ [trained_at |-> decode_trained_at_secs(row["trained_at"])]
    ELSE Corrupt

counts_values(c) ==
  Put(c, Text, {"model_id", "model_version"}) ++ Put(c, Blob, {"counts"})
    ++ Put(c, Integer, {"doc_count", "vocab_size"}) ++ Put(c, Timestamp, {"updated_at"})
decode_counts(row) ==
  IF /\ Tagged(row, {"text"}, {"model_id", "model_version"})
     /\ Tagged(row, {"blob"}, {"counts"})
     /\ Tagged(row, {"int"}, {"doc_count", "vocab_size"})
     /\ decode_trained_at_secs(row["updated_at"]) # None
    THEN [c \in {"model_id", "model_version", "counts", "doc_count", "vocab_size"} |->
            row[c].val]
           ++ [updated_at |-> decode_trained_at_secs(row["updated_at"])]
    ELSE Corrupt
growth_anchor(row) ==
  IF Tagged(row, {"int"}, {"doc_count", "vocab_size"})
    THEN <<row["doc_count"].val, row["vocab_size"].val>> ELSE Corrupt

removed_values(r, now) == Put(r, Text, {"source_id"}) ++ [removed_at |-> Timestamp(now)]
removed_id(row) ==
  IF Tagged(row, {"text"}, {"source_id"}) THEN [source_id |-> row["source_id"].val]
  ELSE Corrupt

--------------------------------------------------------------------------
(* The entities: the arguments of a constructor, the fields it fills with  *)
(* a value of its own, and the optional fields, which it leaves empty.     *)

Entity(given, filled, optional) ==
  [given |-> given, filled |-> filled, optional |-> optional]
Zero(names) == [f \in names |-> 0]
LatticeAnchor == Entity({"udcCode"}, <<>>,
                        {"udcFacets", "wikidataQID", "wikidataQidsSecondary"})
bitmaps == {"adjectiveBitmap", "operationalBitmap", "provenanceBitmap"}

Drawer ==
  Entity({"id", "content", "parent_node_id", "addedBy", "filedAt",
          "embeddingModelID"},
         Zero({"provenance", "adjectiveBitmap", "operationalBitmap"})
           ++ [udcCode |-> "", lineageID |-> FreshUuid, eventTime |-> 0],
         {"sourceFile", "chunkIndex", "tombstonedAt", "removedByBatch"}
           \cup LatticeAnchor.optional)
EdgeGiven == {"id", "sourceWing", "sourceRoom", "targetWing", "targetRoom",
              "label", "addedBy", "filedAt"}
EdgeOptional == {"sourceDrawerId", "targetDrawerId", "tombstonedAt",
                 "removedByBatch"}
Tunnel == Entity(EdgeGiven, Zero(bitmaps) ++ [kind_id |-> 1],
                 EdgeOptional \cup {"order_key"})
Association == Entity(EdgeGiven \cup LatticeAnchor.given, Zero(bitmaps),
                      EdgeOptional \cup LatticeAnchor.optional)
DiaryEntry ==
  Entity({"id", "agentName", "entry", "topic", "wing", "room", "filedAt",
          "embeddingModelID"},
         Zero({"operationalBitmap"}),
         {"tombstonedAt", "removedByBatch", "reward", "rewardProvenance"})
KGFact == Entity({"id", "subject", "predicate", "object", "sourceDrawerID",
                  "filedAt"}, Zero(bitmaps), {})
Proposal == Entity({"id", "targetRowID", "filedAt"} \cup LatticeAnchor.given,
                   Zero(bitmaps \cup {"candidateState"}),
                   {"justification"} \cup LatticeAnchor.optional)
LearnedReference ==
  Entity({"id", "sourceCatalogID", "handle", "addedBy", "filedAt"}
           \cup LatticeAnchor.given,
         Zero(bitmaps),
         {"tombstonedAt", "removedByBatch"} \cup LatticeAnchor.optional)
SourceCatalogEntry ==
  Entity({"id", "kind", "handle", "firstSeen", "addedBy"}
           \cup LatticeAnchor.given, <<>>, LatticeAnchor.optional)
RecallTraceItem ==
  Entity({"id", "target", "recalledAt", "operationalBitmap"}, <<>>, {"score"})
Node == Entity({"id", "display_name", "lookup_name", "depth", "lifecycle",
                "created_hlc", "created_at", "updated_at"}, <<>>,
               {"parent_id"})
VectorPayloadInput ==
  Entity({"id", "item_id", "model_id", "model_version", "vector_index",
          "kind", "dim", "payload", "filed_at"}, <<>>, {"scale"})
Chunk == Entity(ChunkFields \cup {"metadata"}, <<>>, {})
PersistedBasis == Entity({"model_id", "model_version", "basis", "trained_at",
                          "trained_chunk_count"}, <<>>, {})
PersistedCounts == Entity({"model_id", "model_version", "counts", "doc_count",
                           "vocab_size", "updated_at"}, <<>>, {})
RemovedSource == Entity({"source_id"}, <<>>, {})

Entities ==
  [chunks |-> Chunk, corpus_provider_basis |-> PersistedBasis,
   corpus_provider_counts |-> PersistedCounts, removed_sources |-> RemovedSource,
   drawers |-> Drawer, tunnels |-> Tunnel, diary |-> DiaryEntry,
   kg_facts |-> KGFact, proposals |-> Proposal, associations |-> Association,
   learned_references |-> LearnedReference, source_catalog |-> SourceCatalogEntry,
   recall_trace |-> RecallTraceItem, nodes |-> Node, vectors |-> VectorPayloadInput]
Coded == DOMAIN Entities

(* A new drawer happened when it was filed; every other filled field is    *)
(* the same for all.                                                       *)
New(table, args) ==
  LET new == args ++ Entities[table].filled
                  ++ [f \in Entities[table].optional |-> None]
  IN  IF table = "drawers" THEN [new EXCEPT !["eventTime"] = args["filedAt"]]
      ELSE new

(* The codecs by table.                                                    *)
Values(table, e) ==
  CASE table = "drawers" -> drawer_values(e, "fingerprint")
    [] table = "tunnels" -> tunnel_values(e)
    [] table = "diary" -> diary_values(e)
    [] table = "kg_facts" -> kg_fact_values(e)
    [] table = "proposals" -> proposal_values(e)
    [] table = "associations" -> association_values(e)
    [] table = "learned_references" -> learned_reference_values(e)
    [] table = "source_catalog" -> source_catalog_values(e)
    [] table = "recall_trace" -> recall_trace_values(e)
    [] table = "nodes" -> node_values(e)
    [] table = "vectors" -> vector_values(e)
    [] table = "chunks" -> chunk_values(e, Time(1, 0))
    [] table = "corpus_provider_basis" -> basis_values(e)
    [] table = "corpus_provider_counts" -> counts_values(e)
    [] table = "removed_sources" -> removed_values(e, Time(1, 0))
FromRow(table, row) ==
  CASE table = "drawers" -> drawer_from_row(row)
    [] table = "tunnels" -> tunnel_from_row(row)
    [] table = "diary" -> diary_from_row(row)
    [] table = "kg_facts" -> kg_fact_from_row(row)
    [] table = "proposals" -> proposal_from_row(row)
    [] table = "associations" -> association_from_row(row)
    [] table = "learned_references" -> learned_reference_from_row(row)
    [] table = "source_catalog" -> source_catalog_from_row(row)
    [] table = "recall_trace" -> recall_trace_from_row(row)
    [] table = "nodes" -> node_from_row(row)
    [] table = "vectors" -> decode_stored_vector(row)
    [] table = "chunks" -> decode_chunk(row)
    [] table = "corpus_provider_basis" -> decode_basis(row)
    [] table = "corpus_provider_counts" -> decode_counts(row)
    [] table = "removed_sources" -> removed_id(row)

(* An audit event crosses two representations: three optional bitmaps      *)
(* written out one by one, all or none of which are read back.             *)
pk_audit_event_from(e) ==
  LET before(f) == IF e.before = None THEN None ELSE e.before[f]
      anchor(f) == IF e.before_anchor = None THEN None ELSE e.before_anchor[f]
  IN  [before_adjective |-> before(1), before_operational |-> before(2),
       before_provenance |-> before(3), after |-> e.after,
       before_lattice_anchor |-> anchor(1), before_lattice_qid |-> anchor(2),
       after_lattice_anchor |-> e.after_anchor[1],
       after_lattice_qid |-> e.after_anchor[2],
       ident |-> e.ident]

substrate_audit_event_from(e) ==
  LET bits == <<e.before_adjective, e.before_operational, e.before_provenance>>
      qid == IF e.before_lattice_qid = None THEN 0 ELSE e.before_lattice_qid
  IN  [before |-> IF \E i \in 1..3 : bits[i] = None THEN None ELSE bits,
       after |-> e.after,
       before_anchor |-> IF e.before_lattice_anchor = None THEN None
                         ELSE <<e.before_lattice_anchor, qid>>,
       after_anchor |-> <<e.after_lattice_anchor, e.after_lattice_qid>>,
       ident |-> e.ident]

--------------------------------------------------------------------------
(* The manifest: a table of texts, read back through typed accessors.  A   *)
(* text is words, a decimal number or an ISO-8601 time.                    *)

Words(s) == [as |-> "words", v |-> s]
Digits(n) == [as |-> "digits", v |-> n]
Iso(t) == [as |-> "iso", v |-> format_iso8601(t)]
Blank == Words("")

(* The 18 required keys in the order they are written, and the 7 optional. *)
REQUIRED ==
  <<"manifest_version", "schema_version", "estate_uuid", "estate_name",
    "owner_identifier", "lattice_citation", "framework_profile",
    "framework_profile_definition", "zoom_window_low", "zoom_window_high",
    "access_posture", "provenance_defaults", "active_storage_mode",
    "tables_present", "created_at", "last_modified", "bitmap_layout_version",
    "provenance_bitmap_version">>
OPTIONAL ==
  {"federation_group_id", "mining_patterns_hash", "tiny_model_id",
   "tiny_model_training_corpus_size", "operational_bitmap_layouts",
   "ed25519_public_key", "ed25519_private_key_wrapped"}

v1_defaults(estate_uuid, now) ==
  [k \in {"estate_name", "owner_identifier", "tables_present"} |-> Blank]
    ++ [k \in {"manifest_version", "schema_version"} |-> Words("1.0")]
    ++ [estate_uuid |-> Words(estate_uuid),
        lattice_citation |-> Words("UDC:2024+Wikidata:2024-Q3"),
        framework_profile |-> Words("unspecified_v0"),
        framework_profile_definition |-> Words("{}"),
        zoom_window_low |-> Digits(0), zoom_window_high |-> Digits(99)]
    ++ [k \in {"access_posture", "provenance_defaults"} |-> Digits(0)]
    ++ [active_storage_mode |-> Digits(8)]
    ++ [k \in {"created_at", "last_modified"} |-> Iso(now)]
    ++ [k \in {"bitmap_layout_version", "provenance_bitmap_version"} |->
          Words("v1.0")]

(* Mutant: the defaults are written over what is there. *)
populate_v1_manifest_defaults_Overwrites(stored, n, estate_uuid, now) ==
  LET defaults == v1_defaults(estate_uuid, now)
  IN  [k \in {REQUIRED[i] : i \in 1..n} |-> defaults[k]] ++ stored

(* Each key is written when no row holds it; the first n keys are written  *)
(* when the process stops there.                                           *)
populate_v1_manifest_defaults(stored, n, estate_uuid, now) ==
  LET defaults == v1_defaults(estate_uuid, now)
  IN  stored ++ [k \in {REQUIRED[i] : i \in 1..n} |-> defaults[k]]

set_meta(stored, key, value) == [k \in {key} |-> value] ++ stored
get_meta(stored, key) == IF key \in DOMAIN stored THEN stored[key] ELSE None

(* A blank or missing text reads as its default, a missing or unreadable   *)
(* number or time likewise, an optional key as None.                       *)
read_manifest(stored) ==
  LET get(k) == IF k \in DOMAIN stored THEN stored[k] ELSE Blank
      or_default(k, d) == IF get(k) = Blank THEN d ELSE get(k).v
      get_int(k, d) == IF get(k).as = "digits" THEN get(k).v ELSE d
      get_date(k) == IF get(k).as = "iso" THEN parse_iso8601(get(k).v)
                     ELSE Time(0, 0)
  IN  [k \in {"estate_uuid", "estate_name", "owner_identifier",
              "tables_present"} |-> get(k).v]
        ++ [k \in {"manifest_version", "schema_version"} |-> or_default(k, "1.0")]
        ++ [lattice_citation |-> or_default("lattice_citation", "UDC:2024+Wikidata:2024-Q3"),
            framework_profile |-> or_default("framework_profile", "unspecified_v0"),
            framework_profile_definition |-> or_default("framework_profile_definition", "{}"),
            zoom_window_low |-> get_int("zoom_window_low", 0),
            zoom_window_high |-> get_int("zoom_window_high", 99)]
        ++ [k \in {"access_posture", "provenance_defaults"} |-> get_int(k, 0)]
        ++ [active_storage_mode |-> get_int("active_storage_mode", 8)]
        ++ [k \in {"created_at", "last_modified"} |-> get_date(k)]
        ++ [k \in {"bitmap_layout_version", "provenance_bitmap_version"} |->
              or_default(k, "v1.0")]
        ++ [k \in OPTIONAL \ {"tiny_model_training_corpus_size"} |->
              IF k \in DOMAIN stored THEN stored[k].v ELSE None]
        ++ [tiny_model_training_corpus_size |-> get_int("tiny_model_training_corpus_size", None)]

=============================================================================
