------------------------------ MODULE Bitmaps ------------------------------
(***************************************************************************)
(* The bitmap vocabularies of LocusKit: which bits of which bitmap hold    *)
(* which field, the values a field may hold, how an unknown value reads,   *)
(* and the writers.  An i64 bitmap is the set of its one bits (0..63), so  *)
(* AND, OR and AND-NOT are set operations and no width is lost.            *)
(***************************************************************************)
EXTENDS Integers, FiniteSets, FiniteSetsExt

--------------------------------------------------------------------------
(* External: substrate_kernel::bit_field.                                  *)

BitsOf(n, low, width) ==
  LET halved[j \in Nat] == IF j = 0 THEN n ELSE halved[j - 1] \div 2
  IN  {low + j : j \in {i \in 0..(width - 1) : halved[i] % 2 = 1}}
extract_field(bm, low, width) ==
  LET top[j \in Nat] ==      \* the number that the j highest bits make
        IF j = 0 THEN 0
        ELSE 2 * top[j - 1] + (IF low + width - j \in bm THEN 1 ELSE 0)
  IN  top[width]
write_field(n, bm, low, width) ==
  (bm \ (low..(low + width - 1))) \cup BitsOf(n, low, width)
extract_flag(bm, bit) == bit \in bm
write_flag(on, bm, bit) == IF on THEN bm \cup {bit} ELSE bm \ {bit}

(* A field: its place, the raw values of its enum, and the value that a    *)
(* raw outside the enum reads as.                                          *)
Field(low, width, legal, fallback) ==
  [low |-> low, width |-> width, legal |-> legal, fallback |-> fallback]
FieldBits(f) == f.low..(f.low + f.width - 1)
from_raw(f, raw) == IF raw \in f.legal THEN raw ELSE f.fallback
Reads(f, bm) == from_raw(f, extract_field(bm, f.low, f.width))
Writes(f, raw, bm) == write_field(raw, bm, f.low, f.width)

--------------------------------------------------------------------------
(* Adjectives: of drawers, facts, proposals, tunnels and the rest.         *)

Active == 0
Pending == 1
Contested == 2
Accepted == 3
Superseded == 16
Decayed == 17
Withdrawn == 18
Expired == 19
Rejected == 32
Tombstoned == 33

State == Field(0, 6, {Active, Pending, Contested, Accepted, Superseded,
                      Decayed, Withdrawn, Expired, Rejected, Tombstoned}, Active)
is_cluster_a(s) == s \in {Active, Pending, Contested, Accepted}
is_knew_past(s) == s \in {Superseded, Decayed, Withdrawn, Expired}
is_terminal(s) == s \in {Rejected, Tombstoned}

Normal == 0
Elevated == 16
Restricted == 32
Secret == 48
AdjectiveSensitivity == Field(6, 6, {Normal, Elevated, Restricted, Secret}, Normal)
is_bulk_exportable(s) == s \in {Normal, Elevated}
requires_owner_key_for_bulk(s) == s = Restricted
is_excluded_from_bulk(s) == s = Secret

AdjectiveExportability == Field(12, 6, {0, 32}, 0)
Trust == Field(18, 6, 0..6, 0)
Adjectives ==
  [state |-> State, sensitivity |-> AdjectiveSensitivity,
   exportability |-> AdjectiveExportability, trust |-> Trust]

(* A row may not be both secret and public.                                *)
is_secret_and_exportable(bm) ==
  extract_field(bm, 6, 6) = Secret /\ extract_field(bm, 12, 6) = 32
forbidden(bm) == is_secret_and_exportable(bm)

--------------------------------------------------------------------------
(* Operational bitmaps, one layout per noun.                               *)

CaptureChannel == Field(0, 6, 0..5, 0)
ContentKind == Field(6, 6, 0..7, 0)
DrawerFeatureFlags == 12..23
DrawerOperational ==
  [capture_channel |-> CaptureChannel, content_kind |-> ContentKind,
   feature_flags |-> Field(12, 12, {}, 0),
   state_extension |-> Field(24, 1, {0, 1}, 0),
   lineage_clustering |-> Field(25, 1, {0, 1}, 0)]
feature_flags(bm) == bm \cap DrawerFeatureFlags
has_feature_flag(bm, flags) == flags \subseteq bm

TunnelKind == [legal |-> 0..9, fallback |-> 1]
TunnelDirection == Field(0, 3, 0..3, 0)
TunnelLifecycle == Field(3, 3, 0..3, 0)
TunnelOriginClass == Field(6, 3, 0..4, 0)
TunnelStrength == Field(9, 3, {0, 2, 4, 6}, 0)
TunnelOperational ==
  [direction |-> TunnelDirection, lifecycle |-> TunnelLifecycle,
   origin_class |-> TunnelOriginClass, strength |-> TunnelStrength,
   has_inverse |-> Field(12, 1, {0, 1}, 0),
   is_retired |-> Field(13, 1, {0, 1}, 0)]
IS_RETIRED_BIT == 13
with_retired(bm) == bm \cup {IS_RETIRED_BIT}
with_unretired(bm) == bm \ {IS_RETIRED_BIT}
with_lifecycle(bm, lifecycle) == write_field(lifecycle, bm, 3, 3)
IS_DREAMED_BIT == 0
with_dreamed_provenance(bm) == bm \cup {IS_DREAMED_BIT}

ProposalKind == Field(0, 6, 0..8, 0)
ProposalTargetObjectType == Field(6, 6, 0..6, 0)
ProposalConfirmationSource == Field(12, 6, 0..3, 0)
ProposalGeneratedByClass == Field(18, 6, 0..4, 0)
ProposalConfidenceBucket == Field(24, 6, {0, 8, 16, 32, 48}, 0)
ProposalOperational ==
  [kind |-> ProposalKind, target_object_type |-> ProposalTargetObjectType,
   confirmation |-> ProposalConfirmationSource,
   generated_by |-> ProposalGeneratedByClass,
   confidence |-> ProposalConfidenceBucket]

(* Mutant: the confidence lands on the generated-by bits. *)
compose_operational_Shifted(kind, target, generated_by, confidence) ==
  write_field(confidence,
    write_field(generated_by,
      write_field(target, write_field(kind, {}, 0, 6), 6, 6), 18, 6), 18, 6)

compose_operational(kind, target, generated_by, confidence) ==
  write_field(confidence,
    write_field(generated_by,
      write_field(target, write_field(kind, {}, 0, 6), 6, 6), 18, 6), 24, 6)
(* propose packs the confirmation source too.                              *)
propose_operational(kind, confirmation, generated_by, confidence) ==
  write_field(confidence,
    write_field(generated_by,
      write_field(confirmation,
        write_field(0, write_field(kind, {}, 0, 6), 6, 6), 12, 6), 18, 6), 24, 6)

KGExtractorClass == Field(0, 4, 0..5, 0)
KGAssertionKind == Field(4, 3, 0..3, 0)
KGSpecificity == Field(7, 3, {0, 2, 4, 6}, 0)
KGConfidenceBand == Field(10, 3, {0, 1, 2, 4, 6}, 0)
KGFactOperational ==
  [extractor_class |-> KGExtractorClass, assertion_kind |-> KGAssertionKind,
   specificity |-> KGSpecificity, confidence_band |-> KGConfidenceBand,
   is_canonical |-> Field(13, 1, {0, 1}, 0)]

DiaryEventClass == Field(0, 4, 0..11, 0)
DiarySeverity == Field(4, 3, {0, 2, 4, 6}, 0)
DiaryActorClass == Field(7, 3, 0..4, 0)
DiaryBatchMembership == Field(10, 3, 0..3, 0)
DiaryOperational ==
  [event_class |-> DiaryEventClass, severity |-> DiarySeverity,
   actor_class |-> DiaryActorClass, batch_membership |-> DiaryBatchMembership,
   requires_followup |-> Field(13, 1, {0, 1}, 0)]

AssociationSignalSources == 0..11
AssociationDecayClass == Field(12, 6, {0, 16, 32, 48}, 0)
AssociationArity == Field(18, 2, {0, 1}, 0)
AssociationOperational ==
  [signals |-> Field(0, 12, {}, 0), decay_class |-> AssociationDecayClass,
   arity |-> AssociationArity]
signal_sources_seen(bm) == bm \cap AssociationSignalSources

RefreshPolicy == Field(0, 6, {0, 16, 24, 32, 48, 56}, 0)
DriftSeverity == Field(6, 6, {0, 16, 32, 48}, 0)
LearnMode == Field(12, 1, {0, 1}, 0)
LearnedReferenceSource == Field(13, 6, 0..5, 0)
LearnedOperational ==
  [refresh_policy |-> RefreshPolicy, drift_severity |-> DriftSeverity,
   mode |-> LearnMode, acquisition_source |-> LearnedReferenceSource]
learn_operational(refresh, by_ingestion, kind) ==
  write_field(kind,
    write_flag(by_ingestion, write_field(refresh, {}, 0, 6), 12), 13, 6)

FLAG_USED == 0
with_used(bm) == bm \cup {FLAG_USED}

--------------------------------------------------------------------------
(* Provenance of drawers.                                                  *)

SourceType == Field(0, 6, 0..9, 0)
Channel == Field(6, 6, 0..8 \cup {15, 16}, 0)
ProvCaptureChannel == Field(12, 6, 0..5, 0)
Confirmation == Field(18, 6, 0..4, 0)
Confidence == Field(24, 6, {0, 16, 32, 48, 56}, 0)
Sensitivity == Field(30, 6, {0, 16, 32, 48}, 0)
EnrichmentStatus == Field(36, 6, 0..4, 0)
Provenance ==
  [source_type |-> SourceType, channel |-> Channel,
   prov_capture_channel |-> ProvCaptureChannel, confirmation |-> Confirmation,
   confidence |-> Confidence, sensitivity_at_capture |-> Sensitivity,
   enrichment_status |-> EnrichmentStatus]

--------------------------------------------------------------------------
(* The vocabulary the audit gate is given: slots with the values it admits *)
(* ({} for a slot without a value set).                                    *)

Slot(low, width, values) == [low |-> low, width |-> width, values |-> values]
union_slots ==
  [operational |->
     [capture_channel |-> Slot(0, 6, 0..5), content_kind |-> Slot(6, 6, 0..7),
      feature_flags |-> Slot(12, 12, {}), state_extension |-> Slot(24, 1, {}),
      lineage_clustering |-> Slot(25, 1, {})],
   provenance |->
     [source_type |-> Slot(0, 6, 0..9),
      channel |-> Slot(6, 6, 0..8 \cup {15, 16}),
      prov_capture_channel |-> Slot(12, 6, 0..5),
      confirmation |-> Slot(18, 6, 0..4),
      confidence |-> Slot(24, 6, {0, 16, 32, 48, 56}),
      sensitivity_at_capture |-> Slot(30, 6, {0, 16, 32, 48}),
      enrichment_status |-> Slot(36, 6, 0..4)]]

(* Every layout, by the noun and the bitmap.                               *)
Layouts ==
  [adjective |-> Adjectives, drawer |-> DrawerOperational,
   tunnel |-> TunnelOperational, proposal |-> ProposalOperational,
   kg_fact |-> KGFactOperational, diary |-> DiaryOperational,
   association |-> AssociationOperational, learned |-> LearnedOperational,
   provenance |-> Provenance]

--------------------------------------------------------------------------
(* bitmap_ops.rs: a mask is a set of bits.                                 *)

and_mask(bm, mask, expected) == bm \cap mask = expected
shift_extract(bm, shift, mask) ==
  IF mask = {} THEN 0 ELSE extract_field(bm, shift, Cardinality(mask))
threshold_compare(bm, mask, shift, op, value) ==
  LET field == shift_extract(bm, shift, mask)
  IN  CASE op = "<" -> field < value
        [] op = "<=" -> field <= value
        [] op = ">=" -> field >= value
=============================================================================
