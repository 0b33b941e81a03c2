---------------------------- MODULE BaselineSteps ----------------------------
(***************************************************************************)
(* The migrations up to the full-text search of members and contacts, in   *)
(* the order of their down_revision links: the baseline that creates the   *)
(* tables, then types, constraints and names put right.                    *)
(***************************************************************************)
EXTENDS SchemaFacts, Naturals

IntId(t) == Table(t) \cup Column(t, {"id"}, "int") \cup Key(t, {"id"})
Naive(t, cs) == Column(t, cs, "naive")        \* TIMESTAMP without a time zone
Plain(t, c, ref) == References(t, c, ref, "id", "none")

InitialBaseline == NoSchemaChange
AddPublicGalleryImages == NoSchemaChange

(***************************************************************************)
(* 4831bb012783: the tables, in the order the file creates them.           *)
(***************************************************************************)
BaselineArchiveAndAccounts ==
  UNION { IntId("archive_dirs"), Column("archive_dirs", {"archive_dir_id"}, "int"),
          Naive("archive_dirs", {"created_at", "updated_at", "deleted_at"}),
          IntId("archive_files"), Column("archive_files", {"archive_dir_id"}, "int"),
          Naive("archive_files", {"deleted_at"}),
          IntId("badges"), Column("badges", {"group"}, "text"), Column("badges", {"order"}, "int"),
          IntId("client_user_agents"), Key("client_user_agents", {"string"}),
          Index("client_user_agents", {"id"}),
          IntId("keys"),
          Table("orgs"), Column("orgs", {"id"}, "text"), Column("orgs", {"order"}, "int"),
          Key("orgs", {"id"}),
          IntId("p4x_accounts"), Key("p4x_accounts", {"iban"}),
          Column("p4x_accounts", {"init_balance"}, "float"),
          Column("p4x_accounts", {"init_date"}, "text"),
          Naive("p4x_accounts", {"created_at", "updated_at", "deleted_at"}),
          IntId("p4x_categories"), Key("p4x_categories", {"name"}),
          Naive("p4x_categories", {"created_at", "updated_at"}),
          Table("p4x_fees"), Column("p4x_fees", {"fee"}, "float"),
          Column("p4x_fees", {"start"}, "text"), Key("p4x_fees", {"start"}),
          IntId("p4x_partners"), Key("p4x_partners", {"iban"}),
          Column("p4x_partners", {"partner_id"}, "int"),
          Column("p4x_partners", {"partner_type"}, "text"),
          Index("p4x_partners", {"partner_id"}),
          Naive("p4x_partners", {"created_at", "updated_at", "deleted_at"}) }

BaselineAccessAndLogs ==
  UNION { Named("p4x_special_contacts", "p4x_specialcontacts"),
          Column("p4x_special_contacts", {"id"}, "int"), Key("p4x_special_contacts", {"id"}),
          Table("password_reset_tokens"),
          Column("password_reset_tokens", {"email", "token"}, "text"),
          Key("password_reset_tokens", {"email"}), Index("password_reset_tokens", {"email"}),
          Naive("password_reset_tokens", {"created_at"}),
          Named("sessions", "personal_access_tokens"),
          Column("sessions", {"id", "tokenable_id"}, "int"),
          Column("sessions", {"tokenable_type", "name", "token"}, "text"),
          Key("sessions", {"id", "token"}), Index("sessions", {"id"}),
          Naive("sessions", {"last_used_at", "created_at", "updated_at"}),
          IntId("request_logs"), Index("request_logs", {"id"}),
          Column("request_logs", {"member_id", "client_user_agent_id"}, "int"),
          Column("request_logs", {"client_ips", "request_input", "response_content"}, "text"),
          Naive("request_logs", {"created_at", "updated_at"}),
          Table("roles"), Column("roles", {"id", "group"}, "text"),
          Column("roles", {"order"}, "int"), Key("roles", {"id"}),
          IntId("sent_emails"), Index("sent_emails", {"id"}),
          Naive("sent_emails", {"created_at", "updated_at"}),
          IntId("standesdb_images"), Index("standesdb_images", {"id"}),
          Column("standesdb_images", {"owner_id", "created_by", "default"}, "int"),
          Column("standesdb_images", {"owner_type"}, "text"),
          Naive("standesdb_images", {"created_at", "updated_at", "deleted_at"}),
          Table("states"), Column("states", {"id"}, "text"), Column("states", {"order"}, "int"),
          Key("states", {"id"}),
          IntId("archive_permissions"), Column("archive_permissions", {"archive_dir_id"}, "int"),
          Column("archive_permissions", {"org_id", "state_id"}, "text"),
          Plain("archive_permissions", "archive_dir_id", "archive_dirs") }

MemberDates == {"geburtsdatum", "aufnahmedatum", "branderdatum", "burschungsdatum",
                "entlassungsdatum", "philistrierungsdatum", "sterbedatum"}

BaselineContactsAndMembers ==
  UNION { IntId("contacts"), Key("contacts", {"name"}), Index("contacts", {"id"}),
          Column("contacts", {"org_id", "kontakttyp", "datum"}, "text"),
          Column("contacts", {"modified_by"}, "int"),
          Naive("contacts", {"modified_at", "created_at", "updated_at", "deleted_at"}),
          Plain("contacts", "org_id", "orgs"),
          IntId("members"), Key("members", {"email"}), Index("members", {"id"}),
          Column("members", MemberDates \cup {"org_id", "state_id", "zustellungen", "p4x_init_date"},
                 "text"),
          Column("members", {"parent_id", "modified_by", "p4x_init_balance"}, "int"),
          Naive("members", {"email_verified_at", "auth_lastlogin", "auth_lastsignal",
                            "auth_lastlogout", "modified_at", "created_at", "updated_at"}),
          Plain("members", "org_id", "orgs"), Plain("members", "state_id", "states"),
          Plain("members", "parent_id", "members") }

BaselineFiltersAndTransactions ==
  UNION { IntId("p4x_category_filters"), Key("p4x_category_filters", {"name"}),
          Column("p4x_category_filters", {"p4x_account_id", "p4x_category_id"}, "int"),
          Column("p4x_category_filters", {"min_amount", "max_amount"}, "float"),
          Column("p4x_category_filters", {"subject_mode"}, "text"),
          Index("p4x_category_filters", {"p4x_account_id", "p4x_category_id"}),
          Naive("p4x_category_filters", {"created_at", "updated_at"}),
          Plain("p4x_category_filters", "p4x_account_id", "p4x_accounts"),
          Plain("p4x_category_filters", "p4x_category_id", "p4x_categories"),
          IntId("p4x_transactions"), Key("p4x_transactions", {"sha256hash"}),
          Column("p4x_transactions", {"p4x_account_id", "delegating_partner_id"}, "int"),
          Column("p4x_transactions", {"amount"}, "float"),
          Column("p4x_transactions", {"booking", "valuation", "sha256hash",
                                      "delegating_partner_type"}, "text"),
          Index("p4x_transactions", {"amount", "booking", "valuation", "iban", "subject",
                 "p4x_account_id", "delegating_partner_id", "delegating_partner_type"}),
          Naive("p4x_transactions", {"created_at", "updated_at", "deleted_at"}),
          Plain("p4x_transactions", "p4x_account_id", "p4x_accounts") }

BaselineCommentsToBindings ==
  UNION { IntId("archive_file_comments"),
          Column("archive_file_comments", {"archive_file_id", "created_by"}, "int"),
          Naive("archive_file_comments", {"created_at", "updated_at", "deleted_at"}),
          Plain("archive_file_comments", "archive_file_id", "archive_files"),
          Plain("archive_file_comments", "created_by", "members"),
          IntId("archive_store_items"), Key("archive_store_items", {"sha256_hash"}),
          Column("archive_store_items", {"created_by"}, "int"),
          Column("archive_store_items", {"original_name", "original_description"}, "text"),
          Naive("archive_store_items", {"backedup_at", "created_at", "updated_at"}),
          Plain("archive_store_items", "created_by", "members"),
          IntId("contacts_logs"), Column("contacts_logs", {"contact_id", "modified_by"}, "int"),
          Column("contacts_logs", {"action"}, "text"), Naive("contacts_logs", {"modified_at"}),
          Plain("contacts_logs", "contact_id", "contacts"),
          Named("badges_members", "members_badges"),
          Column("badges_members", {"member_id", "badge_id"}, "int"),
          Column("badges_members", {"presentationdate"}, "text"),
          Key("badges_members", {"member_id+badge_id"}),
          Plain("badges_members", "badge_id", "badges"),
          Plain("badges_members", "member_id", "members"),
          Named("keys_members", "members_keys"),
          Column("keys_members", {"member_id", "key_id"}, "int"),
          Column("keys_members", {"presentationdate"}, "text"),
          Key("keys_members", {"member_id+key_id"}),
          Plain("keys_members", "key_id", "keys"), Plain("keys_members", "member_id", "members"),
          IntId("members_logs"), Column("members_logs", {"member_id", "modified_by"}, "int"),
          Column("members_logs", {"action"}, "text"), Naive("members_logs", {"modified_at"}),
          Plain("members_logs", "member_id", "members"),
          IntId("members_oauth2bindings"), Column("members_oauth2bindings", {"member_id"}, "int"),
          Column("members_oauth2bindings", {"provider"}, "text"),
          Index("members_oauth2bindings", {"id", "member_id"}),
          Naive("members_oauth2bindings", {"bound_at", "lastuse_at"}),
          Plain("members_oauth2bindings", "member_id", "members") }

BaselineSummaryOrders ==
  UNION { IntId("p4x_summary_orders"), Column("p4x_summary_orders", {"ordered_by"}, "int"),
          Column("p4x_summary_orders", {"summary_start", "summary_end"}, "text"),
          Naive("p4x_summary_orders", {"created_at", "updated_at", "started_at", "finished_at"}),
          Plain("p4x_summary_orders", "ordered_by", "members") }

BaselineFileVersions ==
  UNION { IntId("archive_file_versions"),
          Column("archive_file_versions", {"archive_file_id", "archive_store_item_id"}, "int"),
          Plain("archive_file_versions", "archive_file_id", "archive_files"),
          Plain("archive_file_versions", "archive_store_item_id", "archive_store_items") }

BaselineRolesToVersions ==
  UNION { Table("members_roles"), Column("members_roles", {"member_id"}, "int"),
          Column("members_roles", {"role_id", "startdate", "enddate"}, "text"),
          Key("members_roles", {"member_id+role_id+startdate"}),
          Plain("members_roles", "member_id", "members"), Plain("members_roles", "role_id", "roles"),
          IntId("p4x_category_directs"), Column("p4x_category_directs", {"amount"}, "float"),
          Column("p4x_category_directs", {"p4x_transaction_id", "p4x_category_id"}, "int"),
          Index("p4x_category_directs", {"p4x_transaction_id", "p4x_category_id"}),
          Naive("p4x_category_directs", {"deleted_at"}),
          Plain("p4x_category_directs", "p4x_category_id", "p4x_categories"),
          Plain("p4x_category_directs", "p4x_transaction_id", "p4x_transactions"),
          IntId("p4x_category_filter_hits"),
          Key("p4x_category_filter_hits", {"p4x_transaction_id+p4x_category_filter_id"}),
          Column("p4x_category_filter_hits", {"p4x_transaction_id", "p4x_category_filter_id"}, "int"),
          Index("p4x_category_filter_hits", {"p4x_transaction_id", "p4x_category_filter_id"}),
          Naive("p4x_category_filter_hits", {"created_at", "updated_at"}),
          Plain("p4x_category_filter_hits", "p4x_category_filter_id", "p4x_category_filters"),
          Plain("p4x_category_filter_hits", "p4x_transaction_id", "p4x_transactions"),
          BaselineSummaryOrders,
          Table("public_gallery_images"), Column("public_gallery_images", {"id"}, "uuid"),
          Key("public_gallery_images", {"id", "sha256_hash"}),
          Column("public_gallery_images", {"created_by"}, "int"),
          Index("public_gallery_images", {"sort_order"}),
          Naive("public_gallery_images", {"created_at", "updated_at"}),
          References("public_gallery_images", "created_by", "members", "id", "set null"),
          BaselineFileVersions }

SchemaBaseline ==
  Migration(Add(UNION { BaselineArchiveAndAccounts, BaselineAccessAndLogs,
                        BaselineContactsAndMembers, BaselineFiltersAndTransactions,
                        BaselineCommentsToBindings, BaselineRolesToVersions }))

(***************************************************************************)
(* 3f58e5fc7f5f: every reference gets its ON DELETE rule (and ON UPDATE    *)
(* CASCADE), <<table, column, referenced table, rule>>.  Databases that    *)
(* grew before the baseline lack two of them (IF EXISTS).                  *)
(***************************************************************************)
RulesOfArchiveAndContacts ==
  { <<"archive_file_comments", "archive_file_id", "archive_files", "cascade">>,
    <<"archive_file_comments", "created_by", "members", "set null">>,
    <<"archive_file_versions", "archive_store_item_id", "archive_store_items", "restrict">>,
    <<"archive_file_versions", "archive_file_id", "archive_files", "cascade">>,
    <<"archive_permissions", "archive_dir_id", "archive_dirs", "cascade">>,
    <<"archive_store_items", "created_by", "members", "set null">>,
    <<"contacts", "org_id", "orgs", "restrict">>,
    <<"contacts_logs", "contact_id", "contacts", "set null">> }

RulesOfMembers ==
  { <<"members", "state_id", "states", "restrict">>,
    <<"members", "parent_id", "members", "set null">>,
    <<"members", "org_id", "orgs", "restrict">>,
    <<"badges_members", "member_id", "members", "cascade">>,
    <<"badges_members", "badge_id", "badges", "restrict">>,
    <<"keys_members", "key_id", "keys", "restrict">>,
    <<"keys_members", "member_id", "members", "cascade">>,
    <<"members_logs", "member_id", "members", "set null">>,
    <<"members_oauth2bindings", "member_id", "members", "cascade">>,
    <<"members_roles", "member_id", "members", "cascade">>,
    <<"members_roles", "role_id", "roles", "restrict">> }

RulesOfAccounting ==
  { <<"p4x_category_directs", "p4x_category_id", "p4x_categories", "restrict">>,
    <<"p4x_category_directs", "p4x_transaction_id", "p4x_transactions", "cascade">>,
    <<"p4x_category_filter_hits", "p4x_category_filter_id", "p4x_category_filters", "cascade">>,
    <<"p4x_category_filter_hits", "p4x_transaction_id", "p4x_transactions", "cascade">>,
    <<"p4x_category_filters", "p4x_account_id", "p4x_accounts", "cascade">>,
    <<"p4x_category_filters", "p4x_category_id", "p4x_categories", "restrict">>,
    <<"p4x_transactions", "p4x_account_id", "p4x_accounts", "restrict">>,
    <<"p4x_summary_orders", "ordered_by", "members", "cascade">> }

\* The two references a grown database is without.
Ungrown == Plain("members", "parent_id", "members") \cup Plain("members_logs", "member_id", "members")

FkOndeleteOnupdate ==
  LET rules == RulesOfArchiveAndContacts \cup RulesOfMembers \cup RulesOfAccounting
      plain == UNION {Plain(r[1], r[2], r[3]) : r \in rules}
      ruled == UNION {References(r[1], r[2], r[3], "id", r[4]) : r \in rules}
  IN  [Migration(Swap(plain \ Ungrown, ruled) \oplus Loose(Ungrown)) EXCEPT !.down = Swap(ruled, plain)]

(***************************************************************************)
(* 740805d424aa: the time stamps get a time zone.                          *)
(***************************************************************************)
Zoned(t, cs) == Retype(t, cs, "naive", "tz")

TimestampsOfArchiveAndContacts ==
  All({ Zoned("archive_dirs", {"created_at", "updated_at", "deleted_at"}),
        Zoned("archive_file_comments", {"created_at", "updated_at", "deleted_at"}),
        Zoned("archive_files", {"deleted_at"}),
        Zoned("archive_store_items", {"backedup_at", "created_at", "updated_at"}),
        Zoned("contacts", {"modified_at", "created_at", "updated_at", "deleted_at"}),
        Zoned("contacts_logs", {"modified_at"}) })

TimestampsOfMembers ==
  All({ Zoned("members", {"email_verified_at", "auth_lastlogin", "auth_lastsignal",
                          "auth_lastlogout", "modified_at", "created_at", "updated_at"}),
        Zoned("members_logs", {"modified_at"}),
        Zoned("members_oauth2bindings", {"bound_at", "lastuse_at"}) })

TimestampsOfAccounting ==
  All({ Zoned("p4x_accounts", {"created_at", "updated_at", "deleted_at"}),
        Zoned("p4x_categories", {"created_at", "updated_at"}),
        Zoned("p4x_category_directs", {"deleted_at"}),
        Zoned("p4x_category_filter_hits", {"created_at", "updated_at"}),
        Zoned("p4x_category_filters", {"created_at", "updated_at"}),
        Zoned("p4x_partners", {"created_at", "updated_at", "deleted_at"}),
        Zoned("p4x_summary_orders", {"started_at", "finished_at", "created_at", "updated_at"}),
        Zoned("p4x_transactions", {"created_at", "updated_at", "deleted_at"}) })

TimestampsOfAccessAndLogs ==
  All({ Zoned("password_reset_tokens", {"created_at"}),
        Zoned("sessions", {"last_used_at", "created_at", "updated_at"}),
        Zoned("public_gallery_images", {"created_at", "updated_at"}),
        Zoned("request_logs", {"created_at", "updated_at"}),
        Zoned("sent_emails", {"created_at", "updated_at"}),
        Zoned("standesdb_images", {"created_at", "updated_at", "deleted_at"}) })

TimestampToTimestamptz ==
  Migration(All({ TimestampsOfArchiveAndContacts, TimestampsOfMembers,
                  TimestampsOfAccounting, TimestampsOfAccessAndLogs }))

\* 74d19e4af679: one function, a trigger on every table with updated_at.
UpdatedAtTrigger ==
  Migration(Add(Routine("set_updated_at") \cup
    Each(Stamped, { "archive_dirs", "archive_file_comments", "archive_store_items", "contacts",
                    "members", "p4x_accounts", "p4x_categories", "p4x_category_filter_hits",
                    "p4x_category_filters", "p4x_partners", "p4x_summary_orders",
                    "p4x_transactions", "public_gallery_images", "request_logs", "sent_emails",
                    "sessions", "standesdb_images" })))

(***************************************************************************)
(* cb250c054945: the CHECK constraints are added NOT VALID in the          *)
(* transaction, then each is validated on its own.                         *)
(***************************************************************************)
CheckedColumns ==
  << <<"members", "geburtsdatum_accuracy">>, <<"members", "aufnahmedatum_accuracy">>,
     <<"members", "branderdatum_accuracy">>, <<"members", "burschungsdatum_accuracy">>,
     <<"members", "philistrierungsdatum_accuracy">>, <<"members", "entlassungsdatum_accuracy">>,
     <<"members", "sterbedatum_accuracy">>, <<"contacts", "datum_accuracy">>,
     <<"badges_members", "presentationdate_accuracy">>,
     <<"keys_members", "presentationdate_accuracy">>, <<"members_roles", "startdate_enddate">>,
     <<"p4x_summary_orders", "summary_start_end">>, <<"archive_store_items", "size">>,
     <<"archive_dirs", "archive_dir_id">>, <<"archive_dirs", "name">>,
     <<"archive_files", "archive_dir_id">>, <<"archive_file_comments", "content">>,
     <<"p4x_fees", "fee">>, <<"standesdb_images", "size">>, <<"standesdb_images", "width">>,
     <<"standesdb_images", "height">>, <<"public_gallery_images", "size">>,
     <<"public_gallery_images", "width_height">>, <<"public_gallery_images", "sort_order">>,
     <<"request_logs", "memory_usage">>, <<"orgs", "order">>, <<"roles", "order">>,
     <<"states", "order">>, <<"badges", "order">>, <<"p4x_accounts", "iban">>,
     <<"p4x_accounts", "bic">>, <<"p4x_categories", "background_color">>,
     <<"p4x_categories", "text_color">>, <<"p4x_category_filters", "min_max_amount">> >>

CheckConstraints ==
  LET validate == [i \in 1..Len(CheckedColumns) |-> Validate(CheckedColumns[i][1], CheckedColumns[i][2])]
  IN  [ up      |-> Add(Established(validate) \cup Halves(validate)),
        online  |-> validate,
        down    |-> Del(Established(validate)) \oplus Loose(Halves(validate)),
        offline |-> <<>> ]

\* 223350b69edd
MoneyColumnsToNumeric ==
  Migration(All({ Retype("p4x_accounts", {"init_balance"}, "float", "numeric"),
                  Retype("p4x_transactions", {"amount"}, "float", "numeric"),
                  Retype("p4x_category_directs", {"amount"}, "float", "numeric"),
                  Retype("p4x_category_filters", {"min_amount", "max_amount"}, "float", "numeric"),
                  Retype("p4x_fees", {"fee"}, "float", "numeric"),
                  Retype("members", {"p4x_init_balance"}, "int", "numeric") }))

Integers(t, cs) == Column(t, cs, "int")

\* 5292367fb696: (tokenable_type, tokenable_id) becomes one real reference.
PersonalAccessTokensRealFk ==
  Migration(Swap(Integers("sessions", {"tokenable_id"}) \cup Column("sessions", {"tokenable_type"}, "text"),
                 Integers("sessions", {"member_id"})
                   \cup References("sessions", "member_id", "members", "id", "cascade")))

\* 1e14a4e8ec0c: the owner is a member or a contact, never both.
StandesdbImagesExclusiveArc ==
  Migration(Swap(
    Integers("standesdb_images", {"owner_id"}) \cup Column("standesdb_images", {"owner_type"}, "text"),
    UNION { Integers("standesdb_images", {"owner_member_id", "owner_contact_id"}),
            References("standesdb_images", "owner_member_id", "members", "id", "cascade"),
            References("standesdb_images", "owner_contact_id", "contacts", "id", "cascade"),
            Check("standesdb_images", {"owner_exclusive_arc"}) }))

(***************************************************************************)
(* 514ac66eb66e: the same for the owners of a bank account and for the     *)
(* partner a transaction was delegated to.                                 *)
(***************************************************************************)
ArcColumn(t, c, ref, rule) ==
  Integers(t, {c}) \cup Index(t, {c}) \cup References(t, c, ref, "id", rule)

PartnersExclusiveArc ==
  Swap(UNION { Integers("p4x_partners", {"partner_id"}), Index("p4x_partners", {"partner_id"}),
               Column("p4x_partners", {"partner_type"}, "text") },
       UNION { ArcColumn("p4x_partners", "member_id", "members", "restrict"),
               ArcColumn("p4x_partners", "contact_id", "contacts", "restrict"),
               ArcColumn("p4x_partners", "p4x_account_id", "p4x_accounts", "restrict"),
               ArcColumn("p4x_partners", "p4x_specialcontact_id", "p4x_special_contacts", "restrict"),
               Check("p4x_partners", {"partner_exclusive_arc"}) })

DelegatingPartnerArc ==
  Swap(UNION { Integers("p4x_transactions", {"delegating_partner_id"}),
               Column("p4x_transactions", {"delegating_partner_type"}, "text"),
               Index("p4x_transactions", {"delegating_partner_id", "delegating_partner_type"}) },
       UNION { ArcColumn("p4x_transactions", "delegating_member_id", "members", "set null"),
               ArcColumn("p4x_transactions", "delegating_contact_id", "contacts", "set null"),
               ArcColumn("p4x_transactions", "delegating_p4x_account_id", "p4x_accounts", "set null"),
               ArcColumn("p4x_transactions", "delegating_p4x_specialcontact_id",
                         "p4x_special_contacts", "set null"),
               Check("p4x_transactions", {"delegating_partner_arc"}) })

P4xPartnersAndDelegatingPartner == Migration(PartnersExclusiveArc \oplus DelegatingPartnerArc)

\* ebc37d20860a
Dated(t, cs) == Retype(t, cs, "text", "date")
FlexibledateToNativeDate ==
  Migration(All({ Dated("members", MemberDates \cup {"p4x_init_date"}), Dated("contacts", {"datum"}),
                  Dated("badges_members", {"presentationdate"}),
                  Dated("keys_members", {"presentationdate"}),
                  Dated("members_roles", {"startdate", "enddate"}), Dated("p4x_fees", {"start"}),
                  Dated("p4x_accounts", {"init_date"}),
                  Dated("p4x_transactions", {"booking", "valuation"}),
                  Dated("p4x_summary_orders", {"summary_start", "summary_end"}) }))

\* 825f28b2896d
ImageHash == Unique("standesdb_images", {"sha256_hash+owner_member_id+owner_contact_id"})
TypeAndNamingFixes8a ==
  Migration(All({
    Retype("standesdb_images", {"default"}, "int", "boolean"),
    Add(NotNull("standesdb_images", {"default"}) \cup Default("standesdb_images", {"default"})
          \cup ImageHash),
    Swap(Column("p4x_transactions", {"sha256hash"}, "text"), Column("p4x_transactions", {"sha256_hash"}, "text")),
    Swap(Key("p4x_transactions", {"sha256hash"}), Key("p4x_transactions", {"sha256_hash"})),
    Swap(Named("badges_members", "members_badges"), Table("badges_members")),
    Swap(Named("keys_members", "members_keys"), Table("keys_members")),
    Swap(Named("p4x_special_contacts", "p4x_specialcontacts"), Table("p4x_special_contacts")) }))

\* 6f7ce9023e0e, 42df0f369b0b
Enumerated(t, c) == Retype(t, {c}, "text", "enum")
EnumConversions8b ==
  Migration(All({ Enumerated("badges", "group"), Enumerated("roles", "group"),
                  Enumerated("contacts", "kontakttyp"), Enumerated("p4x_category_filters", "subject_mode") }))
EnumConversions8c ==
  Migration(All({ Enumerated("members", "zustellungen"), Enumerated("members_logs", "action"),
                  Enumerated("contacts_logs", "action") }))

\* 20db5b81733c
P4xCategoryDirectsActiveUniqueIndex ==
  Migration(Add(Unique("p4x_category_directs", {"p4x_transaction_id+p4x_category_id"})))

\* aaee376c8a39 deletes log rows.
CleanupTechnicalChangelogKeys == NoSchemaChange

\* e838ebf8429a: a file holds its content itself instead of through versions.
FileVersionsByNow ==
  (BaselineFileVersions \ UNION {Plain("archive_file_versions", "archive_file_id", "archive_files"),
                                 Plain("archive_file_versions", "archive_store_item_id", "archive_store_items")})
    \cup UNION {References(r[1], r[2], r[3], "id", r[4]) :
                  r \in {q \in RulesOfArchiveAndContacts : q[1] = "archive_file_versions"}}

MergeArchiveFileVersions ==
  Migration(Swap(FileVersionsByNow,
    UNION { Integers("archive_files", {"archive_store_item_id"}),
            References("archive_files", "archive_store_item_id", "archive_store_items", "id", "restrict"),
            Column("archive_files", {"created_at", "updated_at"}, "tz"), Stamped("archive_files") }))

\* 323f0222d0b9
DropUnusedImportedColumns ==
  Migration(Del(Column("archive_store_items", {"original_name", "original_description"}, "text")
                  \cup Column("archive_store_items", {"backedup_at"}, "tz")))

\* 4424710ac2b0
RenamePersonalAccessTokensToSessions ==
  Migration(All({ Swap(Named("sessions", "personal_access_tokens"), Table("sessions")),
                  Swap(Column("sessions", {"name", "token"}, "text"), Column("sessions", {"jti"}, "text")),
                  Swap(Key("sessions", {"token"}), Key("sessions", {"jti"})) }))

\* cdaf57482264, 9f8ff3c10cb2
AddScheduledTaskRuns ==
  Migration(Add(UNION { Table("scheduled_task_runs"), Column("scheduled_task_runs", {"id"}, "uuid"),
                        Column("scheduled_task_runs", {"job_id"}, "text"),
                        Key("scheduled_task_runs", {"id"}),
                        Index("scheduled_task_runs", {"job_id+started_at"}),
                        Check("scheduled_task_runs", {"job_id", "exit_code"}),
                        Stamped("scheduled_task_runs") }))
ScheduledTaskRunsIdToAutoincrement == Migration(Retype("scheduled_task_runs", {"id"}, "uuid", "int"))

(***************************************************************************)
(* 85e63a22e9a7: the editable parts of the public site.                    *)
(***************************************************************************)
SiteTable(t, checks) == UNION {IntId(t), Check(t, checks), Stamped(t)}

SettingsAndTabsTables ==
  UNION { SiteTable("public_site_settings",
                    {"singleton", "heading", "gallery_heading", "calendar_id", "youtube_id"}),
          SiteTable("public_site_about_tabs", {"slot", "title", "body"}),
          Column("public_site_about_tabs", {"slot"}, "text"), Key("public_site_about_tabs", {"slot"}) }

OrderedSiteTables ==
  UNION { SiteTable("public_site_programm_hints", {"text"}),
          SiteTable("public_site_quotes", {"quote", "author"}),
          SiteTable("public_site_social_links", {"platform", "label", "url"}),
          Each(LAMBDA t : Index(t, {"sort_order"}),
               {"public_site_programm_hints", "public_site_quotes", "public_site_social_links"}) }

AddPublicSiteContentTables == Migration(Add(SettingsAndTabsTables \cup OrderedSiteTables))

\* 757b97f0fae4: one open request per member.
AddMemberChangeRequests ==
  Migration(Add(UNION {
    IntId("member_change_requests"),
    Integers("member_change_requests", {"member_id", "resolved_by"}),
    References("member_change_requests", "member_id", "members", "id", "cascade"),
    References("member_change_requests", "resolved_by", "members", "id", "set null"),
    Index("member_change_requests", {"member_id"}), Unique("member_change_requests", {"member_id"}),
    Check("member_change_requests", {"proposed_data_not_empty", "resolution_consistency"}),
    Stamped("member_change_requests") }))

\* 10efdd07c37e
Searchable(t) == Column(t, {"search_vector"}, "tsvector") \cup Index(t, {"search_vector"})
AddArchiveFullTextSearch ==
  Migration(Add(Each(Searchable, {"archive_dirs", "archive_store_items", "archive_files",
                                  "archive_file_comments"})))

(***************************************************************************)
(* ed7a7b858a9f: the extension in the transaction, its indexes without     *)
(* blocking writers, each on its own.                                      *)
(***************************************************************************)
AddArchivePgTrgmFuzzySearch ==
  LET build == << CreateIndex("archive_dirs", "name_trgm"),
                  CreateIndex("archive_dirs", "description_trgm"),
                  CreateIndex("archive_store_items", "name_trgm"),
                  CreateIndex("archive_store_items", "extension_trgm"),
                  CreateIndex("archive_files", "description_trgm"),
                  CreateIndex("archive_file_comments", "content_trgm") >>
  IN  [ up      |-> Ensure(Extension("pg_trgm")),
        online  |-> build,
        down    |-> Loose(Established(build) \cup Extension("pg_trgm")),
        offline |-> <<>> ]

\* 9618c2de197f: ADD COLUMN has no IF NOT EXISTS, CREATE INDEX has.
AddMemberContactFullTextSearch ==
  LET vectors == Each(LAMBDA t : Column(t, {"search_vector"}, "tsvector"), {"members", "contacts"})
      build == << CreateIndex("members", "search_vector"), CreateIndex("contacts", "search_vector") >>
  IN  [ up      |-> Add(vectors),
        online  |-> build,
        down    |-> Loose(vectors \cup Established(build)),
        offline |-> <<>> ]

\* 46e5c8d03b55: the extension stays when only this one is downgraded.
AddMemberContactPgTrgmFuzzySearch ==
  LET indexes == Index("members", {"vorname_trgm", "nachname_trgm", "couleurname_trgm"})
                   \cup Index("contacts", {"name_trgm", "couleurname_trgm"})
  IN  [Migration(Add(indexes) \oplus Ensure(Extension("pg_trgm"))) EXCEPT !.down = Loose(indexes)]
=============================================================================
