--------------------------- MODULE IdentifierSteps ---------------------------
(***************************************************************************)
(* The migrations that replace the integer keys by UUIDs.  A table other   *)
(* tables refer to goes through three of them: phase A adds id_uuid beside *)
(* id, cutovers move the references over to it one table at a time, and a  *)
(* final cutover drops id and renames id_uuid, re-pointing every reference *)
(* made in between.                                                        *)
(***************************************************************************)
EXTENDS BaselineSteps

(***************************************************************************)
(* Where each moved reference points and what deleting the row does.       *)
(***************************************************************************)
Links ==
  RulesOfArchiveAndContacts \cup RulesOfMembers \cup RulesOfAccounting \cup
  { <<"sessions", "member_id", "members", "cascade">>,
    <<"public_gallery_images", "created_by", "members", "set null">>,
    <<"member_change_requests", "member_id", "members", "cascade">>,
    <<"member_change_requests", "resolved_by", "members", "set null">>,
    <<"archive_files", "archive_store_item_id", "archive_store_items", "restrict">>,
    <<"archive_files", "archive_dir_id", "archive_dirs", "restrict">>,
    <<"archive_dirs", "archive_dir_id", "archive_dirs", "restrict">>,
    <<"p4x_partners", "member_id", "members", "restrict">>,
    <<"p4x_partners", "contact_id", "contacts", "restrict">>,
    <<"p4x_partners", "p4x_account_id", "p4x_accounts", "restrict">>,
    <<"p4x_partners", "p4x_specialcontact_id", "p4x_special_contacts", "restrict">>,
    <<"p4x_transactions", "delegating_member_id", "members", "set null">>,
    <<"p4x_transactions", "delegating_contact_id", "contacts", "set null">>,
    <<"p4x_transactions", "delegating_p4x_account_id", "p4x_accounts", "set null">>,
    <<"p4x_transactions", "delegating_p4x_specialcontact_id", "p4x_special_contacts", "set null">>,
    <<"contacts_logs", "modified_by", "members", "set null">>,
    <<"members_logs", "modified_by", "members", "set null">>,
    <<"contacts", "modified_by", "members", "set null">>,
    <<"members", "modified_by", "members", "set null">>,
    <<"request_logs", "client_user_agent_id", "client_user_agents", "set null">>,
    <<"request_logs", "member_id", "members", "set null">>,
    <<"standesdb_images", "owner_member_id", "members", "cascade">>,
    <<"standesdb_images", "owner_contact_id", "contacts", "cascade">>,
    <<"standesdb_images", "created_by", "members", "set null">> }

\* The reference of column c of table t, to column "to" of the table it names.
Refers(t, c, to) ==
  UNION {References(t, c, l[3], to, l[4]) : l \in {k \in Links : k[1] = t /\ k[2] = c}}

\* id becomes a UUID at once: nothing refers to the table.
CutId(t) == Retype(t, {"id"}, "int", "uuid") \oplus Add(StaleName(t))

\* Phase A: a unique id_uuid beside id.
PhaseA(t) == Add(Column(t, {"id_uuid"}, "uuid") \cup Key(t, {"id_uuid"}) \cup StaleName(t))

\* A column moved to UUIDs, with a reference to id_uuid; one that had none gets it.
Move(t, c)  == Retype(t, {c}, "int", "uuid") \oplus Swap(Refers(t, c, "id"), Refers(t, c, "id_uuid"))
MoveAndRefer(t, c, to) == Retype(t, {c}, "int", "uuid") \oplus Add(Refers(t, c, to))
Moves(t, cs) == All({Move(t, c) : c \in cs})

\* The final cutover of t, and the references it takes along.
Final(t) == Swap(Column(t, {"id"}, "int") \cup Column(t, {"id_uuid"}, "uuid") \cup Key(t, {"id_uuid"}),
                 Column(t, {"id"}, "uuid"))
Point(t, c)   == Swap(Refers(t, c, "id_uuid"), Refers(t, c, "id"))
Points(tcs)   == All({Point(r[1], r[2]) : r \in tcs})

\* 61330e9e0ca8, ad4d9aeff7b8, 5c9769a76def
SocialLinksIdToUuid == Migration(CutId("public_site_social_links"))
PublicSiteContentIdsToUuid ==
  Migration(All({CutId(t) : t \in {"public_site_programm_hints", "public_site_quotes",
                                   "public_site_about_tabs"}}))
PublicSiteSettingsIdToUuid == Migration(CutId("public_site_settings"))

\* 22fc473b0891: the index goes with the column and does not come back.
SentEmailsAndScheduledTaskRunsIds ==
  Migration(All({CutId("sent_emails"), CutId("scheduled_task_runs"), Loose(Index("sent_emails", {"id"}))}))

\* a908d5613d52 ... a67f0d2a4c5e
MembersAndClientUserAgentsPhaseA == Migration(PhaseA("members") \oplus PhaseA("client_user_agents"))
ContactsPhaseA    == Migration(PhaseA("contacts"))
ArchiveDirsPhaseA == Migration(PhaseA("archive_dirs"))
ArchiveStoreItemsPhaseAAndFk ==
  Migration(PhaseA("archive_store_items") \oplus Move("archive_store_items", "created_by"))
BadgesAndKeysPhaseA == Migration(PhaseA("badges") \oplus PhaseA("keys"))
P4xAccountsPhaseA   == Migration(PhaseA("p4x_accounts"))
CategoriesAndSpecialContactsPhaseA ==
  Migration(PhaseA("p4x_categories") \oplus PhaseA("p4x_special_contacts"))

\* bc095b5fb813
SessionsBindingsOrdersGalleryCutover ==
  Migration(All({ CutId("sessions"), CutId("members_oauth2bindings"), CutId("p4x_summary_orders"),
                  Loose(Index("sessions", {"id"}) \cup Index("members_oauth2bindings", {"id"})),
                  Move("sessions", "member_id"), Move("members_oauth2bindings", "member_id"),
                  Move("p4x_summary_orders", "ordered_by"), Move("public_gallery_images", "created_by") }))

\* ec1af5390d0c
MemberChangeRequestsCutover ==
  Migration(CutId("member_change_requests") \oplus Moves("member_change_requests", {"member_id", "resolved_by"}))

\* 191cba0a57bd
BadgesKeysAndRolesOfMembersCutover ==
  Migration(All({ Moves("badges_members", {"badge_id", "member_id"}),
                  Moves("keys_members", {"key_id", "member_id"}), Move("members_roles", "member_id") }))

\* 673aa46dc3b3
ArchiveFilesPhaseAAndPermissions ==
  Migration(All({ PhaseA("archive_files"), Move("archive_files", "archive_store_item_id"),
                  CutId("archive_permissions"), Move("archive_permissions", "archive_dir_id") }))

\* ddc0a9d04eef, d6443ece80ad
P4xPartnersCutover ==
  Migration(CutId("p4x_partners")
    \oplus Moves("p4x_partners", {"member_id", "contact_id", "p4x_account_id", "p4x_specialcontact_id"}))
P4xCategoryFiltersCutover ==
  Migration(PhaseA("p4x_category_filters")
    \oplus Moves("p4x_category_filters", {"p4x_account_id", "p4x_category_id"}))

\* c963591a4c7a: p4x_account_id is NOT NULL too and keeps the old constraint name.
P4xTransactionsCutover ==
  Migration(All({ PhaseA("p4x_transactions"),
    Moves("p4x_transactions", {"p4x_account_id", "delegating_member_id", "delegating_contact_id",
                               "delegating_p4x_account_id", "delegating_p4x_specialcontact_id"}),
    Add({<<"p4x_transactions", "name", "p4x_account_id_uuid">>}) }))

\* 267386fa75f3: columns that had no reference before.
LogsModifiedBy ==
  Migration(MoveAndRefer("contacts_logs", "modified_by", "id_uuid")
    \oplus MoveAndRefer("members_logs", "modified_by", "id_uuid"))

\* e186839a1e80
RequestLogsAndClientUserAgentsCutover ==
  Migration(All({ Final("client_user_agents"), Del(Index("client_user_agents", {"id"})),
                  MoveAndRefer("request_logs", "client_user_agent_id", "id"),
                  MoveAndRefer("request_logs", "member_id", "id_uuid"),
                  Add(Index("request_logs", {"client_user_agent_id", "member_id"})) }))

\* 2de017d723c6
StandesdbImagesCutover ==
  Migration(All({ CutId("standesdb_images"), Del(Index("standesdb_images", {"id"})),
                  Moves("standesdb_images", {"owner_member_id", "owner_contact_id"}),
                  MoveAndRefer("standesdb_images", "created_by", "id_uuid") }))

\* dd8661641df7
ArchiveFileCommentsCutover ==
  Migration(CutId("archive_file_comments")
    \oplus Moves("archive_file_comments", {"archive_file_id", "created_by"}))

\* 03c2395ca34e, 115c679b7348
StoreItemsBadgesKeysFinal ==
  Migration(All({ Final("archive_store_items"), Final("badges"), Final("keys"),
                  Points({<<"archive_files", "archive_store_item_id">>,
                          <<"badges_members", "badge_id">>, <<"keys_members", "key_id">>}) }))
ArchiveFilesFinal ==
  Migration(Final("archive_files") \oplus Point("archive_file_comments", "archive_file_id"))

\* f4d8080a373f
DirectsAndFilterHitsCutover ==
  Migration(All({ CutId("p4x_category_directs"), CutId("p4x_category_filter_hits"),
                  Moves("p4x_category_directs", {"p4x_category_id", "p4x_transaction_id"}),
                  Moves("p4x_category_filter_hits", {"p4x_category_filter_id", "p4x_transaction_id"}) }))

\* a94438173fe9, 59abc303eb28
CategoriesAndSpecialContactsFinal ==
  Migration(All({ Final("p4x_categories"), Final("p4x_special_contacts"),
                  Points({<<"p4x_category_directs", "p4x_category_id">>,
                          <<"p4x_category_filters", "p4x_category_id">>,
                          <<"p4x_partners", "p4x_specialcontact_id">>,
                          <<"p4x_transactions", "delegating_p4x_specialcontact_id">>}) }))
FiltersAndTransactionsFinal ==
  Migration(All({ Final("p4x_category_filters"), Final("p4x_transactions"),
                  Points({<<"p4x_category_directs", "p4x_transaction_id">>,
                          <<"p4x_category_filter_hits", "p4x_transaction_id">>,
                          <<"p4x_category_filter_hits", "p4x_category_filter_id">>}) }))

\* 2727a9187d6e: the parent of a directory becomes a real reference, 0 no longer means the root.
ArchiveDirsFinal ==
  Migration(All({ Final("archive_dirs"), Point("archive_permissions", "archive_dir_id"),
                  All({ All({ MoveAndRefer(t, "archive_dir_id", "id"), Del(Check(t, {"archive_dir_id"})),
                              Add(Index(t, {"archive_dir_id"})) }) :
                        t \in {"archive_dirs", "archive_files"} }) }))

\* bfe999a46f89
P4xAccountsFinal ==
  Migration(Final("p4x_accounts")
    \oplus Points({<<"p4x_category_filters", "p4x_account_id">>, <<"p4x_partners", "p4x_account_id">>,
                   <<"p4x_transactions", "p4x_account_id">>,
                   <<"p4x_transactions", "delegating_p4x_account_id">>}))

\* 3f82fd850390: the log still refers to id, and its column is retyped with it.
ContactsFinal ==
  Migration(All({ Final("contacts"), Loose(Index("contacts", {"id"})),
                  Retype("contacts_logs", {"contact_id"}, "int", "uuid"),
                  MoveAndRefer("contacts", "modified_by", "id_uuid"),
                  Points({<<"p4x_partners", "contact_id">>, <<"p4x_transactions", "delegating_contact_id">>,
                          <<"standesdb_images", "owner_contact_id">>}) }))

(***************************************************************************)
(* e097221b6c5f: the members, last, with every reference to them.          *)
(***************************************************************************)
ReferencesToMembers ==
  { <<"archive_file_comments", "created_by">>, <<"archive_store_items", "created_by">>,
    <<"badges_members", "member_id">>, <<"contacts", "modified_by">>,
    <<"contacts_logs", "modified_by">>, <<"keys_members", "member_id">>,
    <<"member_change_requests", "member_id">>, <<"member_change_requests", "resolved_by">>,
    <<"members_logs", "modified_by">>, <<"members_oauth2bindings", "member_id">>,
    <<"members_roles", "member_id">>, <<"p4x_partners", "member_id">>,
    <<"p4x_summary_orders", "ordered_by">>, <<"p4x_transactions", "delegating_member_id">>,
    <<"public_gallery_images", "created_by">>, <<"request_logs", "member_id">>,
    <<"sessions", "member_id">>, <<"standesdb_images", "owner_member_id">>,
    <<"standesdb_images", "created_by">> }

MembersFinal ==
  Migration(All({ Final("members"), Loose(Index("members", {"id"})), Points(ReferencesToMembers),
                  Retype("members_logs", {"member_id"}, "int", "uuid"),
                  Retype("members", {"parent_id"}, "int", "uuid"),
                  MoveAndRefer("members", "modified_by", "id") }))

\* ce00727a65e4
ArchivePermissionsOrgStateFk ==
  Migration(Add(References("archive_permissions", "org_id", "orgs", "id", "restrict")
                  \cup References("archive_permissions", "state_id", "states", "id", "restrict")))

\* a6af1c272f2c: the NOT NULL constraints still named after id_uuid.
RenameStaleIdUuidNotNull ==
  Migration(Del(Each(StaleName,
      { "archive_dirs", "archive_file_comments", "archive_files", "archive_permissions",
        "archive_store_items", "badges", "client_user_agents", "contacts", "keys",
        "member_change_requests", "members", "members_oauth2bindings", "p4x_accounts",
        "p4x_categories", "p4x_category_directs", "p4x_category_filter_hits",
        "p4x_category_filters", "p4x_partners", "p4x_special_contacts", "p4x_summary_orders",
        "p4x_transactions", "public_site_about_tabs", "public_site_programm_hints",
        "public_site_quotes", "public_site_settings", "public_site_social_links",
        "scheduled_task_runs", "sent_emails", "sessions", "standesdb_images" })
    \cup {<<"p4x_transactions", "name", "p4x_account_id_uuid">>}))

\* 4ec3e7fa9cfd
DropRedundantPkIndexes ==
  Migration(Loose(Index("password_reset_tokens", {"email"}) \cup Index("request_logs", {"id"})))

\* fe2d67d0309b
RenamedReference(t, c, rule) ==
  UNION {Column(t, {c}, "uuid"), Index(t, {c}), References(t, c, "p4x_special_contacts", "id", rule)}
FixSpecialContactFkColumnNaming ==
  Migration(Swap(RenamedReference("p4x_partners", "p4x_specialcontact_id", "restrict")
                   \cup RenamedReference("p4x_transactions", "delegating_p4x_specialcontact_id", "set null"),
                 RenamedReference("p4x_partners", "p4x_special_contact_id", "restrict")
                   \cup RenamedReference("p4x_transactions", "delegating_p4x_special_contact_id", "set null")))
=============================================================================
