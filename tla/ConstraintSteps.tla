--------------------------- MODULE ConstraintSteps ---------------------------
(***************************************************************************)
(* The migrations after the move to UUIDs: indexes built without blocking  *)
(* writers, audit columns, defaults, and the rules that until then only    *)
(* the services kept.                                                      *)
(***************************************************************************)
EXTENDS IdentifierSteps

\* 82e7d38f8fa1
AboutTabSlotNativeEnum ==
  Migration(Enumerated("public_site_about_tabs", "slot") \oplus Del(Check("public_site_about_tabs", {"slot"})))

(***************************************************************************)
(* fdd134a00dd3, a1fbacf33990: nothing but CREATE INDEX CONCURRENTLY, and  *)
(* DROP INDEX CONCURRENTLY in the reverse order on the way down.           *)
(***************************************************************************)
Concurrently(tcs) ==
  [ up      |-> Nothing, online  |-> [i \in 1..Len(tcs) |-> CreateIndex(tcs[i][1], tcs[i][2])],
    down    |-> Nothing, offline |-> [i \in 1..Len(tcs) |-> LET r == tcs[Len(tcs) + 1 - i]
                                                            IN  DropIndex(r[1], r[2])] ]

IndexUncoveredFkColumns ==
  Concurrently(
    << <<"archive_file_comments", "archive_file_id">>, <<"archive_file_comments", "created_by">>,
       <<"archive_files", "archive_store_item_id">>, <<"archive_permissions", "archive_dir_id">>,
       <<"archive_permissions", "org_id">>, <<"archive_permissions", "state_id">>,
       <<"archive_store_items", "created_by">>, <<"badges_members", "badge_id">>,
       <<"contacts", "modified_by">>, <<"contacts", "org_id">>, <<"contacts_logs", "contact_id">>,
       <<"contacts_logs", "modified_by">>, <<"keys_members", "key_id">>,
       <<"member_change_requests", "resolved_by">>, <<"members", "modified_by">>,
       <<"members", "org_id">>, <<"members", "parent_id">>, <<"members", "state_id">>,
       <<"members_logs", "member_id">>, <<"members_logs", "modified_by">>,
       <<"members_roles", "role_id">>, <<"p4x_summary_orders", "ordered_by">>,
       <<"public_gallery_images", "created_by">>, <<"sessions", "member_id">>,
       <<"standesdb_images", "created_by">>, <<"standesdb_images", "owner_contact_id">>,
       <<"standesdb_images", "owner_member_id">> >>)

\* 40cd764a92e7
Audited(t) == Column(t, {"created_at", "updated_at"}, "tz") \cup Stamped(t)
AddMissingAuditColumns ==
  Migration(Add(Each(Audited, {"badges", "client_user_agents", "keys", "orgs", "p4x_fees",
                               "p4x_special_contacts", "roles", "states"})))

IndexSoftDeleteColumns ==
  Concurrently(
    << <<"archive_files", "deleted_at">>, <<"p4x_transactions", "deleted_at">>,
       <<"p4x_category_directs", "deleted_at">>, <<"archive_dirs", "deleted_at">>,
       <<"p4x_partners", "deleted_at">>, <<"standesdb_images", "deleted_at">>,
       <<"contacts", "deleted_at">>, <<"p4x_accounts", "deleted_at">>,
       <<"archive_file_comments", "deleted_at">> >>)

\* 3c528b0f621f, d2d135fcfb3f, d1700831c357 (only its ON UPDATE rule)
JobIdNativeEnum ==
  Migration(Enumerated("scheduled_task_runs", "job_id") \oplus Del(Check("scheduled_task_runs", {"job_id"})))
StartedFinishedCheck == Migration(Add(Check("scheduled_task_runs", {"started_finished"})))
GalleryCreatedByFkOnUpdate == NoSchemaChange

\* 8f0230673ae0, a835e7da4c4d
RequestLogsIdToUuidAndJsonb ==
  Migration(All({ CutId("request_logs"),
                  Retype("request_logs", {"client_ips", "request_input", "response_content"}, "text", "jsonb"),
                  Add(NotNull("request_logs", {"client_ips", "created_at"})
                        \cup Default("request_logs", {"created_at"})) }))
MembersAndContactsLogsIdToUuid == Migration(CutId("members_logs") \oplus CutId("contacts_logs"))

\* 830b5a670c5b: every UUID key gets its default from the server.
Uuidv7ServerSideIdDefaults ==
  Migration(Add(Each(LAMBDA t : Default(t, {"id"}),
    { "archive_dirs", "archive_file_comments", "archive_files", "archive_permissions",
      "archive_store_items", "badges", "client_user_agents", "contacts", "contacts_logs", "keys",
      "member_change_requests", "members", "members_logs", "members_oauth2bindings",
      "p4x_accounts", "p4x_categories", "p4x_category_directs", "p4x_category_filter_hits",
      "p4x_category_filters", "p4x_partners", "p4x_special_contacts", "p4x_summary_orders",
      "p4x_transactions", "public_gallery_images", "public_site_about_tabs",
      "public_site_programm_hints", "public_site_quotes", "public_site_social_links",
      "request_logs", "scheduled_task_runs", "sent_emails", "sessions", "standesdb_images" })))

\* 8ce175f5a713, 5a1c7e93b2d4
GalleryTimestampDefaults ==
  Migration(Add(Default("public_gallery_images", {"created_at", "updated_at"})))
BoundClientUserAgentLength == 
  Migration(Add(Check("client_user_agents", {"string"}) \cup Unvalidated("client_user_agents", {"string"})))

\* 6b2d8f04c3e5
Certain(t, cs) == NotNull(t, cs) \cup Default(t, cs)
OauthBindingIdentityConstraints ==
  Migration(All({ Enumerated("members_oauth2bindings", "provider"),
                  Del(Index("members_oauth2bindings", {"member_id"})),
                  Add(Key("members_oauth2bindings", {"member_id+provider", "provider+remote_id"})
                        \cup Certain("members_oauth2bindings", {"bound_at", "lastuse_at"})) }))

\* 7c3e9a15d4f6: a reset token belongs to a member and goes when the email changes.
SessionAndResetTokenIntegrity ==
  Migration(Swap(
    Column("password_reset_tokens", {"email", "token"}, "text") \cup Key("password_reset_tokens", {"email"}),
    UNION { Column("password_reset_tokens", {"id", "member_id"}, "uuid"),
            Column("password_reset_tokens", {"token_hash"}, "text"),
            Column("password_reset_tokens", {"updated_at"}, "tz"),
            Key("password_reset_tokens", {"id", "member_id"}),
            References("password_reset_tokens", "member_id", "members", "id", "cascade"),
            Certain("password_reset_tokens", {"created_at"}), Stamped("password_reset_tokens"),
            Routine("delete_password_reset_token_on_email_change"),
            Trigger("members", "email_change_delete_reset_token"),
            Certain("sessions", {"created_at", "updated_at", "last_used_at"}) }))

\* 8d4fab26e5a7 only rewrites the conditions of existing checks.
DateChecksWithoutTextCast == NoSchemaChange

\* 9e5abc37f6b8: an event is never changed or deleted afterwards.
RoleAssignmentEventsTable ==
  Migration(Add(UNION {
    Table("role_assignment_events"),
    Column("role_assignment_events", {"id", "member_id", "actor_id"}, "uuid"),
    Column("role_assignment_events", {"role_id"}, "text"), Key("role_assignment_events", {"id"}),
    References("role_assignment_events", "member_id", "members", "id", "restrict"),
    References("role_assignment_events", "actor_id", "members", "id", "restrict"),
    References("role_assignment_events", "role_id", "roles", "id", "restrict"),
    Index("role_assignment_events", {"member_id", "actor_id", "role_id", "created_at"}),
    Check("role_assignment_events", {"startdate_enddate"}), Stamped("role_assignment_events"),
    Routine("reject_role_assignment_event_change"),
    Trigger("role_assignment_events", "append_only") }))

\* b7e4a2c91d35
MemberFlagsNotNull ==
  Migration(Add(Certain("members", {"auth_locked", "chroniclemail", "entlassen", "gruender", "verstorben"})))

\* 9b4c2d6e1a73
P4xAccountFilterFeeConstraints ==
  Migration(Swap(Key("p4x_accounts", {"iban"}), Unique("p4x_accounts", {"trimmed(iban)"}))
    \oplus Add(Check("p4x_category_filters", {"criterion"}) \cup Check("p4x_fees", {"start_first_of_month"})))

\* 5c1d7e9a3b42
AuditColumnsAndUniqueness ==
  Migration(All({
    Add(Each(LAMBDA t : Certain(t, {"created_at"}),
          { "archive_dirs", "archive_file_comments", "archive_files", "archive_store_items", "contacts",
            "members", "p4x_accounts", "p4x_categories", "p4x_category_filter_hits",
            "p4x_category_filters", "p4x_partners", "p4x_summary_orders", "p4x_transactions",
            "sent_emails", "standesdb_images" })),
    Add(Default("contacts_logs", {"modified_at"}) \cup Default("members_logs", {"modified_at"})),
    Add(Key("archive_permissions", {"archive_dir_id+org_id+state_id"})),
    Swap(Key("contacts", {"name"}), Unique("contacts", {"lower(name)"})) }))

\* 7a3e91c4d5f8
MemberEmailCaseParentCycle ==
  Migration(Swap(Key("members", {"email"}), Unique("members", {"lower(email)"}) \cup Index("members", {"email"}))
    \oplus Add(UNION { Check("members", {"parent_not_self"}), Routine("members_prevent_parent_cycle"),
                       Trigger("members", "parent_cycle") }))

\* c3e5a7f9b1d2, d8f2a4c6e0b1
PublicContentChecks ==
  Migration(Add(NotNull("p4x_special_contacts", {"cn"})
                  \cup Check("public_gallery_images", {"content_type", "extension"})))
RequiredCommentBadgeDescription ==
  Migration(Add(UNION { Check("archive_dirs", {"description"}), Check("archive_files", {"description"}),
                        NotNull("archive_file_comments", {"content"}), NotNull("badges", {"name"}) }))

\* e1b3c5d7f9a2: deferred to the commit, from both sides.
P4xCategoryDirectSum ==
  Migration(Add(UNION { Routine("p4x_assert_category_direct_sum"),
                        Routine("p4x_category_directs_check_sum"),
                        Routine("p4x_transactions_check_direct_sum"),
                        Trigger("p4x_category_directs", "sum"),
                        Trigger("p4x_transactions", "direct_sum") }))

\* e7a9c1b3d5f6: one hash and one default image per owner.
ImageUniquenessLogIndexesTextChecks ==
  Migration(All({
    Swap(ImageHash, Unique("standesdb_images", {"sha256_hash+owner_member_id",
           "sha256_hash+owner_contact_id", "owner_member_id", "owner_contact_id"})),
    Swap(Index("request_logs", {"member_id"}), Index("request_logs", {"created_at", "member_id+created_at"})),
    Add(Index("sent_emails", {"created_at"})) }))

\* b7d2f4a91c3e, 3871dffffdd0
P4xCategoryDirectsAuditColumns == Migration(Add(Audited("p4x_category_directs")))
ImagesDefaultToIsDefault ==
  Migration(Swap(Column("standesdb_images", {"default"}, "boolean") \cup Certain("standesdb_images", {"default"}),
                 Column("standesdb_images", {"is_default"}, "boolean")))

\* 30f721a1412a
ReferenceTablesOrderToSortOrder ==
  Migration(All({ Swap(Integers(t, {"order"}) \cup Check(t, {"order"}),
                       Integers(t, {"sort_order"}) \cup Check(t, {"sort_order"})) :
                  t \in {"badges", "orgs", "roles", "states"} }))

\* d5f7b9c1e3a4
DropUnusedSummaryOrders ==
  Migration(Del(UNION {
    Table("p4x_summary_orders"), Column("p4x_summary_orders", {"id", "ordered_by"}, "uuid"),
    Column("p4x_summary_orders", {"summary_start", "summary_end"}, "date"),
    Column("p4x_summary_orders", {"created_at", "updated_at", "started_at", "finished_at"}, "tz"),
    Key("p4x_summary_orders", {"id"}), Default("p4x_summary_orders", {"id"}),
    Certain("p4x_summary_orders", {"created_at"}), Index("p4x_summary_orders", {"ordered_by"}),
    References("p4x_summary_orders", "ordered_by", "members", "id", "cascade"),
    Check("p4x_summary_orders", {"summary_start_end"}), Stamped("p4x_summary_orders") }))

(***************************************************************************)
(* The chain of down_revision links, oldest first.                         *)
(***************************************************************************)
AllSteps ==
  << InitialBaseline, AddPublicGalleryImages, SchemaBaseline, FkOndeleteOnupdate,
     TimestampToTimestamptz, UpdatedAtTrigger, CheckConstraints, MoneyColumnsToNumeric,
     PersonalAccessTokensRealFk, StandesdbImagesExclusiveArc, P4xPartnersAndDelegatingPartner,
     FlexibledateToNativeDate, TypeAndNamingFixes8a, EnumConversions8b, EnumConversions8c,
     P4xCategoryDirectsActiveUniqueIndex, CleanupTechnicalChangelogKeys, MergeArchiveFileVersions,
     DropUnusedImportedColumns, RenamePersonalAccessTokensToSessions, AddScheduledTaskRuns,
     ScheduledTaskRunsIdToAutoincrement, AddPublicSiteContentTables, AddMemberChangeRequests,
     AddArchiveFullTextSearch, AddArchivePgTrgmFuzzySearch, AddMemberContactFullTextSearch,
     AddMemberContactPgTrgmFuzzySearch, SocialLinksIdToUuid, PublicSiteContentIdsToUuid,
     PublicSiteSettingsIdToUuid, SentEmailsAndScheduledTaskRunsIds, MembersAndClientUserAgentsPhaseA,
     ContactsPhaseA, ArchiveDirsPhaseA, ArchiveStoreItemsPhaseAAndFk, BadgesAndKeysPhaseA,
     P4xAccountsPhaseA, CategoriesAndSpecialContactsPhaseA, SessionsBindingsOrdersGalleryCutover,
     MemberChangeRequestsCutover, BadgesKeysAndRolesOfMembersCutover, ArchiveFilesPhaseAAndPermissions,
     P4xPartnersCutover, P4xCategoryFiltersCutover, P4xTransactionsCutover, LogsModifiedBy,
     RequestLogsAndClientUserAgentsCutover, StandesdbImagesCutover, ArchiveFileCommentsCutover,
     StoreItemsBadgesKeysFinal, ArchiveFilesFinal, DirectsAndFilterHitsCutover,
     CategoriesAndSpecialContactsFinal, FiltersAndTransactionsFinal, ArchiveDirsFinal, P4xAccountsFinal,
     ContactsFinal, MembersFinal, ArchivePermissionsOrgStateFk, RenameStaleIdUuidNotNull,
     DropRedundantPkIndexes, FixSpecialContactFkColumnNaming, AboutTabSlotNativeEnum,
     IndexUncoveredFkColumns, AddMissingAuditColumns, IndexSoftDeleteColumns, JobIdNativeEnum,
     StartedFinishedCheck, GalleryCreatedByFkOnUpdate, RequestLogsIdToUuidAndJsonb,
     MembersAndContactsLogsIdToUuid, Uuidv7ServerSideIdDefaults, GalleryTimestampDefaults,
     BoundClientUserAgentLength, OauthBindingIdentityConstraints, SessionAndResetTokenIntegrity,
     DateChecksWithoutTextCast, RoleAssignmentEventsTable, MemberFlagsNotNull,
     P4xAccountFilterFeeConstraints, AuditColumnsAndUniqueness, MemberEmailCaseParentCycle,
     PublicContentChecks, RequiredCommentBadgeDescription, P4xCategoryDirectSum,
     ImageUniquenessLogIndexesTextChecks, P4xCategoryDirectsAuditColumns, ImagesDefaultToIsDefault,
     ReferenceTablesOrderToSortOrder, DropUnusedSummaryOrders >>
=============================================================================
