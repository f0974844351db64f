------------------------------ MODULE Handles ------------------------------
(***************************************************************************)
(* The handles of advanced/advanced.go and client.go: which operations of  *)
(* Endpoints each of them offers or uses, and the base URL it hands them.  *)
(***************************************************************************)
EXTENDS Endpoints

\* The hosts of rootURL, New's third argument, and of iamAdminURL, its fourth.
Root == "api"
IamAdmin == "iam"

\* A handle that passes the base URL root to the operations ops.
Handle(root, ops) == {[root |-> root, op |-> o] : o \in ops}

Some(ops, names) == {o \in ops : o.name \in names}

-----------------------------------------------------------------------------
(* advanced/advanced.go                                                    *)

AdvancedProjects == Handle(Root, ProjectOps \cup ProjectExtras)
AdvancedScans == Handle(Root, ScanOps)
AdvancedScanMetadata == Handle(Root, ScanMetadata)
AdvancedUploads == Handle(Root, UploadOps \cup Uploads)
AdvancedResults == Handle(Root, ResultOps)
AdvancedReports == Handle(Root, ReportOps)
AdvancedPolicies == Handle(Root, PolicyOps)

\* (mutant: the administration of groups is asked of the API host)
AdvancedGroupsMisdirected ==
    Handle(Root, GroupLookup \cup GroupQueries \cup GroupWrites \cup GroupRoles)

\* The look-up of a group is a service of the API host, the rest is IAM's.
AdvancedGroups ==
    Handle(Root, GroupLookup)
    \cup Handle(IamAdmin, GroupQueries \cup GroupWrites \cup GroupRoles)

AdvancedAccess == Handle(Root, AccessOps)
AdvancedAccessListings == Handle(Root, AccessListings)
AdvancedApplications == Handle(Root, ApplicationOps)
AdvancedLookups ==
    Handle(Root, FeatureFlagOps \cup SastMetadataOps \cup TenantOps \cup LogOps \cup BFLOps)
AdvancedPredicates == Handle(Root, PredicateOps \cup PredicateHistory)
AdvancedScanReports ==
    Handle(Root, ExportOps \cup ScanOverviewOps \cup RiskOps \cup TelemetryOps)
AdvancedUsers == Handle(IamAdmin, UserQueries \cup UserWrites \cup UserRoles)
AdvancedRoles == Handle(IamAdmin, RoleQueries \cup RoleComposites)
AdvancedClients == Handle(IamAdmin, ClientOps)
AdvancedAnalytics == Handle(Root, AnalyticsOps \cup AnalyticsStats)
AdvancedAudit == Handle(Root, AuditOps)
AdvancedAuditQueries == Handle(Root, AuditQueries)
AdvancedMigration == Handle(Root, MigrationOps \cup MigrationLogs)
AdvancedPlatform == Handle(Root, SCMOps \cup PresetManagerOps)

\* What Handle gives access to.
Advanced ==
    UNION {AdvancedProjects, AdvancedScans, AdvancedScanMetadata, AdvancedUploads,
           AdvancedResults, AdvancedReports, AdvancedPolicies, AdvancedGroups,
           AdvancedAccess, AdvancedAccessListings, AdvancedApplications,
           AdvancedLookups, AdvancedPredicates, AdvancedScanReports, AdvancedUsers,
           AdvancedRoles, AdvancedClients, AdvancedAnalytics, AdvancedAudit,
           AdvancedAuditQueries, AdvancedMigration, AdvancedPlatform}

-----------------------------------------------------------------------------
(* client.go: the workflow handles.                                        *)

ProjectsAndScans ==
    Handle(Root, Some(ProjectOps, {"List", "Get", "Create", "GetConfiguration", "GetBranches"})
                 \cup Some(ApplicationOps, {"List", "Create"})
                 \cup Some(ScanOps, {"Get", "Create"})
                 \cup Some(UploadOps \cup Uploads, {"GetPresignedURL", "PutFile"})
                 \cup Some(PresetOps, {"ListPresets", "GetPreset"})
                 \cup Some(ResultOps, {"Iter"}))

ResultsAndReports ==
    Handle(Root, Some(ResultOps, {"Iter"}) \cup ReportOps)

Provisioned ==
    Handle(IamAdmin, Some(GroupQueries \cup GroupWrites, {"ListAdmin", "CreateAdmin"})
                     \cup Some(UserQueries \cup UserWrites, {"List", "Count", "Create"})
                     \cup Some(RoleQueries \cup RoleComposites,
                               {"ListRealm", "ListClient", "GetComposites"})
                     \cup Some(ClientOps, {"List", "Create"}))

Watched ==
    Handle(Root, Some(AuditOps, {"KeepAlive", "DeleteSession", "GetRequestStatus"})
                 \cup Some(MigrationOps, {"Get"}))

\* Every operation a client offers, with the host it asks.
Entries ==
    UNION {Advanced, ProjectsAndScans, ResultsAndReports, Provisioned, Watched}
=============================================================================
