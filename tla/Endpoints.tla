----------------------------- MODULE Endpoints -----------------------------
(***************************************************************************)
(* The operations of internal/endpoints and what binds them to a host: the *)
(* handles of advanced/advanced.go and of client.go.                       *)
(*                                                                         *)
(* An operation is a list of requests, made one after the other.  Of a     *)
(* request matters which arguments it checks first, its method, the        *)
(* statuses it expects, what it makes of the answer's body, and whether it *)
(* goes through the funnel.  Paths, queries and the fields of bodies are   *)
(* left out.                                                               *)
(***************************************************************************)
EXTENDS Integers, Sequences

GET == "GET"
POST == "POST"
PUT == "PUT"
PATCH == "PATCH"
DELETE == "DELETE"

\* The statuses of the model: carried out, redirected, not carried out.
Done == {200, 201, 202, 204}
Refusals == {304, 400, 404, 409}
AnyStatus == Done \cup Refusals \cup {302}

\* What becomes of the body: nothing, a value (an empty body leaves it zero), a
\* value an empty body is no instance of, text, a stream, or no body but the
\* Location header.
Outs == {"none", "value", "strict", "text", "stream", "location"}

Req(method, ok, out, needs) ==
    [method |-> method, ok |-> ok, out |-> out, needs |-> needs, funnel |-> TRUE]

\* A request made with the http.Client itself.
Outside(req) == [req EXCEPT !.funnel = FALSE]

Op(name, reqs) == [name |-> name, home |-> "api", reqs |-> reqs]

\* Operations of one request each.
Ops(names, method, ok, out, needs) ==
    {Op(n, <<Req(method, ok, out, needs)>>) : n \in names}
Gets(names, needs) == Ops(names, GET, {200}, "value", needs)
Deletes(names, needs) == Ops(names, DELETE, {204, 200}, "none", needs)

\* The operations of the IAM service.
Iam(ops) == {[o EXCEPT !.home = "iam"] : o \in ops}

-----------------------------------------------------------------------------
(* The services behind the API host.  Iter asks for its pages with List and *)
(* is Pagination's.                                                         *)

ProjectOps ==
    Gets({"List", "Iter", "Get", "GetBranches", "Tags", "GetConfiguration"}, {})
    \cup Ops({"Create"}, POST, {201}, "value", {})
    \cup Ops({"Update"}, PUT, {204}, "none", {})
    \cup Ops({"Delete"}, DELETE, {204}, "none", {})
    \cup Ops({"UpdateConfiguration"}, PATCH, {204}, "none", {})

ProjectExtras ==
    Gets({"Count"}, {})
    \cup Ops({"Patch"}, PATCH, {204, 200}, "none", {})
    \cup Ops({"SetConfigurationKey"}, PATCH, {204}, "none", {})
    \cup Ops({"AssignApplicationsDirect"}, POST, {201, 200, 204}, "none", {})
    \cup Deletes({"RemoveApplicationsDirect"}, {})
    \cup Ops({"MoveApplications"}, PUT, {204, 200}, "none", {"projectID"})

ScanOps ==
    Gets({"List", "Iter", "Get", "GetWorkflow", "Tags"}, {})
    \cup Ops({"Create"}, POST, {201}, "value", {})
    \cup Ops({"Cancel"}, PATCH, {204}, "none", {})
    \cup Ops({"Delete"}, DELETE, {204}, "none", {})

ScanMetadata == Gets({"GetConfiguration", "GetSummary", "GetSASTAggregate"}, {})

\* An answer without a URL is an error.
Presign == Req(POST, {200}, "strict", {})

UploadOps == {Op("GetPresignedURL", <<Presign>>)}

\* PutFile: sent once, to the object store.
PutFile == Outside(Req(PUT, Done, "none", {"httpClient", "presignedURL", "body", "size"}))

\* UploadFromReader looks at its arguments when it has the URL.
Uploads ==
    {Op("PutFile", <<PutFile>>),
     Op("UploadFromReader",
        <<Presign, [PutFile EXCEPT !.needs = {"httpClient", "body", "size"}]>>)}

ResultOps == Gets({"List", "Iter"}, {})

ReportOps ==
    Ops({"CreateJSON", "CreatePDF"}, POST, {202}, "value", {})
    \cup Gets({"PollJSON", "PollPDF"}, {})
    \cup Ops({"DownloadJSON", "DownloadPDF"}, GET, {200}, "stream", {})

PolicyOps ==
    Gets({"Evaluate", "List", "CountFiltered", "ListViolations", "CountViolationsFiltered"}, {})
    \cup Gets({"GetViolationDetails"}, {"projectID/scanID"})
    \cup Ops({"AssignToProjects"}, POST, {200, 201, 204}, "none", {"policyID"})

GroupLookup == Gets({"List"}, {"tenant"})

AccessOps ==
    Ops({"CreateAssignment"}, POST, {201}, "none", {})
    \cup Gets({"EntitiesFor", "HasAccess", "AccessibleResources"}, {})
    \cup Gets({"GetAssignment"}, {"entityID/resourceID"})
    \cup Gets({"ResourcesFor"}, {"entityID/entityType"})
    \cup Deletes({"DeleteAssignment"}, {"entityID/resourceID"})

AccessListings ==
    Gets({"GetMyGroups", "GetAvailableGroups", "ListAMGroups", "ListAMUsers",
          "ListAMClients", "ListAMApplications", "ListAMProjects",
          "ListPermissions", "ListAMRoles"}, {})

ApplicationOps ==
    Gets({"List", "Iter", "Get", "Count"}, {})
    \cup Ops({"Create"}, POST, {201, 200}, "value", {"application.Name"})
    \cup Ops({"AssociateProjects"}, POST, {201}, "none", {})
    \cup Ops({"Update"}, PUT, {204}, "none", {})
    \cup Ops({"Patch"}, PATCH, {204, 200}, "none", {})
    \cup Ops({"AssignProjectsDirect"}, POST, {201, 200, 204}, "none", {})
    \cup Deletes({"Delete", "RemoveProjectsDirect"}, {})

FeatureFlagOps == Gets({"List", "Get"}, {})
SastMetadataOps == Gets({"List"}, {})
TenantOps == Gets({"GetConfiguration"}, {})
LogOps == Ops({"Get"}, GET, {200}, "text", {})
BFLOps == Gets({"Get"}, {})

\* A predicate that is in force already counts as set.
PredicateOps ==
    Gets({"GetSAST", "GetKICS", "GetSCS", "ListCustomStates"}, {})
    \cup Ops({"UpdateSAST", "UpdateKICS", "UpdateSCS", "UpdateSCA"}, POST,
             {200, 201, 304}, "none", {})
    \cup Ops({"CreateCustomState"}, POST, {201, 200}, "value", {"name"})
    \cup Deletes({"DeleteCustomState"}, {"stateID"})

PredicateHistory ==
    Gets({"GetSASTLatest", "GetSASTWithScan"}, {"similarityID"})
    \cup Gets({"GetChangeHistory"}, {"entityType/entityID"})

ExportOps ==
    Ops({"Create"}, POST, {202}, "value", {})
    \cup Gets({"Poll"}, {})
    \cup Ops({"Download"}, GET, {200}, "stream", {})

ScanOverviewOps == Gets({"Get"}, {})
RiskOps == Gets({"GetRiskManagement", "GetAPISecOverview", "ListAPISecRisks"}, {})
TelemetryOps == Ops({"LogAIEvent"}, POST, {200}, "none", {})

\* The typed KPIs unmarshal the answer once more, which fails when it is empty.
AnalyticsOps ==
    Ops({"Fetch"}, POST, {200}, "value", {"kpi"})
    \cup Ops({"GetVulnerabilitiesBySeverityTotal", "GetVulnerabilitiesByStateTotal",
              "GetVulnerabilitiesByStatusTotal", "GetVulnerabilitiesBySeverityAndStateTotal",
              "GetVulnerabilitiesByAgingTotal", "GetVulnerabilitiesBySeverityOvertime",
              "GetFixedVulnerabilitiesBySeverityOvertime"}, POST, {200}, "strict", {})

AnalyticsStats ==
    Ops({"GetMeanTimeToResolution", "GetMostCommonVulnerabilities",
         "GetMostAgingVulnerabilities", "GetAllVulnerabilities", "GetIDETotal",
         "GetIDEOverTime"}, POST, {200}, "strict", {})

AuditOps ==
    Ops({"CreateSession"}, POST, {200, 201}, "value", {"request.Scanner"})
    \cup Deletes({"DeleteSession"}, {"sessionID"})
    \cup Ops({"KeepAlive"}, PATCH, {200, 204}, "none", {"sessionID"})
    \cup Gets({"GetRequestStatus"}, {"sessionID/requestID"})
    \cup Gets({"GetScanSources"}, {"sessionID"})
    \cup Ops({"RunScan"}, POST, {200, 202, 204}, "none", {"sessionID"})

AuditQueries ==
    Gets({"GetSASTQueries", "GetIACQueries", "GetQueryTree"}, {"sessionID"})
    \cup Deletes({"DeleteQueryOverride"}, {"sessionID/queryKey"})
    \cup Ops({"CreateQueryOverride"}, POST, {200, 201, 204}, "none", {"sessionID"})
    \cup Ops({"UpdateQuerySource"}, POST, {200, 201, 204}, "value", {"sessionID/queryKey"})
    \cup Ops({"UpdateQueryMetadata"}, PUT, {200, 204}, "none", {"sessionID/queryKey"})
    \cup Ops({"ValidateQuerySource", "RunQuery"}, POST, {200}, "value", {"sessionID"})

MigrationOps ==
    Ops({"StartImport"}, POST, {201, 200}, "value", {"fileName", "encryptionKey"})
    \cup Gets({"List"}, {}) \cup Gets({"Get"}, {"importID"})

\* GetLogs looks only at the Location of the first answer, whatever its status.
MigrationLogs ==
    {Op("GetLogs", <<Req(GET, AnyStatus, "location", {"importID", "httpClient"}),
                     Outside(Req(GET, Done, "text", {}))>>)}

SCMOps == Gets({"ListIntegrations"}, {}) \cup Gets({"GetRepository"}, {"repositoryID"})

PresetManagerOps ==
    Gets({"ListPresets", "ListQueryFamilies"}, {"engine"})
    \cup Gets({"GetPreset"}, {"engine/presetID"})
    \cup Gets({"SearchPreset"}, {"engine/name"})
    \cup Gets({"GetSASTQueryFamilyContents", "GetIACQueryFamilyContents"}, {"family"})
    \cup Ops({"CreatePreset"}, POST, {201, 200}, "value", {"engine/preset.Name"})
    \cup Ops({"UpdatePreset"}, PUT, {204, 200}, "none", {"engine/presetID"})
    \cup Deletes({"DeletePreset"}, {"engine/presetID"})

PresetOps == Gets({"ListPresets", "GetPreset", "ListQueries"}, {})

-----------------------------------------------------------------------------
(* The IAM service.                                                        *)

\* createAndExtractID: the new object is known by the Location alone.
GroupPost == Req(POST, {201, 200}, "location", {"group.Name"})
UserPost == Req(POST, {201, 200}, "location", {"user"})

Get == Req(GET, {200}, "value", {})
Update == Req(PUT, {204, 200}, "none", {})

GroupQueries ==
    Iam(Gets({"ListAdmin", "Count"}, {})
        \cup Gets({"GetByID", "GetChildren"}, {"groupID"})
        \cup Gets({"GetByPath"}, {"path"}))

GroupWrites ==
    Iam({Op("CreateAdmin", <<GroupPost, Get>>)}
        \cup Ops({"CreateChild"}, POST, {201, 200}, "value", {"parentID", "group.Name"})
        \cup Ops({"UpdateAdmin"}, PUT, {204, 200}, "none", {"group.ID"})
        \cup Deletes({"DeleteAdmin"}, {"groupID"})
        \cup Gets({"GetMembers"}, {"groupID"}))

GroupRoles ==
    Iam(Gets({"GetRealmRoles"}, {"groupID"})
        \cup Ops({"AddRealmRoles"}, POST, {204, 200}, "none", {"groupID"})
        \cup Deletes({"RemoveRealmRoles"}, {"groupID"})
        \cup Gets({"GetClientRoles"}, {"groupID/clientID"})
        \cup Ops({"AddClientRoles"}, POST, {204, 200}, "none", {"groupID/clientID"})
        \cup Deletes({"RemoveClientRoles"}, {"groupID/clientID"}))

\* Count parses a bare number.
UserQueries ==
    Iam(Gets({"List"}, {}) \cup Gets({"Get"}, {"userID"})
        \cup Ops({"Count"}, GET, {200}, "strict", {}))

\* CreateSAML writes back the record it has read, which Update refuses when it
\* has no identifier.
UserWrites ==
    Iam({Op("Create", <<UserPost, Get>>),
         Op("CreateSAML", <<[UserPost EXCEPT !.needs = {"user", "idp*"}], Get,
                            [Update EXCEPT !.needs = {"fetched.ID"}], Get>>)}
        \cup Ops({"Update"}, PUT, {204, 200}, "none", {"user.ID"})
        \cup Deletes({"Delete"}, {"userID"}))

UserRoles ==
    Iam(Gets({"GetGroups", "GetRealmRoles"}, {"userID"})
        \cup Gets({"GetClientRoles"}, {"userID/clientID"})
        \cup Ops({"AssignGroup"}, PUT, {204, 200}, "none", {"userID/groupID"})
        \cup Ops({"AddClientRoles"}, POST, {204, 200}, "none", {"userID/clientID"})
        \cup Ops({"AddRealmRoles"}, POST, {204, 200}, "none", {"userID"})
        \cup Deletes({"RemoveGroup"}, {"userID/groupID"})
        \cup Deletes({"RemoveClientRoles"}, {"userID/clientID"})
        \cup Deletes({"RemoveRealmRoles"}, {"userID"}))

RoleQueries ==
    Iam(Gets({"ListRealm", "SearchRealm"}, {})
        \cup Gets({"GetRealmByName"}, {"name"})
        \cup Gets({"ListClient", "SearchClient"}, {"clientID"})
        \cup Gets({"GetClientByName"}, {"clientID/name"})
        \cup Ops({"CreateClient"}, POST, {201, 200, 204}, "none", {"clientID", "role.Name"}))

RoleComposites ==
    Iam(Gets({"GetByID", "GetComposites"}, {"roleID"})
        \cup Ops({"AddComposites"}, POST, {204, 200}, "none", {"roleID"})
        \cup Deletes({"DeleteByID", "RemoveComposites"}, {"roleID"}))

ClientOps ==
    Iam(Gets({"List", "ListScopes"}, {})
        \cup Gets({"Get", "GetSecret", "GetServiceAccountUser"}, {"clientUUID"})
        \cup Ops({"Create"}, POST, {201, 200, 204}, "none", {"client.ClientID"})
        \cup Ops({"Update"}, PUT, {204, 200}, "none", {"client.ID"})
        \cup Ops({"RegenerateSecret"}, POST, {200}, "value", {"clientUUID"})
        \cup Ops({"AddDefaultScope"}, PUT, {204, 200}, "none", {"clientUUID/scopeID"})
        \cup Deletes({"Delete"}, {"clientUUID"})
        \cup Deletes({"RemoveDefaultScope"}, {"clientUUID/scopeID"}))
=============================================================================
