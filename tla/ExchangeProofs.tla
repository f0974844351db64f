--------------------------- MODULE ExchangeProofs ---------------------------
(***************************************************************************)
(* What one call of an operation guarantees, for every operation that a    *)
(* handle offers and every number of sends.                                *)
(***************************************************************************)
EXTENDS Exchange, TLAPS

-----------------------------------------------------------------------------
(* The table of operations.                                                *)

\* What every request of every operation has in common.  A refusal is no
\* success, but for a predicate that is in force already.
Sound(r) ==
    /\ r.out \in Outs /\ r.ok \subseteq AnyStatus
    /\ "nothing" \notin r.needs
    /\ r.out = "location" => r.funnel
    /\ r.out # "location" => r.ok \cap Refusals \subseteq {304}

\* What a request has that another, next, follows: a value that is read is
\* checked before it is written back, and no refusal is a success.
Leads(r, next) ==
    /\ r.out = "value" => "fetched.ID" \in next.needs
    /\ r.out # "location" => r.ok \cap Refusals = {}

SoundReqs(s) ==
    /\ Len(s) \in Nat \ {0} /\ DOMAIN s = 1 .. Len(s)
    /\ \A i \in DOMAIN s : Sound(s[i])
    /\ "fetched.ID" \notin s[1].needs
    /\ \A i \in DOMAIN s : i < Len(s) => Leads(s[i], s[i + 1])

\* Operations of the host h.
OnHost(h, ops) ==
    \A o \in ops : \E n, s : o = [name |-> n, home |-> h, reqs |-> s] /\ SoundReqs(s)

\* The statuses that an operation of one request may expect, and the arguments
\* it may check.
Usable(ok) == ok \subseteq AnyStatus /\ ok \cap Refusals \subseteq {304}
Plain(needs) == needs \cap {"nothing", "fetched.ID"} = {}

\* Lists of one request and of two.
LEMMA SingleSound ==
    ASSUME NEW r, Sound(r), "fetched.ID" \notin r.needs
    PROVE  SoundReqs(<<r>>)
<1> DEFINE s == <<r>>
<1>1. Len(s) = 1 /\ DOMAIN s = 1 .. 1 /\ s[1] = r
  OBVIOUS
<1> HIDE DEF s
<1>2. SoundReqs(s)
  BY <1>1 DEF SoundReqs
<1> QED
  BY <1>2 DEF s

LEMMA PairSound ==
    ASSUME NEW r, NEW next, Sound(r), Sound(next), "fetched.ID" \notin r.needs, Leads(r, next)
    PROVE  SoundReqs(<<r, next>>)
<1> DEFINE s == <<r, next>>
<1>1. Len(s) = 2 /\ DOMAIN s = 1 .. 2 /\ s[1] = r /\ s[2] = next
  OBVIOUS
<1> HIDE DEF s
<1>2. SoundReqs(s)
  BY <1>1 DEF SoundReqs
<1> QED
  BY <1>2 DEF s

\* An operation whose requests are sound.
LEMMA OpSound ==
    ASSUME NEW n, NEW s, SoundReqs(s)
    PROVE  OnHost("api", {Op(n, s)})
BY DEF OnHost, Op

\* Operations of one request.
LEMMA OpsSound ==
    ASSUME NEW names, NEW method, NEW ok, Usable(ok),
           NEW out \in Outs \ {"location"}, NEW needs, Plain(needs)
    PROVE  OnHost("api", Ops(names, method, ok, out, needs))
<1>1. SoundReqs(<<Req(method, ok, out, needs)>>)
  BY SingleSound DEF Sound, Req, Usable, Plain
<1> QED
    BY <1>1 DEF OnHost, Ops, Op

\* Those that read, and those that delete.
LEMMA GetsSound ==
    ASSUME NEW names, NEW needs, Plain(needs)
    PROVE  OnHost("api", Gets(names, needs))
BY OpsSound DEF Gets, Outs, Usable, AnyStatus, Done, Refusals

LEMMA DeletesSound ==
    ASSUME NEW names, NEW needs, Plain(needs)
    PROVE  OnHost("api", Deletes(names, needs))
BY OpsSound DEF Deletes, Outs, Usable, AnyStatus, Done, Refusals

\* Families of operations are put together.
LEMMA UnionSound ==
    \A h, a, b : OnHost(h, a \cup b) <=> OnHost(h, a) /\ OnHost(h, b)
BY DEF OnHost

\* The operations of the identity service are those of the API with another host.
LEMMA IamSound ==
    ASSUME NEW ops, OnHost("api", ops)
    PROVE  OnHost("iam", Iam(ops))
<1> SUFFICES ASSUME NEW o \in ops
             PROVE  \E n, s : [o EXCEPT !.home = "iam"] = [name |-> n, home |-> "iam", reqs |-> s]
                              /\ SoundReqs(s)
    BY DEF OnHost, Iam
<1>1. PICK n, s : o = [name |-> n, home |-> "api", reqs |-> s] /\ SoundReqs(s)
    BY DEF OnHost
<1> QED
    BY <1>1

\* The sets of statuses that the operations expect.
LEMMA StatusesUsable ==
    /\ Usable({200}) /\ Usable({201}) /\ Usable({202}) /\ Usable({204})
    /\ Usable({201, 200}) /\ Usable({200, 201}) /\ Usable({204, 200})
    /\ Usable({200, 204}) /\ Usable({200, 202, 204}) /\ Usable({200, 201, 204})
    /\ Usable({201, 200, 204}) /\ Usable({200, 201, 304})
BY DEF Usable, AnyStatus, Done, Refusals

\* The kinds of answer that they read and the arguments that they check.
LEMMA Kinds ==
    /\ {"none", "value", "strict", "text", "stream"} \subseteq Outs \ {"location"}
    /\ Plain({}) /\ \A x : x \notin {"nothing", "fetched.ID"} => Plain({x})
    /\ Plain({"fileName", "encryptionKey"}) /\ Plain({"clientID", "role.Name"})
    /\ Plain({"parentID", "group.Name"})
BY DEF Outs, Plain

\* The families of operations, one lemma each: every request is sound, and the
\* family is served by the host that it names.
LEMMA ProjectOpsSound == OnHost("api", ProjectOps)
<1>1. /\ OnHost("api", Gets({"List", "Iter", "Get", "GetBranches", "Tags", "GetConfiguration"},
                {}))
      /\ OnHost("api", Ops({"Create"}, POST, {201}, "value", {}))
      /\ OnHost("api", Ops({"Update"}, PUT, {204}, "none", {}))
      /\ OnHost("api", Ops({"Delete"}, DELETE, {204}, "none", {}))
      /\ OnHost("api", Ops({"UpdateConfiguration"}, PATCH, {204}, "none", {}))
  BY GetsSound, OpsSound, StatusesUsable, Kinds
<1> QED
  BY <1>1 DEF ProjectOps, OnHost

LEMMA ProjectExtrasSound == OnHost("api", ProjectExtras)
<1>1. /\ OnHost("api", Gets({"Count"}, {}))
      /\ OnHost("api", Ops({"Patch"}, PATCH, {204, 200}, "none", {}))
      /\ OnHost("api", Ops({"SetConfigurationKey"}, PATCH, {204}, "none", {}))
      /\ OnHost("api", Ops({"AssignApplicationsDirect"}, POST, {201, 200, 204}, "none", {}))
      /\ OnHost("api", Deletes({"RemoveApplicationsDirect"}, {}))
      /\ OnHost("api", Ops({"MoveApplications"}, PUT, {204, 200}, "none", {"projectID"}))
  BY GetsSound, OpsSound, DeletesSound, StatusesUsable, Kinds
<1> QED
  BY <1>1 DEF ProjectExtras, OnHost

LEMMA ScanOpsSound == OnHost("api", ScanOps)
<1>1. /\ OnHost("api", Gets({"List", "Iter", "Get", "GetWorkflow", "Tags"}, {}))
      /\ OnHost("api", Ops({"Create"}, POST, {201}, "value", {}))
      /\ OnHost("api", Ops({"Cancel"}, PATCH, {204}, "none", {}))
      /\ OnHost("api", Ops({"Delete"}, DELETE, {204}, "none", {}))
  BY GetsSound, OpsSound, StatusesUsable, Kinds
<1> QED
  BY <1>1 DEF ScanOps, OnHost

LEMMA ScanMetadataSound == OnHost("api", ScanMetadata)
BY GetsSound, Kinds DEF ScanMetadata

LEMMA ResultOpsSound == OnHost("api", ResultOps)
BY GetsSound, Kinds DEF ResultOps

LEMMA ReportOpsSound == OnHost("api", ReportOps)
<1>1. /\ OnHost("api", Ops({"CreateJSON", "CreatePDF"}, POST, {202}, "value", {}))
      /\ OnHost("api", Gets({"PollJSON", "PollPDF"}, {}))
      /\ OnHost("api", Ops({"DownloadJSON", "DownloadPDF"}, GET, {200}, "stream", {}))
  BY GetsSound, OpsSound, StatusesUsable, Kinds
<1> QED
  BY <1>1 DEF ReportOps, OnHost

LEMMA PolicyOpsSound == OnHost("api", PolicyOps)
<1>1. /\ OnHost("api", Gets({"Evaluate", "List", "CountFiltered", "ListViolations",
                "CountViolationsFiltered"}, {}))
      /\ OnHost("api", Gets({"GetViolationDetails"}, {"projectID/scanID"}))
      /\ OnHost("api", Ops({"AssignToProjects"}, POST, {200, 201, 204}, "none", {"policyID"}))
  BY GetsSound, OpsSound, StatusesUsable, Kinds
<1> QED
  BY <1>1 DEF PolicyOps, OnHost

LEMMA GroupLookupSound == OnHost("api", GroupLookup)
BY GetsSound, Kinds DEF GroupLookup

LEMMA AccessOpsSound == OnHost("api", AccessOps)
<1>1. /\ OnHost("api", Ops({"CreateAssignment"}, POST, {201}, "none", {}))
      /\ OnHost("api", Gets({"EntitiesFor", "HasAccess", "AccessibleResources"}, {}))
      /\ OnHost("api", Gets({"GetAssignment"}, {"entityID/resourceID"}))
      /\ OnHost("api", Gets({"ResourcesFor"}, {"entityID/entityType"}))
      /\ OnHost("api", Deletes({"DeleteAssignment"}, {"entityID/resourceID"}))
  BY GetsSound, OpsSound, DeletesSound, StatusesUsable, Kinds
<1> QED
  BY <1>1 DEF AccessOps, OnHost

LEMMA AccessListingsSound == OnHost("api", AccessListings)
BY GetsSound, Kinds DEF AccessListings

LEMMA ApplicationOpsSound == OnHost("api", ApplicationOps)
<1>1. OnHost("api", Gets({"List", "Iter", "Get", "Count"}, {}))
  BY GetsSound, Kinds
<1>2. OnHost("api", Ops({"Create"}, POST, {201, 200}, "value", {"application.Name"}))
  BY OpsSound, StatusesUsable, Kinds
<1>3. OnHost("api", Ops({"AssociateProjects"}, POST, {201}, "none", {}))
  BY OpsSound, StatusesUsable, Kinds
<1>4. OnHost("api", Ops({"Update"}, PUT, {204}, "none", {}))
  BY OpsSound, StatusesUsable, Kinds
<1>5. OnHost("api", Ops({"Patch"}, PATCH, {204, 200}, "none", {}))
  BY OpsSound, StatusesUsable, Kinds
<1>6. OnHost("api", Ops({"AssignProjectsDirect"}, POST, {201, 200, 204}, "none", {}))
  BY OpsSound, StatusesUsable, Kinds
<1>7. OnHost("api", Deletes({"Delete", "RemoveProjectsDirect"}, {}))
  BY DeletesSound, Kinds
<1> QED
  BY <1>1, <1>2, <1>3, <1>4, <1>5, <1>6, <1>7 DEF ApplicationOps, OnHost

LEMMA FeatureFlagOpsSound == OnHost("api", FeatureFlagOps)
BY GetsSound, Kinds DEF FeatureFlagOps

LEMMA SastMetadataOpsSound == OnHost("api", SastMetadataOps)
BY GetsSound, Kinds DEF SastMetadataOps

LEMMA TenantOpsSound == OnHost("api", TenantOps)
BY GetsSound, Kinds DEF TenantOps

LEMMA LogOpsSound == OnHost("api", LogOps)
BY OpsSound, StatusesUsable, Kinds DEF LogOps

LEMMA BFLOpsSound == OnHost("api", BFLOps)
BY GetsSound, Kinds DEF BFLOps

LEMMA PredicateOpsSound == OnHost("api", PredicateOps)
<1>1. OnHost("api", Gets({"GetSAST", "GetKICS", "GetSCS", "ListCustomStates"}, {}))
  BY GetsSound, Kinds
<1>2. OnHost("api", Ops({"UpdateSAST", "UpdateKICS", "UpdateSCS", "UpdateSCA"}, POST, {200, 201,
             304}, "none", {}))
  BY OpsSound, StatusesUsable, Kinds
<1>3. OnHost("api", Ops({"CreateCustomState"}, POST, {201, 200}, "value", {"name"}))
  BY OpsSound, StatusesUsable, Kinds
<1>4. OnHost("api", Deletes({"DeleteCustomState"}, {"stateID"}))
  BY DeletesSound, Kinds
<1> QED
  BY <1>1, <1>2, <1>3, <1>4 DEF PredicateOps, OnHost

LEMMA PredicateHistorySound == OnHost("api", PredicateHistory)
<1>1. /\ OnHost("api", Gets({"GetSASTLatest", "GetSASTWithScan"}, {"similarityID"}))
      /\ OnHost("api", Gets({"GetChangeHistory"}, {"entityType/entityID"}))
  BY GetsSound, Kinds
<1> QED
  BY <1>1 DEF PredicateHistory, OnHost

LEMMA ExportOpsSound == OnHost("api", ExportOps)
<1>1. /\ OnHost("api", Ops({"Create"}, POST, {202}, "value", {}))
      /\ OnHost("api", Gets({"Poll"}, {}))
      /\ OnHost("api", Ops({"Download"}, GET, {200}, "stream", {}))
  BY GetsSound, OpsSound, StatusesUsable, Kinds
<1> QED
  BY <1>1 DEF ExportOps, OnHost

LEMMA ScanOverviewOpsSound == OnHost("api", ScanOverviewOps)
BY GetsSound, Kinds DEF ScanOverviewOps

LEMMA RiskOpsSound == OnHost("api", RiskOps)
BY GetsSound, Kinds DEF RiskOps

LEMMA TelemetryOpsSound == OnHost("api", TelemetryOps)
BY OpsSound, StatusesUsable, Kinds DEF TelemetryOps

LEMMA AnalyticsOpsSound == OnHost("api", AnalyticsOps)
<1>1. /\ OnHost("api", Ops({"Fetch"}, POST, {200}, "value", {"kpi"}))
      /\ OnHost("api", Ops({"GetVulnerabilitiesBySeverityTotal",
                "GetVulnerabilitiesByStateTotal", "GetVulnerabilitiesByStatusTotal",
                "GetVulnerabilitiesBySeverityAndStateTotal", "GetVulnerabilitiesByAgingTotal",
                "GetVulnerabilitiesBySeverityOvertime",
                "GetFixedVulnerabilitiesBySeverityOvertime"}, POST, {200}, "strict", {}))
  BY OpsSound, StatusesUsable, Kinds
<1> QED
  BY <1>1 DEF AnalyticsOps, OnHost

LEMMA AnalyticsStatsSound == OnHost("api", AnalyticsStats)
BY OpsSound, StatusesUsable, Kinds DEF AnalyticsStats

LEMMA AuditOpsSound == OnHost("api", AuditOps)
<1>1. OnHost("api", Ops({"CreateSession"}, POST, {200, 201}, "value", {"request.Scanner"}))
  BY OpsSound, StatusesUsable, Kinds
<1>2. OnHost("api", Deletes({"DeleteSession"}, {"sessionID"}))
  BY DeletesSound, Kinds
<1>3. OnHost("api", Ops({"KeepAlive"}, PATCH, {200, 204}, "none", {"sessionID"}))
  BY OpsSound, StatusesUsable, Kinds
<1>4. OnHost("api", Gets({"GetRequestStatus"}, {"sessionID/requestID"}))
  BY GetsSound, Kinds
<1>5. OnHost("api", Gets({"GetScanSources"}, {"sessionID"}))
  BY GetsSound, Kinds
<1>6. OnHost("api", Ops({"RunScan"}, POST, {200, 202, 204}, "none", {"sessionID"}))
  BY OpsSound, StatusesUsable, Kinds
<1> QED
  BY <1>1, <1>2, <1>3, <1>4, <1>5, <1>6 DEF AuditOps, OnHost

LEMMA AuditQueriesSound == OnHost("api", AuditQueries)
<1>1. OnHost("api", Gets({"GetSASTQueries", "GetIACQueries", "GetQueryTree"}, {"sessionID"}))
  BY GetsSound, Kinds
<1>2. OnHost("api", Deletes({"DeleteQueryOverride"}, {"sessionID/queryKey"}))
  BY DeletesSound, Kinds
<1>3. OnHost("api", Ops({"CreateQueryOverride"}, POST, {200, 201, 204}, "none", {"sessionID"}))
  BY OpsSound, StatusesUsable, Kinds
<1>4. OnHost("api", Ops({"UpdateQuerySource"}, POST, {200, 201, 204}, "value",
             {"sessionID/queryKey"}))
  BY OpsSound, StatusesUsable, Kinds
<1>5. OnHost("api", Ops({"UpdateQueryMetadata"}, PUT, {200, 204}, "none",
             {"sessionID/queryKey"}))
  BY OpsSound, StatusesUsable, Kinds
<1>6. OnHost("api", Ops({"ValidateQuerySource", "RunQuery"}, POST, {200}, "value",
             {"sessionID"}))
  BY OpsSound, StatusesUsable, Kinds
<1> QED
  BY <1>1, <1>2, <1>3, <1>4, <1>5, <1>6 DEF AuditQueries, OnHost

LEMMA MigrationOpsSound == OnHost("api", MigrationOps)
<1>1. OnHost("api", Ops({"StartImport"}, POST, {201, 200}, "value", {"fileName",
             "encryptionKey"}))
  BY OpsSound, StatusesUsable, Kinds
<1>2. OnHost("api", Gets({"List"}, {}))
  BY GetsSound, Kinds
<1>3. OnHost("api", Gets({"Get"}, {"importID"}))
  BY GetsSound, Kinds
<1> QED
  BY <1>1, <1>2, <1>3 DEF MigrationOps, OnHost

LEMMA SCMOpsSound == OnHost("api", SCMOps)
<1>1. /\ OnHost("api", Gets({"ListIntegrations"}, {}))
      /\ OnHost("api", Gets({"GetRepository"}, {"repositoryID"}))
  BY GetsSound, Kinds
<1> QED
  BY <1>1 DEF SCMOps, OnHost

LEMMA PresetManagerOpsSound == OnHost("api", PresetManagerOps)
<1>1. /\ OnHost("api", Gets({"ListPresets", "ListQueryFamilies"}, {"engine"}))
      /\ OnHost("api", Gets({"GetPreset"}, {"engine/presetID"}))
      /\ OnHost("api", Gets({"SearchPreset"}, {"engine/name"}))
      /\ OnHost("api", Gets({"GetSASTQueryFamilyContents", "GetIACQueryFamilyContents"},
                {"family"}))
      /\ OnHost("api", Ops({"CreatePreset"}, POST, {201, 200}, "value", {"engine/preset.Name"}))
      /\ OnHost("api", Ops({"UpdatePreset"}, PUT, {204, 200}, "none", {"engine/presetID"}))
      /\ OnHost("api", Deletes({"DeletePreset"}, {"engine/presetID"}))
  BY GetsSound, OpsSound, DeletesSound, StatusesUsable, Kinds
<1> QED
  BY <1>1 DEF PresetManagerOps, OnHost

LEMMA PresetOpsSound == OnHost("api", PresetOps)
BY GetsSound, Kinds DEF PresetOps

LEMMA GroupQueriesSound == OnHost("iam", GroupQueries)
<1>1. /\ OnHost("iam", Iam(Gets({"ListAdmin", "Count"}, {})))
      /\ OnHost("iam", Iam(Gets({"GetByID", "GetChildren"}, {"groupID"})))
      /\ OnHost("iam", Iam(Gets({"GetByPath"}, {"path"})))
  BY IamSound, GetsSound, Kinds
<1> QED
  BY <1>1 DEF GroupQueries, OnHost, Iam

LEMMA GroupRolesSound == OnHost("iam", GroupRoles)
<1>1. /\ OnHost("iam", Iam(Gets({"GetRealmRoles"}, {"groupID"})))
      /\ OnHost("iam", Iam(Ops({"AddRealmRoles"}, POST, {204, 200}, "none", {"groupID"})))
      /\ OnHost("iam", Iam(Deletes({"RemoveRealmRoles"}, {"groupID"})))
      /\ OnHost("iam", Iam(Gets({"GetClientRoles"}, {"groupID/clientID"})))
      /\ OnHost("iam", Iam(Ops({"AddClientRoles"}, POST, {204, 200}, "none",
                {"groupID/clientID"})))
      /\ OnHost("iam", Iam(Deletes({"RemoveClientRoles"}, {"groupID/clientID"})))
  BY IamSound, GetsSound, OpsSound, DeletesSound, StatusesUsable, Kinds
<1> QED
  BY <1>1 DEF GroupRoles, OnHost, Iam

LEMMA UserQueriesSound == OnHost("iam", UserQueries)
<1> DEFINE ops == Gets({"List"}, {}) \cup Gets({"Get"}, {"userID"})
                  \cup Ops({"Count"}, GET, {200}, "strict", {})
<1>1. /\ OnHost("api", Gets({"List"}, {}))
      /\ OnHost("api", Gets({"Get"}, {"userID"}))
      /\ OnHost("api", Ops({"Count"}, GET, {200}, "strict", {}))
  BY GetsSound, OpsSound, StatusesUsable, Kinds
<1>2. OnHost("api", ops)
  BY <1>1 DEF OnHost
<1> QED
  BY <1>2, IamSound DEF UserQueries

LEMMA UserRolesSound == OnHost("iam", UserRoles)
<1>1. OnHost("iam", Iam(Gets({"GetGroups", "GetRealmRoles"}, {"userID"})))
  BY IamSound, GetsSound, Kinds
<1>2. OnHost("iam", Iam(Gets({"GetClientRoles"}, {"userID/clientID"})))
  BY IamSound, GetsSound, Kinds
<1>3. OnHost("iam", Iam(Ops({"AssignGroup"}, PUT, {204, 200}, "none", {"userID/groupID"})))
  BY IamSound, OpsSound, StatusesUsable, Kinds
<1>4. OnHost("iam", Iam(Ops({"AddClientRoles"}, POST, {204, 200}, "none", {"userID/clientID"})))
  BY IamSound, OpsSound, StatusesUsable, Kinds
<1>5. OnHost("iam", Iam(Ops({"AddRealmRoles"}, POST, {204, 200}, "none", {"userID"})))
  BY IamSound, OpsSound, StatusesUsable, Kinds
<1>6. OnHost("iam", Iam(Deletes({"RemoveGroup"}, {"userID/groupID"})))
  BY IamSound, DeletesSound, Kinds
<1>7. OnHost("iam", Iam(Deletes({"RemoveClientRoles"}, {"userID/clientID"})))
  BY IamSound, DeletesSound, Kinds
<1>8. OnHost("iam", Iam(Deletes({"RemoveRealmRoles"}, {"userID"})))
  BY IamSound, DeletesSound, Kinds
<1> QED
  BY <1>1, <1>2, <1>3, <1>4, <1>5, <1>6, <1>7, <1>8, SMTT(30) DEF UserRoles, OnHost, Iam

LEMMA RoleQueriesSound == OnHost("iam", RoleQueries)
<1>1. OnHost("iam", Iam(Gets({"ListRealm", "SearchRealm"}, {})))
  BY IamSound, GetsSound, Kinds
<1>2. OnHost("iam", Iam(Gets({"GetRealmByName"}, {"name"})))
  BY IamSound, GetsSound, Kinds
<1>3. OnHost("iam", Iam(Gets({"ListClient", "SearchClient"}, {"clientID"})))
  BY IamSound, GetsSound, Kinds
<1>4. OnHost("iam", Iam(Gets({"GetClientByName"}, {"clientID/name"})))
  BY IamSound, GetsSound, Kinds
<1>5. OnHost("iam", Iam(Ops({"CreateClient"}, POST, {201, 200, 204}, "none", {"clientID",
             "role.Name"})))
  BY IamSound, OpsSound, StatusesUsable, Kinds
<1> QED
  BY <1>1, <1>2, <1>3, <1>4, <1>5 DEF RoleQueries, OnHost, Iam

LEMMA RoleCompositesSound == OnHost("iam", RoleComposites)
<1>1. /\ OnHost("iam", Iam(Gets({"GetByID", "GetComposites"}, {"roleID"})))
      /\ OnHost("iam", Iam(Ops({"AddComposites"}, POST, {204, 200}, "none", {"roleID"})))
      /\ OnHost("iam", Iam(Deletes({"DeleteByID", "RemoveComposites"}, {"roleID"})))
  BY IamSound, GetsSound, OpsSound, DeletesSound, StatusesUsable, Kinds
<1> QED
  BY <1>1 DEF RoleComposites, OnHost, Iam

LEMMA ClientOpsSound == OnHost("iam", ClientOps)
<1>1. OnHost("iam", Iam(Gets({"List", "ListScopes"}, {})))
  BY IamSound, GetsSound, Kinds
<1>2. OnHost("iam", Iam(Gets({"Get", "GetSecret", "GetServiceAccountUser"}, {"clientUUID"})))
  BY IamSound, GetsSound, Kinds
<1>3. OnHost("iam", Iam(Ops({"Create"}, POST, {201, 200, 204}, "none", {"client.ClientID"})))
  BY IamSound, OpsSound, StatusesUsable, Kinds
<1>4. OnHost("iam", Iam(Ops({"Update"}, PUT, {204, 200}, "none", {"client.ID"})))
  BY IamSound, OpsSound, StatusesUsable, Kinds
<1>5. OnHost("iam", Iam(Ops({"RegenerateSecret"}, POST, {200}, "value", {"clientUUID"})))
  BY IamSound, OpsSound, StatusesUsable, Kinds
<1>6. OnHost("iam", Iam(Ops({"AddDefaultScope"}, PUT, {204, 200}, "none",
             {"clientUUID/scopeID"})))
  BY IamSound, OpsSound, StatusesUsable, Kinds
<1>7. OnHost("iam", Iam(Deletes({"Delete"}, {"clientUUID"})))
  BY IamSound, DeletesSound, Kinds
<1>8. OnHost("iam", Iam(Deletes({"RemoveDefaultScope"}, {"clientUUID/scopeID"})))
  BY IamSound, DeletesSound, Kinds
<1> QED
  BY <1>1, <1>2, <1>3, <1>4, <1>5, <1>6, <1>7, <1>8, SMTT(30) DEF ClientOps, OnHost, Iam

\* An upload asks for its place before it sends the archive.
LEMMA PresignSound == Sound(Presign) /\ "fetched.ID" \notin Presign.needs
BY DEF Presign, Sound, Req, Outs, AnyStatus, Done, Refusals

LEMMA UploadOpsSound == OnHost("api", UploadOps)
BY PresignSound, SingleSound, OpSound DEF UploadOps

LEMMA UploadsSound == OnHost("api", Uploads)
<1> DEFINE later == [PutFile EXCEPT !.needs = {"httpClient", "body", "size"}]
<1>1. Sound(PutFile) /\ "fetched.ID" \notin PutFile.needs
  BY DEF PutFile, Outside, Sound, Req, Outs, AnyStatus, Done, Refusals
<1>2. Sound(later) /\ Leads(Presign, later)
  BY DEF Leads, Presign, PutFile, Outside, Sound, Req, Outs, AnyStatus, Done, Refusals
<1>3. SoundReqs(<<PutFile>>) /\ SoundReqs(<<Presign, later>>)
  BY <1>1, <1>2, PresignSound, SingleSound, PairSound
<1> QED
  BY <1>3 DEF Uploads, OnHost, Op

LEMMA MigrationLogsSound == OnHost("api", MigrationLogs)
<1> DEFINE first == Req(GET, AnyStatus, "location", {"importID", "httpClient"})
           second == Outside(Req(GET, Done, "text", {}))
<1>1. Sound(first) /\ "fetched.ID" \notin first.needs /\ Sound(second) /\ Leads(first, second)
  BY DEF Leads, Outside, Sound, Req, Outs, AnyStatus, Done, Refusals
<1>2. SoundReqs(<<first, second>>)
  BY <1>1, PairSound
<1> QED
  BY <1>2, OpSound DEF MigrationLogs

LEMMA CreatesSound ==
    /\ Sound(GroupPost) /\ "fetched.ID" \notin GroupPost.needs /\ Leads(GroupPost, Get)
    /\ Sound(UserPost) /\ "fetched.ID" \notin UserPost.needs /\ Leads(UserPost, Get)
    /\ Sound(Get)
BY DEF Leads, GroupPost, UserPost, Get, Sound, Req, Outs, AnyStatus, Done, Refusals

LEMMA GroupWritesSound == OnHost("iam", GroupWrites)
<1>1. SoundReqs(<<GroupPost, Get>>)
  BY CreatesSound, PairSound
<1>2. OnHost("iam", Iam({Op("CreateAdmin", <<GroupPost, Get>>)}))
  BY <1>1, OpSound, IamSound
<1>3. /\ OnHost("iam", Iam(Ops({"CreateChild"}, POST, {201, 200}, "value",
                               {"parentID", "group.Name"})))
      /\ OnHost("iam", Iam(Ops({"UpdateAdmin"}, PUT, {204, 200}, "none", {"group.ID"})))
  BY IamSound, OpsSound, StatusesUsable, Kinds
<1>4. /\ OnHost("iam", Iam(Deletes({"DeleteAdmin"}, {"groupID"})))
      /\ OnHost("iam", Iam(Gets({"GetMembers"}, {"groupID"})))
  BY IamSound, GetsSound, DeletesSound, Kinds
<1> QED
  BY <1>2, <1>3, <1>4 DEF GroupWrites, OnHost, Iam

LEMMA CreateSAMLSound ==
    SoundReqs(<<[UserPost EXCEPT !.needs = {"user", "idp*"}], Get,
                [Update EXCEPT !.needs = {"fetched.ID"}], Get>>)
<1> DEFINE post == [UserPost EXCEPT !.needs = {"user", "idp*"}]
           put == [Update EXCEPT !.needs = {"fetched.ID"}]
           s == <<post, Get, put, Get>>
<1>1. Sound(post) /\ "fetched.ID" \notin post.needs /\ Leads(post, Get)
  BY DEF Leads, UserPost, Get, Sound, Req, Outs, AnyStatus, Done, Refusals
<1>2. Sound(put) /\ Leads(Get, put) /\ Leads(put, Get)
  BY DEF Leads, Update, Get, Sound, Req, Outs, AnyStatus, Done, Refusals
<1>3. Len(s) = 4 /\ DOMAIN s = 1 .. 4 /\ s[1] = post /\ s[2] = Get /\ s[3] = put /\ s[4] = Get
  OBVIOUS
<1> HIDE DEF s, post, put
<1>4. SoundReqs(s)
  BY <1>1, <1>2, <1>3, CreatesSound DEF SoundReqs
<1> QED
  BY <1>4 DEF s, post, put

LEMMA UserWritesSound == OnHost("iam", UserWrites)
<1> DEFINE saml == <<[UserPost EXCEPT !.needs = {"user", "idp*"}], Get,
                     [Update EXCEPT !.needs = {"fetched.ID"}], Get>>
           creates == {Op("Create", <<UserPost, Get>>), Op("CreateSAML", saml)}
           others == Ops({"Update"}, PUT, {204, 200}, "none", {"user.ID"})
                     \cup Deletes({"Delete"}, {"userID"})
<1>1. SoundReqs(<<UserPost, Get>>) /\ SoundReqs(saml)
  BY CreatesSound, PairSound, CreateSAMLSound
<1> HIDE DEF saml
<1>2. OnHost("api", creates)
  BY <1>1 DEF OnHost, Op
<1>3. OnHost("api", others)
  <2>1. /\ OnHost("api", Ops({"Update"}, PUT, {204, 200}, "none", {"user.ID"}))
        /\ OnHost("api", Deletes({"Delete"}, {"userID"}))
    BY OpsSound, DeletesSound, StatusesUsable, Kinds
  <2> QED
    BY <2>1 DEF OnHost
<1>4. UserWrites = Iam(creates \cup others)
  <2>1. creates \cup others = creates \cup Ops({"Update"}, PUT, {204, 200}, "none", {"user.ID"})
                              \cup Deletes({"Delete"}, {"userID"})
    OBVIOUS
  <2> HIDE DEF others
  <2> QED
    BY <2>1 DEF UserWrites, saml
<1>5. OnHost("api", creates \cup others)
  BY <1>2, <1>3 DEF OnHost
<1> QED
  BY <1>4, <1>5, IamSound

-----------------------------------------------------------------------------
(* The handles.                                                            *)

\* A handle asks the host that serves its operations.
AtItsHost(entries) ==
    \A e \in entries : e.root = e.op.home /\ SoundReqs(e.op.reqs)

\* A handle offers a family of operations, or some of them.
LEMMA HandleSound ==
    ASSUME NEW h, NEW ops, OnHost(h, ops)
    PROVE  AtItsHost(Handle(h, ops))
BY DEF OnHost, Handle, AtItsHost

LEMMA SomeSound ==
    ASSUME NEW h, NEW ops, OnHost(h, ops), NEW names
    PROVE  OnHost(h, Some(ops, names))
BY DEF OnHost, Some

\* The handles, one lemma each: they ask the host that serves their operations.
LEMMA AdvancedProjectsSound == AtItsHost(AdvancedProjects)
<1>1. OnHost("api", ProjectOps \cup ProjectExtras)
  BY ProjectOpsSound, ProjectExtrasSound DEF OnHost
<1> QED
  BY <1>1, HandleSound DEF AdvancedProjects, Root

LEMMA AdvancedScansSound == AtItsHost(AdvancedScans)
BY ScanOpsSound, HandleSound DEF AdvancedScans, Root

LEMMA AdvancedScanMetadataSound == AtItsHost(AdvancedScanMetadata)
BY ScanMetadataSound, HandleSound DEF AdvancedScanMetadata, Root

LEMMA AdvancedUploadsSound == AtItsHost(AdvancedUploads)
<1>1. OnHost("api", UploadOps \cup Uploads)
  BY UploadOpsSound, UploadsSound DEF OnHost
<1> QED
  BY <1>1, HandleSound DEF AdvancedUploads, Root

LEMMA AdvancedResultsSound == AtItsHost(AdvancedResults)
BY ResultOpsSound, HandleSound DEF AdvancedResults, Root

LEMMA AdvancedReportsSound == AtItsHost(AdvancedReports)
BY ReportOpsSound, HandleSound DEF AdvancedReports, Root

LEMMA AdvancedPoliciesSound == AtItsHost(AdvancedPolicies)
BY PolicyOpsSound, HandleSound DEF AdvancedPolicies, Root

LEMMA AdvancedGroupsSound == AtItsHost(AdvancedGroups)
<1>1. OnHost("iam", GroupQueries \cup GroupWrites \cup GroupRoles)
  BY GroupQueriesSound, GroupWritesSound, GroupRolesSound DEF OnHost
<1> QED
  BY <1>1, GroupLookupSound, HandleSound DEF AdvancedGroups, AtItsHost, Root, IamAdmin

LEMMA AdvancedAccessSound == AtItsHost(AdvancedAccess)
BY AccessOpsSound, HandleSound DEF AdvancedAccess, Root

LEMMA AdvancedAccessListingsSound == AtItsHost(AdvancedAccessListings)
BY AccessListingsSound, HandleSound DEF AdvancedAccessListings, Root

LEMMA AdvancedApplicationsSound == AtItsHost(AdvancedApplications)
BY ApplicationOpsSound, HandleSound DEF AdvancedApplications, Root

LEMMA AdvancedLookupsSound == AtItsHost(AdvancedLookups)
<1>1. OnHost("api", FeatureFlagOps \cup SastMetadataOps \cup TenantOps \cup LogOps \cup BFLOps)
  BY FeatureFlagOpsSound, SastMetadataOpsSound, TenantOpsSound, LogOpsSound, BFLOpsSound DEF
     OnHost
<1> QED
  BY <1>1, HandleSound DEF AdvancedLookups, Root

LEMMA AdvancedPredicatesSound == AtItsHost(AdvancedPredicates)
<1>1. OnHost("api", PredicateOps \cup PredicateHistory)
  BY PredicateOpsSound, PredicateHistorySound DEF OnHost
<1> QED
  BY <1>1, HandleSound DEF AdvancedPredicates, Root

LEMMA AdvancedScanReportsSound == AtItsHost(AdvancedScanReports)
<1>1. OnHost("api", ExportOps \cup ScanOverviewOps \cup RiskOps \cup TelemetryOps)
  BY ExportOpsSound, ScanOverviewOpsSound, RiskOpsSound, TelemetryOpsSound DEF OnHost
<1> QED
  BY <1>1, HandleSound DEF AdvancedScanReports, Root

LEMMA AdvancedUsersSound == AtItsHost(AdvancedUsers)
<1>1. OnHost("iam", UserQueries \cup UserWrites \cup UserRoles)
  BY UserQueriesSound, UserWritesSound, UserRolesSound DEF OnHost
<1> QED
  BY <1>1, HandleSound DEF AdvancedUsers, IamAdmin

LEMMA AdvancedRolesSound == AtItsHost(AdvancedRoles)
<1>1. OnHost("iam", RoleQueries \cup RoleComposites)
  BY RoleQueriesSound, RoleCompositesSound DEF OnHost
<1> QED
  BY <1>1, HandleSound DEF AdvancedRoles, IamAdmin

LEMMA AdvancedClientsSound == AtItsHost(AdvancedClients)
BY ClientOpsSound, HandleSound DEF AdvancedClients, IamAdmin

LEMMA AdvancedAnalyticsSound == AtItsHost(AdvancedAnalytics)
<1>1. OnHost("api", AnalyticsOps \cup AnalyticsStats)
  BY AnalyticsOpsSound, AnalyticsStatsSound DEF OnHost
<1> QED
  BY <1>1, HandleSound DEF AdvancedAnalytics, Root

LEMMA AdvancedAuditSound == AtItsHost(AdvancedAudit)
BY AuditOpsSound, HandleSound DEF AdvancedAudit, Root

LEMMA AdvancedAuditQueriesSound == AtItsHost(AdvancedAuditQueries)
BY AuditQueriesSound, HandleSound DEF AdvancedAuditQueries, Root

LEMMA AdvancedMigrationSound == AtItsHost(AdvancedMigration)
<1>1. OnHost("api", MigrationOps \cup MigrationLogs)
  BY MigrationOpsSound, MigrationLogsSound DEF OnHost
<1> QED
  BY <1>1, HandleSound DEF AdvancedMigration, Root

LEMMA AdvancedPlatformSound == AtItsHost(AdvancedPlatform)
<1>1. OnHost("api", SCMOps \cup PresetManagerOps)
  BY SCMOpsSound, PresetManagerOpsSound DEF OnHost
<1> QED
  BY <1>1, HandleSound DEF AdvancedPlatform, Root

LEMMA ProjectsAndScansSound == AtItsHost(ProjectsAndScans)
<1>1. OnHost("api", Some(ProjectOps,
                        {"List", "Get", "Create", "GetConfiguration", "GetBranches"}))
  BY ProjectOpsSound, SomeSound
<1>2. OnHost("api", Some(ApplicationOps, {"List", "Create"}))
  BY ApplicationOpsSound, SomeSound
<1>3. OnHost("api", Some(ScanOps, {"Get", "Create"}))
  BY ScanOpsSound, SomeSound
<1>4. OnHost("api", Some(UploadOps \cup Uploads, {"GetPresignedURL", "PutFile"}))
  BY UploadOpsSound, UploadsSound DEF OnHost, Some
<1>5. OnHost("api", Some(PresetOps, {"ListPresets", "GetPreset"}))
  BY PresetOpsSound, SomeSound
<1>6. OnHost("api", Some(ResultOps, {"Iter"}))
  BY ResultOpsSound, SomeSound
<1> QED
  BY <1>1, <1>2, <1>3, <1>4, <1>5, <1>6 DEF ProjectsAndScans, Root, OnHost, Handle, AtItsHost

LEMMA ResultsAndReportsSound == AtItsHost(ResultsAndReports)
<1>1. OnHost("api", Some(ResultOps, {"Iter"}))
  BY ResultOpsSound, SomeSound
<1>2. OnHost("api", ReportOps)
  BY ReportOpsSound
<1> QED
  BY <1>1, <1>2 DEF ResultsAndReports, Root, OnHost, Handle, AtItsHost

LEMMA ProvisionedSound == AtItsHost(Provisioned)
<1>1. OnHost("iam", Some(GroupQueries \cup GroupWrites, {"ListAdmin", "CreateAdmin"}))
  BY GroupQueriesSound, GroupWritesSound DEF OnHost, Some
<1>2. OnHost("iam", Some(UserQueries \cup UserWrites, {"List", "Count", "Create"}))
  BY UserQueriesSound, UserWritesSound DEF OnHost, Some
<1>3. OnHost("iam", Some(RoleQueries \cup RoleComposites,
                        {"ListRealm", "ListClient", "GetComposites"}))
  BY RoleQueriesSound, RoleCompositesSound DEF OnHost, Some
<1>4. OnHost("iam", Some(ClientOps, {"List", "Create"}))
  BY ClientOpsSound, SomeSound
<1>5. \A ops : OnHost("iam", ops) => AtItsHost(Handle("iam", ops))
  BY HandleSound
<1>6. OnHost("iam", Some(GroupQueries \cup GroupWrites, {"ListAdmin", "CreateAdmin"})
                    \cup Some(UserQueries \cup UserWrites, {"List", "Count", "Create"})
                    \cup Some(RoleQueries \cup RoleComposites,
                              {"ListRealm", "ListClient", "GetComposites"})
                    \cup Some(ClientOps, {"List", "Create"}))
  BY <1>1, <1>2, <1>3, <1>4 DEF OnHost
<1> QED
  BY <1>5, <1>6 DEF Provisioned, IamAdmin

LEMMA WatchedSound == AtItsHost(Watched)
<1>1. OnHost("api", Some(AuditOps, {"KeepAlive", "DeleteSession", "GetRequestStatus"}))
  BY AuditOpsSound, SomeSound
<1>2. OnHost("api", Some(MigrationOps, {"Get"}))
  BY MigrationOpsSound, SomeSound
<1> QED
  BY <1>1, <1>2 DEF Watched, Root, OnHost, Handle, AtItsHost

\* Every handle of the client is one of those.
LEMMA EntriesSound == AtItsHost(Entries)
<1>1. AtItsHost(Advanced)
  BY AdvancedProjectsSound, AdvancedScansSound, AdvancedScanMetadataSound,
     AdvancedUploadsSound, AdvancedResultsSound, AdvancedReportsSound,
     AdvancedPoliciesSound, AdvancedGroupsSound, AdvancedAccessSound,
     AdvancedAccessListingsSound, AdvancedApplicationsSound, AdvancedLookupsSound,
     AdvancedPredicatesSound, AdvancedScanReportsSound, AdvancedUsersSound,
     AdvancedRolesSound, AdvancedClientsSound, AdvancedAnalyticsSound, AdvancedAuditSound,
     AdvancedAuditQueriesSound, AdvancedMigrationSound, AdvancedPlatformSound
  DEF Advanced, AtItsHost
<1> QED
  BY <1>1, ProjectsAndScansSound, ResultsAndReportsSound, ProvisionedSound, WatchedSound
  DEF Entries, AtItsHost

\* Every operation that a handle of the client offers is sent to the host that
\* serves it: the handles that NewClient and Advanced build give the identity
\* operations the address of the identity service, and the others that of the
\* API.
THEOREM HandlesAskTheirHosts == \A e \in Entries : e.root = e.op.home
BY EntriesSound DEF AtItsHost

-----------------------------------------------------------------------------
(* The inductive invariant.                                                *)

Ends == {"none", "ok", "config", "response", "communication", "other"}

Typed ==
    /\ entry \in Entries /\ nth \in DOMAIN Reqs
    /\ sends \in 0 .. Attempts /\ (Running /\ waiting => sends >= 1)
    /\ waiting \in BOOLEAN /\ moot \in BOOLEAN /\ end \in Ends
    /\ applied \in [DOMAIN Reqs -> Nat] /\ silent \in [DOMAIN Reqs -> Nat]
    /\ blank \in [DOMAIN Reqs -> BOOLEAN]

\* A request that is under way was carried out only by sends without an answer;
\* those before it are done, those after it untouched.
DoneInOrder ==
    /\ \A i \in DOMAIN Reqs : applied[i] <= 1 + silent[i]
    /\ \A i \in DOMAIN Reqs : i > nth => applied[i] = 0 /\ silent[i] = 0
    /\ \A i \in DOMAIN Reqs : i < nth => applied[i] > 0 \/ moot
    /\ Running => applied[nth] <= silent[nth]
    /\ silent[nth] > 0 => "silent" \in trouble
    /\ end = "ok" => nth = Len(Reqs) /\ (applied[nth] > 0 \/ moot)

\* A value that came without its body is noted, and nothing is sent that is
\* built on it.
NoneBuiltOnBlank ==
    /\ \A i \in DOMAIN Reqs : i < nth /\ blank[i] => "body" \in trouble
    /\ \A i \in DOMAIN Reqs :
          Reqs[i].out = "value" /\ i < nth /\ (i + 1 < nth \/ waiting \/ end = "ok")
             => ~blank[i]

IInv == Typed /\ DoneInOrder /\ NoneBuiltOnBlank /\ FailureExplained

\* What is known of the operation that is running.
LEMMA EntryFacts ==
    ASSUME Typed
    PROVE  /\ AtHome /\ SoundReqs(Reqs) /\ Sound(Now)
           /\ nth \in 1 .. Len(Reqs) /\ Len(Reqs) \in Nat
           /\ nth < Len(Reqs) => Leads(Now, Reqs[nth + 1])
           /\ "fetched.ID" \in Now.needs => nth > 1
<1>1. entry.root = entry.op.home /\ SoundReqs(Reqs)
  BY EntriesSound DEF Typed, AtItsHost, Reqs
<1> QED
  BY <1>1 DEF Typed, SoundReqs, AtHome, Now

\* An answer that is expected and whole is good, and one that is good was
\* expected, unless it is the redirect of GetLogs.
LEMMA Verdicts ==
    ASSUME NEW r, Sound(r), NEW code \in AnyStatus, NEW body \in Bodies
    PROVE  /\ Verdict(r, code, body) \in {"ok", "response", "communication", "other"}
           /\ code \in r.ok /\ body = "whole" => Verdict(r, code, body) = "ok"
           /\ Verdict(r, code, body) = "ok" => code \in r.ok
           /\ Verdict(r, code, body) = "ok" /\ r.out = "location" => body = "whole"
           /\ Verdict(r, code, body) = "communication" => code \notin r.ok
<1>1. Direct(r, code, body) \in {"ok", "communication", "other"}
      /\ (code \in r.ok /\ body = "whole" => Direct(r, code, body) = "ok")
      /\ (Direct(r, code, body) \in {"ok", "other"} => code \in r.ok)
      /\ (Direct(r, code, body) = "communication" => code \notin r.ok)
  BY DEF Direct
<1>2. ExtractID(r, code, body) \in {"ok", "other", "response"}
      /\ (code \in r.ok /\ body = "whole" => ExtractID(r, code, body) = "ok")
      /\ (ExtractID(r, code, body) = "ok" => code \in r.ok /\ body = "whole")
  BY DEF ExtractID
<1>3. DoStream(r, code, body) \in {"ok", "response"}
      /\ (code \in r.ok <=> DoStream(r, code, body) = "ok")
  BY DEF DoStream
<1>4. DoText(r, code, body) \in {"ok", "response"}
      /\ (code \in r.ok /\ body = "whole" => DoText(r, code, body) = "ok")
      /\ (DoText(r, code, body) = "ok" => code \in r.ok)
  BY DEF DoText
<1>5. DoJSON(r, code, body) \in {"ok", "response"}
      /\ (code \in r.ok /\ body = "whole" => DoJSON(r, code, body) = "ok")
      /\ (DoJSON(r, code, body) = "ok" => code \in r.ok)
  BY DEF DoJSON
<1>6. r.out = "location" => r.funnel
  BY DEF Sound
<1>7. Verdict(r, code, body) =
         IF ~r.funnel THEN Direct(r, code, body)
         ELSE IF r.out = "location" THEN ExtractID(r, code, body)
         ELSE IF r.out = "stream" THEN DoStream(r, code, body)
         ELSE IF r.out = "text" THEN DoText(r, code, body)
         ELSE DoJSON(r, code, body)
  BY DEF Verdict
<1> QED
  BY <1>1, <1>2, <1>3, <1>4, <1>5, <1>6, <1>7

\* A refusal leads to no next request, and is a success only of what is in
\* force already.
LEMMA RefusalEnds ==
    ASSUME Typed, NEW code \in Refusals, NEW body \in Bodies,
           Now.out = "location" => body \in {"empty", "cut"},
           Verdict(Now, code, body) = "ok"
    PROVE  nth = Len(Reqs) /\ code = 304
<1>1. code \in AnyStatus
  BY DEF AnyStatus
<1>2. code \in Now.ok /\ Now.out # "location"
  BY <1>1, EntryFacts, Verdicts
<1>3. code = 304
  BY <1>2, EntryFacts DEF Sound
<1>4. ~(nth < Len(Reqs))
  BY <1>2, EntryFacts DEF Leads
<1> QED
  BY <1>3, <1>4, EntryFacts

\* A call that has not begun.
LEMMA InitInv == ConstantsOK /\ Init => IInv
<1> SUFFICES ASSUME ConstantsOK, Init PROVE IInv
  OBVIOUS
<1>1. SoundReqs(Reqs) /\ 1 \in DOMAIN Reqs
  BY EntriesSound DEF Init, AtItsHost, Reqs, SoundReqs
<1>2. Typed
  <2>1. applied \in [DOMAIN Reqs -> Nat] /\ silent \in [DOMAIN Reqs -> Nat]
        /\ blank \in [DOMAIN Reqs -> BOOLEAN]
    BY DEF Init
  <2>2. entry \in Entries /\ nth = 1 /\ sends \in 0 .. Attempts /\ waiting = FALSE
        /\ moot = FALSE /\ end = "none"
    BY DEF Init, ConstantsOK
  <2> QED
    BY <1>1, <2>1, <2>2 DEF Typed, Ends
<1>3. DoneInOrder
  BY <1>1, <1>2 DEF Init, DoneInOrder, SoundReqs
<1>4. NoneBuiltOnBlank /\ FailureExplained
  BY <1>1 DEF Init, NoneBuiltOnBlank, FailureExplained, SoundReqs
<1> QED
  BY <1>2, <1>3, <1>4 DEF IInv

\* The arguments are checked, and the request goes out or the call fails.
LEMMA BeginInv == ASSUME ConstantsOK, IInv, Begin PROVE IInv'
<1>1. /\ Running /\ ~waiting /\ Reqs' = Reqs /\ Now' = Now /\ nth' = nth
      /\ applied' = applied /\ silent' = silent /\ blank' = blank /\ moot' = moot
      /\ entry' = entry /\ lacks' = lacks
  BY DEF Begin, Reqs, Now, callVars
<1>2. Typed /\ DoneInOrder /\ NoneBuiltOnBlank /\ FailureExplained
  BY DEF IInv
<1>3. CASE Missing /\ end' = "config" /\ trouble' = trouble \cup {"argument"}
           /\ waiting' = waiting /\ sends' = sends
  <2>1. Typed'
    BY <1>1, <1>2, <1>3 DEF Typed, Running, Ends
  <2>2. DoneInOrder'
    BY <1>1, <1>2, <1>3 DEF DoneInOrder, Running
  <2>3. NoneBuiltOnBlank'
    BY <1>1, <1>2, <1>3 DEF NoneBuiltOnBlank, Running
  <2>4. lacks # "nothing" \/ "body" \in trouble
    <3>1. CASE lacks \in Now.needs
      BY <3>1, <1>2, EntryFacts DEF Sound
    <3>2. CASE "fetched.ID" \in Now.needs /\ blank[nth - 1]
      <4>1. nth - 1 \in DOMAIN Reqs /\ nth - 1 < nth
        BY <3>2, <1>2, EntryFacts DEF SoundReqs
      <4> QED
        BY <3>2, <4>1, <1>2 DEF NoneBuiltOnBlank
    <3> QED
      BY <1>3, <3>1, <3>2 DEF Missing
  <2>5. FailureExplained'
    BY <2>4, <1>1, <1>2, <1>3 DEF FailureExplained
  <2> QED
    BY <2>1, <2>2, <2>3, <2>5 DEF IInv
<1>4. CASE ~Missing /\ waiting' = TRUE /\ end' = end /\ trouble' = trouble
           /\ sends' = IF Now.funnel THEN Attempts ELSE 1
  <2>1. Typed'
    BY <1>1, <1>2, <1>4 DEF Typed, Running, ConstantsOK
  <2>2. DoneInOrder'
    BY <1>1, <1>2, <1>4 DEF DoneInOrder, Running
  <2>3. NoneBuiltOnBlank'
    <3>1. ASSUME NEW i \in DOMAIN Reqs, Reqs[i].out = "value", i < nth PROVE ~blank[i]
      <4>1. CASE i + 1 < nth
        BY <3>1, <4>1, <1>2 DEF NoneBuiltOnBlank
      <4>2. CASE ~(i + 1 < nth)
        <5>1. i \in 1 .. Len(Reqs) /\ nth \in 1 .. Len(Reqs) /\ Len(Reqs) \in Nat
          BY <1>2, EntryFacts DEF SoundReqs
        <5>2. nth = i + 1 /\ i < Len(Reqs)
          BY <5>1, <4>2, <3>1
        <5>3. "fetched.ID" \in Now.needs
          BY <5>2, <3>1, <1>2, EntryFacts DEF SoundReqs, Leads, Now
        <5> QED
          BY <5>1, <5>2, <5>3, <1>4 DEF Missing
      <4> QED
        BY <4>1, <4>2
    <3> QED
      BY <3>1, <1>1, <1>2, <1>4 DEF NoneBuiltOnBlank
  <2>4. FailureExplained'
    BY <1>1, <1>2, <1>4 DEF FailureExplained
  <2> QED
    BY <2>1, <2>2, <2>3, <2>4 DEF IInv
<1> QED
  BY <1>3, <1>4 DEF Begin

\* No answer comes: the request is sent again, or the call fails.
LEMMA UnansweredInv == ASSUME ConstantsOK, IInv, Unanswered PROVE IInv'
<1>1. /\ Running /\ waiting /\ Reqs' = Reqs /\ Now' = Now /\ nth' = nth
      /\ waiting' = waiting /\ blank' = blank /\ moot' = moot
      /\ entry' = entry /\ lacks' = lacks /\ sends' = sends - 1
      /\ trouble' = trouble \cup {"silent"}
      /\ silent' = [silent EXCEPT ![nth] = @ + 1]
      /\ end' = IF sends = 1 THEN "communication" ELSE end
      /\ applied' = applied \/ applied' = [applied EXCEPT ![nth] = @ + 1]
  BY DEF Unanswered, Reqs, Now, callVars, CarryOut
<1>2. Typed /\ DoneInOrder /\ NoneBuiltOnBlank /\ FailureExplained
  BY DEF IInv
<1>3. Typed'
  <2>1. sends \in 0 .. Attempts /\ sends >= 1 /\ Attempts \in Nat
    BY <1>1, <1>2 DEF Typed, ConstantsOK
  <2>2. sends' \in 0 .. Attempts /\ (end' = "none" => sends' >= 1) /\ end' \in Ends
    BY <2>1, <1>1, <1>2 DEF Typed, Ends
  <2>3. applied' \in [DOMAIN Reqs -> Nat] /\ silent' \in [DOMAIN Reqs -> Nat]
    BY <1>1, <1>2 DEF Typed
  <2> QED
    BY <2>2, <2>3, <1>1, <1>2 DEF Typed, Running
<1>4. DoneInOrder'
  <2>1. applied \in [DOMAIN Reqs -> Nat] /\ silent \in [DOMAIN Reqs -> Nat] /\ nth \in DOMAIN Reqs
        /\ DOMAIN Reqs = 1 .. Len(Reqs) /\ Len(Reqs) \in Nat
    BY <1>2, EntryFacts DEF Typed, SoundReqs
  <2>2. \A i \in DOMAIN Reqs : i # nth => applied'[i] = applied[i] /\ silent'[i] = silent[i]
    BY <1>1, <2>1
  <2>3. silent'[nth] = silent[nth] + 1 /\ applied'[nth] \in {applied[nth], applied[nth] + 1}
    BY <1>1, <2>1
  <2>4. applied[nth] <= silent[nth] /\ end' # "ok"
    BY <1>1, <1>2 DEF DoneInOrder, Running
  <2>5. /\ \A i \in DOMAIN Reqs : applied'[i] <= 1 + silent'[i]
        /\ \A i \in DOMAIN Reqs : i > nth => applied'[i] = 0 /\ silent'[i] = 0
        /\ \A i \in DOMAIN Reqs : i < nth => applied'[i] > 0 \/ moot
        /\ applied'[nth] <= silent'[nth]
    <3>1. applied'[nth] <= silent'[nth] /\ applied'[nth] <= 1 + silent'[nth]
          /\ (applied[nth] > 0 => applied'[nth] > 0)
      <4> DEFINE a == applied[nth]
                 b == silent[nth]
                 a1 == applied'[nth]
                 b1 == silent'[nth]
      <4>1. a \in Nat /\ b \in Nat /\ a <= b /\ b1 = b + 1 /\ a1 \in {a, a + 1}
        BY <2>1, <2>3, <2>4
      <4> HIDE DEF a, b, a1, b1
      <4>2. a1 <= b1 /\ a1 <= 1 + b1 /\ (a > 0 => a1 > 0)
        BY <4>1
      <4> QED
        BY <4>2 DEF a, b, a1, b1
    <3>2. \A i \in DOMAIN Reqs : applied'[i] <= 1 + silent'[i]
      BY <3>1, <2>2, <1>2 DEF DoneInOrder
    <3>3. nth \in Nat /\ \A i \in DOMAIN Reqs : i > nth => i # nth
      BY <2>1
    <3>4. /\ \A i \in DOMAIN Reqs : i > nth => applied'[i] = 0 /\ silent'[i] = 0
          /\ \A i \in DOMAIN Reqs : i < nth => applied'[i] > 0 \/ moot
      BY <3>1, <3>3, <2>2, <1>2 DEF DoneInOrder
    <3> QED
      BY <3>1, <3>2, <3>4
  <2> QED
    BY <2>4, <2>5, <1>1 DEF DoneInOrder
<1>5. NoneBuiltOnBlank'
  BY <1>1, <1>2 DEF NoneBuiltOnBlank, Running
<1>6. FailureExplained'
  BY <1>1, <1>2 DEF FailureExplained, Running
<1> QED
  BY <1>3, <1>4, <1>5, <1>6 DEF IInv

\* What an answer may not change, and where it leads.
LEMMA ConcludeMoves ==
    ASSUME IInv, Running, waiting, NEW code \in AnyStatus, NEW body \in Bodies,
           Conclude(code, body), UNCHANGED <<entry, lacks, sends, silent>>,
           applied' \in [DOMAIN Reqs -> Nat], moot' \in BOOLEAN
    PROVE  /\ Typed' /\ Reqs' = Reqs /\ waiting' = FALSE
           /\ blank' = [blank EXCEPT ![nth] = body = "empty"]
           /\ \/ /\ Verdict(Now, code, body) = "ok" /\ nth < Len(Reqs)
                 /\ nth' = nth + 1 /\ end' = "none"
              \/ /\ ~(Verdict(Now, code, body) = "ok" /\ nth < Len(Reqs))
                 /\ nth' = nth /\ end' = Verdict(Now, code, body)
<1>1. Typed
  BY DEF IInv
<1>2. /\ Reqs' = Reqs /\ waiting' = FALSE /\ end = "none"
      /\ blank' = [blank EXCEPT ![nth] = body = "empty"]
      /\ \/ /\ Verdict(Now, code, body) = "ok" /\ nth < Len(Reqs)
            /\ nth' = nth + 1 /\ end' = "none"
         \/ /\ ~(Verdict(Now, code, body) = "ok" /\ nth < Len(Reqs))
            /\ nth' = nth /\ end' = Verdict(Now, code, body)
  BY DEF Conclude, Reqs, Running
<1>3. nth' \in DOMAIN Reqs
  BY <1>1, <1>2, EntryFacts DEF SoundReqs
<1>4. end' \in Ends
  BY <1>1, <1>2, EntryFacts, Verdicts DEF Ends
<1>5. blank' \in [DOMAIN Reqs -> BOOLEAN]
  BY <1>1, <1>2 DEF Typed
<1>6. Typed'
  BY <1>1, <1>2, <1>3, <1>4, <1>5 DEF Typed, Running
<1> QED
  BY <1>2, <1>6

\* After an answer nothing is sent until the next request is begun, and a value
\* that came without its body is noted.
LEMMA ConcludeBlank ==
    ASSUME IInv, Running, waiting, NEW code \in AnyStatus, NEW body \in Bodies,
           Conclude(code, body), UNCHANGED <<entry, lacks, sends, silent>>,
           applied' \in [DOMAIN Reqs -> Nat], moot' \in BOOLEAN,
           trouble \subseteq trouble',
           nth' # nth /\ body = "empty" => "body" \in trouble'
    PROVE  NoneBuiltOnBlank'
<1>1. Typed /\ NoneBuiltOnBlank
  BY DEF IInv
<1>2. Reqs' = Reqs /\ waiting' = FALSE /\ blank' = [blank EXCEPT ![nth] = body = "empty"]
      /\ (nth' = nth \/ (nth' = nth + 1 /\ end' = "none"))
  BY ConcludeMoves
<1>3. nth \in DOMAIN Reqs /\ DOMAIN Reqs = 1 .. Len(Reqs) /\ Len(Reqs) \in Nat
      /\ blank \in [DOMAIN Reqs -> BOOLEAN]
  BY <1>1, EntryFacts DEF Typed, SoundReqs
<1>4. \A i \in DOMAIN Reqs : i # nth => blank'[i] = blank[i]
  BY <1>2, <1>3
<1>5. blank'[nth] <=> body = "empty"
  BY <1>2, <1>3
<1>6. \A i \in DOMAIN Reqs : i < nth' /\ blank'[i] => "body" \in trouble'
  <2> SUFFICES ASSUME NEW i \in DOMAIN Reqs, i < nth', blank'[i] PROVE "body" \in trouble'
    OBVIOUS
  <2>1. CASE i = nth
    BY <2>1, <1>2, <1>3, <1>5
  <2>2. CASE i # nth
    <3>1. i < nth /\ blank[i]
      BY <2>2, <1>2, <1>3, <1>4
    <3> QED
      BY <3>1, <1>1 DEF NoneBuiltOnBlank
  <2> QED
    BY <2>1, <2>2
<1>7. \A i \in DOMAIN Reqs :
         Reqs[i].out = "value" /\ i < nth' /\ (i + 1 < nth' \/ end' = "ok") => ~blank'[i]
  BY <1>1, <1>2, <1>3, <1>4 DEF NoneBuiltOnBlank
<1> QED
  BY <1>2, <1>6, <1>7 DEF NoneBuiltOnBlank

\* An answer of a request that was carried out.
LEMMA ServedInv ==
    ASSUME ConstantsOK, IInv, NEW code \in AnyStatus, NEW body \in Bodies,
           Served(code, body)
    PROVE  IInv'
<1>1. /\ Running /\ waiting /\ Conclude(code, body)
      /\ applied' = [applied EXCEPT ![nth] = @ + 1]
      /\ trouble' = trouble \cup (IF code \in Now.ok THEN {} ELSE {"status"})
                            \cup (IF body = "whole" THEN {} ELSE {"body"})
      /\ entry' = entry /\ lacks' = lacks /\ sends' = sends
      /\ silent' = silent /\ moot' = moot
  BY DEF Served, CarryOut, callVars
<1>2. Typed /\ DoneInOrder /\ FailureExplained /\ Sound(Now)
  BY EntryFacts DEF IInv
<1>3. applied' \in [DOMAIN Reqs -> Nat] /\ moot' \in BOOLEAN
  BY <1>1, <1>2 DEF Typed
<1>4. /\ Typed' /\ Reqs' = Reqs
      /\ \/ /\ Verdict(Now, code, body) = "ok" /\ nth < Len(Reqs)
            /\ nth' = nth + 1 /\ end' = "none"
         \/ /\ ~(Verdict(Now, code, body) = "ok" /\ nth < Len(Reqs))
            /\ nth' = nth /\ end' = Verdict(Now, code, body)
  BY <1>1, <1>3, ConcludeMoves
<1>5. NoneBuiltOnBlank'
  BY <1>1, <1>3, ConcludeBlank
<1>6. DoneInOrder'
  <2>1. applied \in [DOMAIN Reqs -> Nat] /\ silent \in [DOMAIN Reqs -> Nat] /\ nth \in DOMAIN Reqs
        /\ DOMAIN Reqs = 1 .. Len(Reqs) /\ Len(Reqs) \in Nat /\ end = "none"
    BY <1>1, <1>2, EntryFacts DEF Typed, SoundReqs, Running
  <2>2. applied'[nth] = applied[nth] + 1 /\ applied[nth] <= silent[nth]
        /\ \A i \in DOMAIN Reqs : i # nth => applied'[i] = applied[i]
    BY <1>1, <1>2, <2>1 DEF DoneInOrder, Running
  <2>3. (nth' = nth /\ end' # "none") \/ (nth' = nth + 1 /\ end' = "none")
    BY <1>2, <1>4, Verdicts
  <2>4. end' = "ok" => nth' = Len(Reqs)
    BY <1>4, <2>1
  <2>5. /\ \A i \in DOMAIN Reqs : applied'[i] <= 1 + silent[i]
        /\ \A i \in DOMAIN Reqs : i > nth' => applied'[i] = 0 /\ silent[i] = 0
        /\ \A i \in DOMAIN Reqs : i < nth' => applied'[i] > 0 \/ moot
    BY <2>1, <2>2, <2>3, <1>2 DEF DoneInOrder
  <2>6. /\ end' = "none" => applied'[nth'] <= silent[nth']
        /\ silent[nth'] > 0 => "silent" \in trouble'
        /\ end' = "ok" => applied'[nth'] > 0
    <3>1. nth' \in DOMAIN Reqs
      BY <1>4 DEF Typed
    <3> QED
      BY <3>1, <2>1, <2>2, <2>3, <1>1, <1>2 DEF DoneInOrder
  <2> QED
    BY <2>4, <2>5, <2>6, <1>1, <1>4 DEF DoneInOrder, Running
<1>7. FailureExplained'
  BY <1>1, <1>2, <1>4, Verdicts DEF FailureExplained
<1> QED
  BY <1>4, <1>5, <1>6, <1>7 DEF IInv

\* An answer of a request that was refused.
LEMMA RefusedInv ==
    ASSUME ConstantsOK, IInv, NEW code \in AnyStatus, NEW body \in Bodies,
           Refused(code, body)
    PROVE  IInv'
<1>1. /\ Running /\ waiting /\ Conclude(code, body) /\ code \in Refusals
      /\ Now.out = "location" => body \in {"empty", "cut"}
      /\ moot' = (moot \/ code = 304)
      /\ trouble' = IF AtHome /\ ~Gone THEN trouble \cup {"refused"} ELSE trouble
      /\ entry' = entry /\ lacks' = lacks /\ sends' = sends
      /\ silent' = silent /\ applied' = applied
  BY DEF Refused, callVars
<1>2. Typed /\ DoneInOrder /\ FailureExplained /\ Sound(Now) /\ AtHome
  BY EntryFacts DEF IInv
<1>3. applied' \in [DOMAIN Reqs -> Nat] /\ moot' \in BOOLEAN
  BY <1>1, <1>2 DEF Typed
<1>4. /\ Typed' /\ Reqs' = Reqs
      /\ \/ /\ Verdict(Now, code, body) = "ok" /\ nth < Len(Reqs)
            /\ nth' = nth + 1 /\ end' = "none"
         \/ /\ ~(Verdict(Now, code, body) = "ok" /\ nth < Len(Reqs))
            /\ nth' = nth /\ end' = Verdict(Now, code, body)
  BY <1>1, <1>3, ConcludeMoves
<1>5. nth' = nth /\ end' = Verdict(Now, code, body)
      /\ (end' = "ok" => nth = Len(Reqs) /\ code = 304)
  <2>1. nth \in Nat /\ Len(Reqs) \in Nat
    BY <1>2, EntryFacts
  <2>2. Verdict(Now, code, body) = "ok" => nth = Len(Reqs) /\ code = 304
    BY <1>1, <1>2, RefusalEnds
  <2> QED
    BY <2>1, <2>2, <1>4
<1>6. NoneBuiltOnBlank'
  BY <1>1, <1>3, <1>5, ConcludeBlank
<1>7. "refused" \in trouble' \/ "silent" \in trouble'
  <2>1. CASE Gone
    <3>1. applied[nth] > 0 /\ applied[nth] <= silent[nth] /\ nth \in DOMAIN Reqs
          /\ applied \in [DOMAIN Reqs -> Nat] /\ silent \in [DOMAIN Reqs -> Nat]
      BY <2>1, <1>1, <1>2 DEF Gone, DoneInOrder, Typed
    <3>2. silent[nth] > 0
      BY <3>1
    <3> QED
      BY <3>2, <1>1, <1>2 DEF DoneInOrder
  <2> QED
    BY <2>1, <1>1, <1>2
<1>8. DoneInOrder'
  <2>1. end' # "none" /\ (end' = "ok" => moot') /\ (moot => moot') /\ trouble \subseteq trouble'
    BY <1>1, <1>2, <1>5, Verdicts
  <2> QED
    BY <2>1, <1>1, <1>2, <1>4, <1>5 DEF DoneInOrder, Running
<1>9. FailureExplained'
  BY <1>1, <1>2, <1>5, <1>7, Verdicts DEF FailureExplained
<1> QED
  BY <1>4, <1>6, <1>8, <1>9 DEF IInv

\* Every step keeps the invariant.
LEMMA NextInv == ConstantsOK /\ IInv /\ [Next]_vars => IInv'
<1> SUFFICES ASSUME ConstantsOK, IInv, [Next]_vars PROVE IInv'
  OBVIOUS
<1>1. CASE Begin
  BY <1>1, BeginInv
<1>2. CASE Unanswered
  BY <1>2, UnansweredInv
<1>3. CASE \E code \in AnyStatus, body \in Bodies : Served(code, body) \/ Refused(code, body)
  BY <1>3, ServedInv, RefusedInv
<1>4. CASE UNCHANGED vars
  BY <1>4 DEF IInv, Typed, DoneInOrder, NoneBuiltOnBlank, FailureExplained, vars, callVars,
     Reqs, Running
<1> QED
  BY <1>1, <1>2, <1>3, <1>4 DEF Next

\* What the runs check follows from it.
LEMMA Consequences == IInv => TypeOK /\ SuccessIsComplete /\ OutcomeExplained
<1> SUFFICES ASSUME IInv PROVE TypeOK /\ SuccessIsComplete /\ OutcomeExplained
  OBVIOUS
<1>1. Typed /\ DoneInOrder /\ NoneBuiltOnBlank /\ FailureExplained
  BY DEF IInv
<1>2. SoundReqs(Reqs) /\ nth \in 1 .. Len(Reqs) /\ Len(Reqs) \in Nat /\ DOMAIN Reqs = 1 .. Len(Reqs)
  BY <1>1, EntryFacts DEF SoundReqs
<1>3. TypeOK
  BY <1>1, <1>2 DEF Typed, TypeOK, SoundReqs, Sound, Ends
<1>4. SuccessIsComplete
  BY <1>1, <1>2 DEF SuccessIsComplete, DoneInOrder, NoneBuiltOnBlank
<1>5. EffectsExplained
  <2>1. applied \in [DOMAIN Reqs -> Nat]
    BY <1>1 DEF Typed
  <2>2. ASSUME NEW i \in DOMAIN Reqs, applied[i] > 0, NEW j \in 1 .. i - 1
        PROVE  applied[j] > 0 \/ moot
    <3>1. i <= nth
      <4>1. ~(i > nth)
        BY <1>1, <2>2 DEF DoneInOrder
      <4> QED
        BY <4>1, <1>2
    <3>2. j \in DOMAIN Reqs /\ j < nth
      BY <3>1, <1>2, <2>2
    <3> QED
      BY <3>2, <1>1 DEF DoneInOrder
  <2> QED
    BY <2>2, <1>1 DEF EffectsExplained, DoneInOrder
<1> QED
  BY <1>1, <1>3, <1>4, <1>5 DEF OutcomeExplained
=============================================================================
