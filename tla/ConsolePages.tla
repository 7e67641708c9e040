---------------------------- MODULE ConsolePages ----------------------------
(* The console's API modules, queries, mutations and pages (services/frontend), *)
(* as tables for QueryCache.  The signed-in user is an owner: every <Can>      *)
(* renders its children and the server refuses nothing for a role.            *)
(*                                                                            *)
(* An API function stands for the database tables it reads (GET) or changes    *)
(* (any other method).  Audit trails, which every function writes in the       *)
(* background, are not counted.  Parts of a key that vary (an id, a filter, a  *)
(* page number, a period) stand for one arbitrary value of theirs.            *)
EXTENDS TLC

-----------------------------------------------------------------------------
(* lib/api: what each function reads or changes on the server. *)

adminAPI == [
  stats |-> {"tenants", "admins", "users", "assets", "findings", "scans", "policies"},
  tenants |-> {"tenants", "users", "assets", "findings"},
  suspendTenant |-> {"tenants"}, activateTenant |-> {"tenants"},
  deleteTenant |-> {"tenants"},
  admins |-> {"admins"}, createAdmin |-> {"admins"}, disableAdmin |-> {"admins"},
  enableAdmin |-> {"admins"}, audit |-> {"platformAudit"},
  beginMFA |-> {}, verifyMFA |-> {"admins"}]

aiGovAPI == [
  listSystems |-> {"aiSystems", "aiModels"}, createSystem |-> {"aiSystems"},
  updateSystem |-> {"aiSystems"},
  deleteSystem |-> {"aiSystems", "aiModels", "aiAssessments", "aiAttestations"},
  listModels |-> {"aiModels"}, discover |-> {"aiModels", "events"},
  usage |-> {"events"}, promote |-> {"aiSystems", "aiModels"}, frameworks |-> {},
  listAssessments |-> {"aiAssessments"}, upsertAssessment |-> {"aiAssessments"},
  riskRegister |-> {"aiSystems", "aiAssessments"},
  transition |-> {"aiSystems", "aiAttestations"}, listAttestations |-> {"aiAttestations"}]

alertsAPI == [list |-> {"alerts"}, unread |-> {"alerts"}, acknowledge |-> {"alerts"},
              acknowledgeAll |-> {"alerts"}, delete |-> {"alerts"}]

apiKeysAPI == [list |-> {"apiKeys"}, create |-> {"apiKeys"}, revoke |-> {"apiKeys"}]

(* The server answers an asset's listDataFlows with an empty list. *)
assetsAPI == [
  list |-> {"assets"}, get |-> {"assets"}, create |-> {"assets"},
  delete |-> {"assets", "scans", "findings", "flows", "alerts"},
  listScans |-> {"scans"}, listFindings |-> {"findings"},
  triggerScan |-> {"assets", "scans"}, listDataFlows |-> {}]

auditAPI == [list |-> {"auditLog"}]

authAPI == [getSSO |-> {"sso"}, updateSSO |-> {"sso"}, deleteSSO |-> {"sso"},
            generateScimToken |-> {"sso"}, revokeScimToken |-> {"sso"},
            changePassword |-> {}, inviteUser |-> {"users"}]

breachesAPI == [
  list |-> {"breaches"}, stats |-> {"breaches"}, get |-> {"breaches"},
  create |-> {"breaches"}, update |-> {"breaches"}, addNote |-> {"breaches"},
  notifyBoard |-> {"breaches"}, notifyPrincipals |-> {"breaches"},
  close |-> {"breaches"}, remove |-> {"breaches"}]

consentAPI == [summary |-> {"consents"}, byPrincipal |-> {"consents"},
               record |-> {"consents"}, withdraw |-> {"consents"},
               withdrawAll |-> {"consents"}]

dashboardAPI == [
  getSummary |-> {"assets", "scans", "findings", "alerts", "rights", "policies"},
  getDPDPStatus |-> {"consents", "rights", "policies"}, getTrends |-> {"findings"}]

detectionAPI == [get |-> {"detection"}, update |-> {"detection"}]

findingsAPI == [list |-> {"findings"}, summary |-> {"findings"},
                resolve |-> {"findings"}, markFalsePositive |-> {"findings"}]

gatewayAPI == [listRules |-> {"rules"}, createRule |-> {"rules"}, updateRule |-> {"rules"},
               deleteRule |-> {"rules"}, toggleRule |-> {"rules"}, getStats |-> {"events"},
               listDataFlows |-> {"flows"}, approveDataFlow |-> {"flows"}]

lineageAPI == [get |-> {"assets", "findings", "flows"}]

policiesAPI == [
  list |-> {"policies"}, create |-> {"policies", "rules"}, update |-> {"policies", "rules"},
  delete |-> {"policies", "rules"}, activate |-> {"policies", "rules"},
  deactivate |-> {"policies", "rules"}, getTemplates |-> {},
  applyTemplate |-> {"policies", "rules"}]

reportsAPI == [list |-> {"reports"}, generate |-> {"reports"}, delete |-> {"reports"}]

rightsAPI == [list |-> {"rights"}, create |-> {"rights"}, update |-> {"rights"},
              complete |-> {"rights"}, reject |-> {"rights"}, verify |-> {"rights"},
              approve |-> {"rights"}, overdue |-> {"rights"}, search |-> {}]

teamAPI == [list |-> {"users"}, update |-> {"users"}, remove |-> {"users"}]

webhooksAPI == [list |-> {"webhooks"}, create |-> {"webhooks"}, update |-> {"webhooks"},
                remove |-> {"webhooks"}, getPrefs |-> {"prefs"}, updatePrefs |-> {"prefs"}]

-----------------------------------------------------------------------------
(* useQuery: the key, what the query function reads, and when it polls. *)

Polled(key, tables, when) == [key |-> key, reads |-> tables, poll |-> when]
Cached(key, tables) == Polled(key, tables, "never")

TopbarQueries == [unread |-> Polled(<<"alerts", "unread">>, alertsAPI.unread, "always")]

DashboardQueries == [
  summary |-> Cached(<<"dashboard", "summary">>, dashboardAPI.getSummary),
  dpdp |-> Cached(<<"dashboard", "dpdp">>, dashboardAPI.getDPDPStatus),
  findingsSummary |-> Cached(<<"findings", "summary">>, findingsAPI.summary),
  trends |-> Cached(<<"dashboard", "trends">>, dashboardAPI.getTrends),
  rightsUpcoming |-> Cached(<<"rights", "upcoming">>, rightsAPI.list),
  flows |-> Cached(<<"gateway", "flows">>, gatewayAPI.listDataFlows)]

FindingsQuery == [findings |-> Cached(<<"findings", "filters">>, findingsAPI.list)]

AssetsQuery == [assets |-> Cached(<<"assets", "filters">>, assetsAPI.list)]

AssetDetailQueries == [
  asset |-> Cached(<<"assets", "id">>, assetsAPI.get),
  assetScans |-> Cached(<<"assets", "id", "scans">>, assetsAPI.listScans),
  assetFindings |-> Cached(<<"assets", "id", "findings">>, assetsAPI.listFindings),
  assetFlows |-> Cached(<<"assets", "id", "flows">>, assetsAPI.listDataFlows)]

RightsQueries == [
  rights |-> Cached(<<"rights", "filters">>, rightsAPI.list),
  rightsOverdue |-> Cached(<<"rights", "overdue">>, rightsAPI.overdue)]

GatewayQueries == [
  gatewayStats |-> Polled(<<"gateway", "stats">>, gatewayAPI.getStats, "always"),
  rules |-> Cached(<<"gateway", "rules">>, gatewayAPI.listRules)]

PoliciesQuery == [policies |-> Cached(<<"policies", "filters">>, policiesAPI.list)]

TemplatesQuery == [templates |-> Cached(<<"policies", "templates">>, policiesAPI.getTemplates)]

ReportsQuery == [reports |-> Polled(<<"reports", "page">>, reportsAPI.list, "busy")]

AlertsQuery == [alerts |-> Cached(<<"alerts", "filters">>, alertsAPI.list)]

ConsentQueries == [
  consentSummary |-> Cached(<<"consent", "summary">>, consentAPI.summary),
  consentPrincipal |-> Cached(<<"consent", "principal", "id">>, consentAPI.byPrincipal)]

BreachQuery == [breach |-> Cached(<<"breach", "id">>, breachesAPI.get)]

BreachesQueries == [
  breachStats |-> Cached(<<"breaches", "stats">>, breachesAPI.stats),
  breaches |-> Cached(<<"breaches", "filters">>, breachesAPI.list)]

AuditQuery == [auditLog |-> Cached(<<"audit", "filters">>, auditAPI.list)]

LineageQuery == [lineage |-> Cached(<<"lineage">>, lineageAPI.get)]

DiscoveryQuery == [aiDiscovery |-> Cached(<<"ai", "discovery", "hours">>, aiGovAPI.discover)]

ModelsQuery == [aiModels |-> Cached(<<"ai", "models">>, aiGovAPI.listModels)]

SystemsQuery == [aiSystems |-> Cached(<<"ai", "systems">>, aiGovAPI.listSystems)]

UsageQuery == [aiUsage |-> Cached(<<"ai", "usage", "hours">>, aiGovAPI.usage)]

RiskQuery == [riskRegister |-> Cached(<<"ai", "risk-register">>, aiGovAPI.riskRegister)]

AssessmentQueries == [
  frameworks |-> Cached(<<"ai", "frameworks">>, aiGovAPI.frameworks),
  assessments |-> Cached(<<"ai", "assessments", "id">>, aiGovAPI.listAssessments)]

AttestationsQuery ==
  [attestations |-> Cached(<<"ai", "attestations", "id">>, aiGovAPI.listAttestations)]

TeamQuery == [team |-> Cached(<<"team">>, teamAPI.list)]

KeysQuery == [apiKeys |-> Cached(<<"apikeys">>, apiKeysAPI.list)]

DetectionQuery == [detection |-> Cached(<<"detection-settings">>, detectionAPI.get)]

SSOQuery == [sso |-> Cached(<<"sso">>, authAPI.getSSO)]

WebhooksQuery == [webhooks |-> Cached(<<"webhooks">>, webhooksAPI.list)]

PrefsQuery == [prefs |-> Cached(<<"webhooks", "prefs">>, webhooksAPI.getPrefs)]

AdminStatsQuery == [adminStats |-> Cached(<<"admin", "stats">>, adminAPI.stats)]

TenantsQuery == [tenants |-> Cached(<<"admin", "tenants", "page">>, adminAPI.tenants)]

AdminsQuery == [admins |-> Cached(<<"admin", "admins">>, adminAPI.admins)]

AdminAuditQuery == [adminAudit |-> Cached(<<"admin", "audit", "page">>, adminAPI.audit)]

ConsoleQuery ==
  TopbarQueries @@ DashboardQueries @@ FindingsQuery @@ AssetsQuery @@ AssetDetailQueries
  @@ RightsQueries @@ GatewayQueries @@ PoliciesQuery @@ TemplatesQuery @@ ReportsQuery
  @@ AlertsQuery @@ ConsentQueries @@ BreachQuery @@ BreachesQueries @@ AuditQuery
  @@ LineageQuery @@ DiscoveryQuery @@ ModelsQuery @@ SystemsQuery @@ UsageQuery @@ RiskQuery
  @@ AssessmentQueries @@ AttestationsQuery @@ TeamQuery @@ KeysQuery @@ DetectionQuery
  @@ SSOQuery @@ WebhooksQuery @@ PrefsQuery @@ AdminStatsQuery @@ TenantsQuery @@ AdminsQuery
  @@ AdminAuditQuery

-----------------------------------------------------------------------------
(* useMutation: what the call changes, and the keys whose prefixes onSuccess   *)
(* invalidates.                                                               *)

Mutation(tables, prefixes) ==
  [writes |-> tables, invalidates |-> prefixes, refetches |-> {}, async |-> FALSE]

FindingDetailOps == [
  resolve |-> Mutation(findingsAPI.resolve, {<<"findings">>}),
  falsePositive |-> Mutation(findingsAPI.markFalsePositive, {<<"findings">>})]

FindingsOps == [bulkResolve |-> Mutation(findingsAPI.resolve, {<<"findings">>})]

ConnectAssetOps == [connectAsset |-> Mutation(assetsAPI.create, {<<"assets">>})]

AssetsOps == [
  scanAsset |-> Mutation(assetsAPI.triggerScan, {<<"assets">>}),
  deleteAsset |-> Mutation(assetsAPI.delete, {<<"assets">>})]

AssetDetailOps == [
  scanThisAsset |-> Mutation(assetsAPI.triggerScan, {<<"assets", "id">>}),
  deleteThisAsset |-> Mutation(assetsAPI.delete, {<<"assets">>})]

CreateRequestOps == [createRequest |-> Mutation(rightsAPI.create, {<<"rights">>})]

RequestOps == [
  update |-> Mutation(rightsAPI.update, {<<"rights">>}),
  complete |-> Mutation(rightsAPI.complete, {<<"rights">>}),
  reject |-> Mutation(rightsAPI.reject, {<<"rights">>}),
  search |-> Mutation(rightsAPI.search, {}),
  verify |-> Mutation(rightsAPI.verify, {<<"rights">>}),
  approve |-> Mutation(rightsAPI.approve, {<<"rights">>})]

RuleFormOps ==
  [saveRule |-> Mutation(gatewayAPI.createRule \cup gatewayAPI.updateRule,
                         {<<"gateway", "rules">>})]

GatewayOps == [
  toggleRule |-> Mutation(gatewayAPI.toggleRule, {<<"gateway", "rules">>}),
  deleteRule |-> Mutation(gatewayAPI.deleteRule, {<<"gateway", "rules">>}),
  approveFlow |-> Mutation(gatewayAPI.approveDataFlow, {<<"gateway", "flows">>})]

PolicyFormOps ==
  [savePolicy |-> Mutation(policiesAPI.create \cup policiesAPI.update, {<<"policies">>})]

TemplateOps == [applyTemplate |-> Mutation(policiesAPI.applyTemplate, {<<"policies">>})]

PoliciesOps == [
  togglePolicy |-> Mutation(policiesAPI.activate \cup policiesAPI.deactivate, {<<"policies">>}),
  deletePolicy |-> Mutation(policiesAPI.delete, {<<"policies">>})]

(* A report is written by a worker: the call leaves a row `generating'. *)
GenerateOps ==
  [generate |-> [Mutation(reportsAPI.generate, {<<"reports">>}) EXCEPT !.async = TRUE]]

ReportsOps == [deleteReport |-> Mutation(reportsAPI.delete, {<<"reports">>})]

AlertsOps == [
  acknowledge |-> Mutation(alertsAPI.acknowledge, {<<"alerts">>}),
  acknowledgeAll |-> Mutation(alertsAPI.acknowledgeAll, {<<"alerts">>}),
  deleteAlert |-> Mutation(alertsAPI.delete, {<<"alerts">>})]

RecordConsentOps == [recordConsent |-> Mutation(consentAPI.record, {<<"consent">>})]

ConsentOps == [
  withdraw |-> Mutation(consentAPI.withdraw, {<<"consent">>}),
  withdrawAll |-> Mutation(consentAPI.withdrawAll, {<<"consent">>})]

BreachKeys == {<<"breach", "id">>, <<"breaches">>}

BreachDetailOps == [
  addNote |-> Mutation(breachesAPI.addNote, BreachKeys),
  removeBreach |-> Mutation(breachesAPI.remove, {})]

EditBreachOps == [editBreach |-> Mutation(breachesAPI.update, BreachKeys)]

NotifyBoardOps == [notifyBoard |-> Mutation(breachesAPI.notifyBoard, BreachKeys)]

NotifyPrincipalsOps == [notifyPrincipals |-> Mutation(breachesAPI.notifyPrincipals, BreachKeys)]

CloseBreachOps == [closeBreach |-> Mutation(breachesAPI.close, BreachKeys)]

CreateBreachOps == [createBreach |-> Mutation(breachesAPI.create, {<<"breaches">>})]

PromoteOps ==
  [promote |-> Mutation(aiGovAPI.promote,
                        {<<"ai", "discovery">>, <<"ai", "systems">>, <<"ai", "models">>})]

SystemFormOps ==
  [saveSystem |-> Mutation(aiGovAPI.createSystem \cup aiGovAPI.updateSystem,
                           {<<"ai", "systems">>, <<"ai", "discovery">>})]

SystemsOps ==
  [deleteSystem |-> Mutation(aiGovAPI.deleteSystem, {<<"ai", "systems">>, <<"ai", "discovery">>})]

LifecycleOps ==
  [transition |-> Mutation(aiGovAPI.transition,
     {<<"ai", "systems">>, <<"ai", "risk-register">>, <<"ai", "attestations", "id">>})]

AssessmentOps ==
  [saveAssessment |-> Mutation(aiGovAPI.upsertAssessment,
     {<<"ai", "risk-register">>, <<"ai", "assessments", "id">>})]

ProfileOps == [changePassword |-> Mutation(authAPI.changePassword, {})]

InviteOps == [invite |-> Mutation(authAPI.inviteUser, {<<"team">>})]

TeamOps == [
  updateRole |-> Mutation(teamAPI.update, {<<"team">>}),
  removeMember |-> Mutation(teamAPI.remove, {<<"team">>})]

KeyOps == [
  createKey |-> Mutation(apiKeysAPI.create, {<<"apikeys">>}),
  revokeKey |-> Mutation(apiKeysAPI.revoke, {<<"apikeys">>})]

DetectionOps == [saveDetection |-> Mutation(detectionAPI.update, {<<"detection-settings">>})]

AddWebhookOps == [addWebhook |-> Mutation(webhooksAPI.create, {<<"webhooks">>})]

IntegrationOps == [
  toggleWebhook |-> Mutation(webhooksAPI.update, {<<"webhooks">>}),
  removeWebhook |-> Mutation(webhooksAPI.remove, {<<"webhooks">>})]

PrefsOps == [savePrefs |-> Mutation(webhooksAPI.updatePrefs, {<<"webhooks", "prefs">>})]

(* The SSO tab reads its query again itself (onSaved, onChanged). *)
SSOOps == [
  saveSSO |-> [Mutation(authAPI.updateSSO, {<<"sso">>}) EXCEPT !.refetches = {"sso"}],
  removeSSO |-> [Mutation(authAPI.deleteSSO, {<<"sso">>}) EXCEPT !.refetches = {"sso"}]]

ScimOps == [
  generateToken |-> [Mutation(authAPI.generateScimToken, {}) EXCEPT !.refetches = {"sso"}],
  revokeToken |-> [Mutation(authAPI.revokeScimToken, {}) EXCEPT !.refetches = {"sso"}]]

TenantOps == [
  suspend |-> Mutation(adminAPI.suspendTenant, {<<"admin", "tenants">>}),
  activate |-> Mutation(adminAPI.activateTenant, {<<"admin", "tenants">>}),
  removeTenant |-> Mutation(adminAPI.deleteTenant, {<<"admin", "tenants">>})]

AdminOps == [
  createAdmin |-> Mutation(adminAPI.createAdmin, {<<"admin", "admins">>}),
  disableAdmin |-> Mutation(adminAPI.disableAdmin, {<<"admin", "admins">>}),
  enableAdmin |-> Mutation(adminAPI.enableAdmin, {<<"admin", "admins">>})]

OverviewOps == [
  beginMFA |-> Mutation(adminAPI.beginMFA, {}),
  verifyMFA |-> Mutation(adminAPI.verifyMFA, {})]

ConsoleOp ==
  FindingDetailOps @@ FindingsOps @@ ConnectAssetOps @@ AssetsOps @@ AssetDetailOps
  @@ CreateRequestOps @@ RequestOps @@ RuleFormOps @@ GatewayOps @@ PolicyFormOps
  @@ TemplateOps @@ PoliciesOps @@ GenerateOps @@ ReportsOps @@ AlertsOps
  @@ RecordConsentOps @@ ConsentOps @@ BreachDetailOps @@ EditBreachOps @@ NotifyBoardOps
  @@ NotifyPrincipalsOps @@ CloseBreachOps @@ CreateBreachOps @@ PromoteOps
  @@ SystemFormOps @@ SystemsOps @@ LifecycleOps @@ AssessmentOps @@ ProfileOps @@ InviteOps
  @@ TeamOps @@ KeyOps @@ DetectionOps @@ AddWebhookOps @@ IntegrationOps @@ PrefsOps
  @@ SSOOps @@ ScimOps @@ TenantOps @@ AdminOps @@ OverviewOps

-----------------------------------------------------------------------------
(* Components: what each mounts as long as it is on screen (shows), mounts for *)
(* some filter, tab or dialog (filters), the mutations it offers, and the     *)
(* queries of which it shows one row in a copy of its own (copies): a row     *)
(* kept by useState when the dialog was opened, which no new answer replaces. *)

Component(shows, filters, ops) ==
  [shows |-> shows, filters |-> filters, offers |-> DOMAIN ops, copies |-> {}]

(* A component with another one inside it, or a dialog of its own. *)
With(c, d) == [f \in DOMAIN c |-> c[f] \cup d[f]]

NoOps == <<>>
Dialog(ops) == Component({}, {}, ops)
Tab(c) == [c EXCEPT !.shows = {}, !.filters = c.shows \cup c.filters]
CopyOf(q, c) == [c EXCEPT !.copies = {q}]

Topbar == Component({"unread"}, {}, NoOps)

FindingDetail == CopyOf("findings", Dialog(FindingDetailOps))
FindingsContent ==
  With(Component({"findingsSummary"}, {"findings"}, FindingsOps), FindingDetail)

DashboardPage == Component(DOMAIN DashboardQueries, {}, NoOps)

ConnectAssetModal == Dialog(ConnectAssetOps)
AssetsContent == With(Component({}, {"assets"}, AssetsOps), ConnectAssetModal)
AssetDetailPage == Component({}, DOMAIN AssetDetailQueries, AssetDetailOps)

CreateRequestModal == Dialog(CreateRequestOps)
RequestModal == CopyOf("rights", Dialog(RequestOps))
RightsContent ==
  With(With(Component({"rightsOverdue"}, {"rights"}, NoOps), CreateRequestModal), RequestModal)

RuleForm == Dialog(RuleFormOps)
GatewayPage == With(Component({"gatewayStats", "rules", "flows"}, {}, GatewayOps), RuleForm)

PolicyForm == Dialog(PolicyFormOps)
TemplatesModal == Tab(Component({"templates"}, {}, TemplateOps))
PoliciesContent ==
  With(With(Component({}, {"policies"}, PoliciesOps), PolicyForm), TemplatesModal)

GenerateModal == Dialog(GenerateOps)
ReportsContent == With(Component({}, {"reports"}, ReportsOps), GenerateModal)

AlertsPage == Component({}, {"alerts"}, AlertsOps)

RecordConsentModal == Dialog(RecordConsentOps)
ConsentPage ==
  With(Component({"consentSummary"}, {"consentPrincipal"}, ConsentOps), RecordConsentModal)

EditDialog == Dialog(EditBreachOps)
NotifyBoardDialog == Dialog(NotifyBoardOps)
NotifyPrincipalsDialog == Dialog(NotifyPrincipalsOps)
CloseDialog == Dialog(CloseBreachOps)
BreachDetailPage ==
  With(With(With(With(Component({}, {"breach"}, BreachDetailOps), EditDialog),
                 NotifyBoardDialog), NotifyPrincipalsDialog), CloseDialog)

CreateBreachModal == Dialog(CreateBreachOps)
BreachesPage == With(Component({"breachStats"}, {"breaches"}, NoOps), CreateBreachModal)

AuditPage == Component({}, {"auditLog"}, NoOps)
LineagePage == Component({"lineage"}, {}, NoOps)

PromoteDialog == CopyOf("aiDiscovery", Dialog(PromoteOps))
AIDiscoveryPage == With(Component({}, {"aiDiscovery"}, NoOps), PromoteDialog)
AIModelCatalogPage == Component({"aiModels", "aiSystems"}, {}, NoOps)

SystemForm == Dialog(SystemFormOps)
LifecycleDialog ==
  CopyOf("aiSystems", Tab(Component({"attestations"}, {}, LifecycleOps)))
AISystemsPage == With(With(Component({"aiSystems"}, {}, SystemsOps), SystemForm), LifecycleDialog)

AIUsagePage == Component({}, {"aiUsage"}, NoOps)

FrameworkEditor == Dialog(AssessmentOps)
AssessmentDialog == With(Tab(Component(DOMAIN AssessmentQueries, {}, NoOps)), FrameworkEditor)
AIRiskRegisterPage == With(Component({"riskRegister"}, {}, NoOps), AssessmentDialog)

ProfileTab == Component({}, {}, ProfileOps)
InviteModal == Dialog(InviteOps)
TeamTab == With(Component({"team"}, {}, TeamOps), InviteModal)
ApiKeysTab == Component({"apiKeys"}, {}, KeyOps)
DetectionForm == Component({}, {}, DetectionOps)
DetectionTab == With(Component({"detection"}, {}, NoOps), DetectionForm)
SSOForm == Component({}, {}, SSOOps)
ScimSection == Component({}, {}, ScimOps)
SSOTab == With(With(Component({"sso"}, {}, NoOps), SSOForm), ScimSection)
AddWebhookForm == Dialog(AddWebhookOps)
PrefsForm == Component({}, {}, PrefsOps)
NotificationPrefsCard == With(Component({"prefs"}, {}, NoOps), PrefsForm)
IntegrationsTab ==
  With(With(Component({"webhooks"}, {}, IntegrationOps), AddWebhookForm), NotificationPrefsCard)
SettingsPage ==
  With(Tab(With(With(ProfileTab, TeamTab), With(ApiKeysTab, DetectionTab))),
       Tab(With(SSOTab, IntegrationsTab)))

AdminOverviewPage == Component({"adminStats"}, {}, OverviewOps)
AdminTenantsPage == Component({}, {"tenants"}, TenantOps)
AdminAdminsPage == Component({"admins"}, {}, AdminOps)
AdminAuditPage == Component({}, {"adminAudit"}, NoOps)

LoginPage == Component({}, {}, NoOps)

(* app/dashboard/layout.tsx puts the topbar above every page of the dashboard. *)
Dashboard == [
  dashboard |-> DashboardPage, findings |-> FindingsContent, assets |-> AssetsContent,
  asset |-> AssetDetailPage, rights |-> RightsContent, gateway |-> GatewayPage,
  policies |-> PoliciesContent, reports |-> ReportsContent, alerts |-> AlertsPage,
  consent |-> ConsentPage, breach |-> BreachDetailPage, breaches |-> BreachesPage,
  audit |-> AuditPage, lineage |-> LineagePage, discovery |-> AIDiscoveryPage,
  models |-> AIModelCatalogPage, systems |-> AISystemsPage, usage |-> AIUsagePage,
  risk |-> AIRiskRegisterPage, settings |-> SettingsPage]

ConsolePage ==
  [p \in DOMAIN Dashboard |-> With(Dashboard[p], Topbar)]
  @@ [adminOverview |-> AdminOverviewPage, adminTenants |-> AdminTenantsPage,
      adminAdmins |-> AdminAdminsPage, adminAudit |-> AdminAuditPage, login |-> LoginPage]

-----------------------------------------------------------------------------
(* What a dialog goes on showing. *)

Dialogs == {FindingDetail, RequestModal, PromoteDialog, LifecycleDialog}

(* The mutations of these dialogs whose onSuccess does not close the dialog.   *)
StaysOpen == DOMAIN RequestOps \ {"complete", "reject"}

(* A mutation that changes what the dialog it was made in shows, and leaves    *)
(* the dialog open: the copy keeps the state from before the user's change     *)
(* until the dialog is closed.                                                *)
OutdatedCopies ==
  {<<o, q>> \in (DOMAIN ConsoleOp) \X (DOMAIN ConsoleQuery) :
     /\ o \in StaysOpen /\ ConsoleOp[o].writes \cap ConsoleQuery[q].reads # {}
     /\ \E d \in Dialogs : o \in d.offers /\ q \in d.copies}

(* The dialog of a rights request is the only one: after an update, a          *)
(* verification or an approval it still shows the request as it was opened.    *)
ASSUME CopyAssumption == OutdatedCopies = {"update", "verify", "approve"} \X {"rights"}
=============================================================================
