-------------------------- MODULE AdminOperations --------------------------
(***************************************************************************)
(* The operations of the services of admin.AdminClient and of meta.        *)
(* MetaClient: how each handles its response, and the error messages of    *)
(* its service.  Names are qualified by service, since several services    *)
(* have an operation of the same name.                                     *)
(***************************************************************************)
EXTENDS OperationTables

PlanCalls ==
  "quota.ListPlans" :> Data({200}) @@ "quota.CreatePlan" :> Created @@
  Each({"quota.GetPlan", "quota.UpdatePlan"}, Validated) @@
  Each({"quota.DeletePlan", "quota.SetDefaultPlan"}, Status({204}))

AllowanceCalls ==
  "quota.ListAllowances" :> Data({200}) @@ "quota.CreateAllowance" :> Created @@
  "quota.UpdateAllowance" :> Validated @@ "quota.DeleteAllowance" :> Status({204})

UsageCalls ==
  Each({"quota.GetStats", "quota.Reconcile", "quota.Cleanup"}, Data({200})) @@
  "quota.ListUserConfigs" :> Unchecked @@ "quota.UpdateUserConfig" :> Validated @@
  "quota.ResetUserPlan" :> Status({204})

CreditCalls ==
  Each({"billing.ListCredits", "billing.PurgeCredits",
        "billing.GetUserDeletedCredits"}, Data({200})) @@
  "billing.CreateCredit" :> Created @@
  Each({"billing.GetCredit", "billing.RestoreCredit", "billing.GetUserBalance"},
       Validated) @@
  "billing.DeleteCredit" :> Status({204})

PriceLineCalls ==
  "billing.ListPriceLines" :> Data({200}) @@ "billing.CreatePriceLine" :> Created @@
  Each({"billing.GetPriceLine", "billing.UpdatePriceLine"}, Validated) @@
  Each({"billing.SyncPricingPlan", "billing.SyncAllPricingPlans"}, Status({200})) @@
  "billing.DeletePriceLine" :> Status({204})

PricingPlanCalls ==
  Each({"billing.ListPricingPlans", "billing.ListPricingPlanPeriods"}, Data({200})) @@
  Each({"billing.CreatePricingPlan", "billing.CreatePricingPlanPeriod"}, Created) @@
  Each({"billing.UpdatePricingPlan", "billing.GetPricingPlan",
        "billing.GetPricingPlanPeriod", "billing.UpdatePricingPlanPeriod"}, Validated) @@
  Each({"billing.DeletePricingPlan", "billing.DeletePricingPlanPeriod"}, Status({204}))

PriceLinePlanCalls ==
  Each({"billing.AddPlanToPriceLine", "billing.UpdatePlanPosition"}, Validated) @@
  "billing.DeletePlanFromPriceLine" :> Status({204})

SubscriberCalls ==
  Each({"billing.ListSubscribers", "billing.ListGatewaySubscribers",
        "billing.GetUserSubscribers"}, Data({200})) @@
  Each({"billing.GetSubscriber", "billing.CancelUserSubscription",
        "billing.AbortUserSubscriptionCancellation", "billing.ChangeUserPlan",
        "billing.PauseUserSubscription", "billing.ResumeUserSubscription"}, Validated)

WebsiteCalls ==
  Each({"website.BlockWebsite", "website.UnblockWebsite"}, Validated)

Profiles ==
  {"pprof.GetProfileIndex", "pprof.GetBlockProfile", "pprof.GetCmdline",
   "pprof.GetGoroutineProfile", "pprof.GetHeapProfile", "pprof.GetMutexProfile",
   "pprof.GetCPUProfile", "pprof.GetSymbol", "pprof.GetThreadcreate", "pprof.GetTrace"}

ProfilingRates == {"pprof.SetBlockProfileRate", "pprof.SetMutexProfileFraction"}

ProfilingCalls ==
  Each(Profiles, Raw({200})) @@ Each(ProfilingRates, Status({204})) @@
  "pprof.GetStatus" :> Validated

PlatformDomainCalls ==
  "domain.RegisterPlatformDomain" :> Created @@
  "domain.DeletePlatformDomain" :> Status({204}) @@
  Each({"domain.ListPlatformDomains", "domain.UpdatePlatformDomain",
        "domain.BindWebsiteToPlatformDomain"}, Validated)

SocialProviderCalls ==
  "social.CreateSocialProvider" :> Created @@
  "social.DeleteSocialProvider" :> Status({204}) @@
  Each({"social.ListSocialProviders", "social.GetSocialProvider",
        "social.UpdateSocialProvider", "social.EnableSocialProvider",
        "social.DisableSocialProvider"}, Validated)

UserCalls ==
  "user.CreateUser" :> Created @@
  "user.DeleteUser" :> Status({204}) @@
  Each({"user.ListUsers", "user.GetUser", "user.UpdateUser"}, Validated)

AdminCalls ==
  PlanCalls @@ AllowanceCalls @@ UsageCalls @@ CreditCalls @@ PriceLineCalls @@
  PricingPlanCalls @@ PriceLinePlanCalls @@ SubscriberCalls @@ WebsiteCalls @@
  ProfilingCalls @@ PlatformDomainCalls @@ SocialProviderCalls @@ UserCalls

\* The CID and stats services.
MetaCalls ==
  Each({"cid.GetStats", "cid.GetDAG", "cid.GetSiaObject", "stats.GetAggregate",
        "stats.GetProtocols"}, Validated)

-----------------------------------------------------------------------------
(* The messages.  Every operation has one for 401, which wraps             *)
(* ErrUnauthorized.  Most others are plain; the services added later wrap  *)
(* the sentinel of a 400 and a 404.                                        *)

\* quotaHTTPErrorMessages
QuotaServiceMessages ==
  Each({"quota.GetStats", "quota.Reconcile", "quota.Cleanup"}, Auth) @@
  Each({"quota.ListPlans", "quota.ListAllowances"}, Auth @@ PlainAt({400})) @@
  Each({"quota.GetPlan", "quota.SetDefaultPlan", "quota.DeleteAllowance",
        "quota.ResetUserPlan"}, Auth @@ PlainAt({404})) @@
  "quota.CreatePlan" :> (Auth @@ PlainAt({400, 409})) @@
  "quota.DeletePlan" :> (Auth @@ PlainAt({404, 409})) @@
  Each({"quota.UpdatePlan", "quota.CreateAllowance", "quota.UpdateAllowance",
        "quota.ListUserConfigs", "quota.UpdateUserConfig"}, Auth @@ PlainAt({400, 404}))

\* billingHTTPErrorMessages
AdminBillingMessages ==
  Each({"billing.ListCredits", "billing.ListPriceLines", "billing.ListPricingPlans",
        "billing.ListPricingPlanPeriods", "billing.ListSubscribers",
        "billing.SyncAllPricingPlans"}, Auth @@ PlainAt({403})) @@
  Each({"billing.PurgeCredits", "billing.CreatePriceLine", "billing.CreatePricingPlan",
        "billing.CreatePricingPlanPeriod"}, Auth @@ PlainAt({400, 403})) @@
  Each({"billing.GetCredit", "billing.DeleteCredit", "billing.RestoreCredit",
        "billing.GetUserBalance", "billing.GetUserDeletedCredits",
        "billing.GetPriceLine", "billing.DeletePriceLine", "billing.GetPricingPlan",
        "billing.DeletePricingPlan", "billing.GetPricingPlanPeriod",
        "billing.DeletePricingPlanPeriod", "billing.GetSubscriber",
        "billing.ListGatewaySubscribers", "billing.GetUserSubscribers"},
       Auth @@ PlainAt({403, 404})) @@
  Each({"billing.CreateCredit", "billing.UpdatePriceLine", "billing.UpdatePricingPlan",
        "billing.UpdatePricingPlanPeriod", "billing.CancelUserSubscription",
        "billing.AbortUserSubscriptionCancellation", "billing.ChangeUserPlan",
        "billing.PauseUserSubscription", "billing.ResumeUserSubscription",
        "billing.AddPlanToPriceLine", "billing.DeletePlanFromPriceLine",
        "billing.UpdatePlanPosition", "billing.SyncPricingPlan"},
       Auth @@ PlainAt({400, 403, 404}))

\* websiteHTTPErrorMessages
WebsiteMessages == Each(DOMAIN WebsiteCalls, Auth @@ PlainAt({400, 404}))

\* profilingHTTPErrorMessages
ProfilingMessages ==
  Each(ProfilingRates, Auth @@ PlainAt({400})) @@ Each(DOMAIN ProfilingCalls, Auth)

\* platformDomainHTTPErrorMessages
PlatformDomainMessages ==
  LET Guarded == Auth @@ PlainAt({403}) IN
  "domain.ListPlatformDomains" :> Guarded @@
  "domain.RegisterPlatformDomain" :> (Guarded @@ Bad) @@
  "domain.DeletePlatformDomain" :> (Guarded @@ Missing) @@
  Each({"domain.UpdatePlatformDomain", "domain.BindWebsiteToPlatformDomain"},
       Guarded @@ Bad @@ Missing)

\* socialProviderHTTPErrorMessages
SocialProviderMessages ==
  LET Guarded == Auth @@ PlainAt({403}) IN
  "social.ListSocialProviders" :> Guarded @@
  "social.CreateSocialProvider" :> (Guarded @@ Bad) @@
  "social.UpdateSocialProvider" :> (Guarded @@ Bad @@ Missing) @@
  Each({"social.GetSocialProvider", "social.DeleteSocialProvider",
        "social.EnableSocialProvider", "social.DisableSocialProvider"},
       Guarded @@ Missing)

\* userHTTPErrorMessages; a user that fails validation (422) is a bad request.
UserMessages ==
  LET Guarded == Auth @@ PlainAt({403}) IN
  "user.ListUsers" :> Guarded @@
  "user.CreateUser" :> (Guarded @@ Bad @@ 422 :> "ErrBadRequest") @@
  "user.UpdateUser" :> (Guarded @@ Bad @@ Missing) @@
  Each({"user.GetUser", "user.DeleteUser"}, Guarded @@ Missing)

AdminMessages ==
  QuotaServiceMessages @@ AdminBillingMessages @@ WebsiteMessages @@ ProfilingMessages @@
  PlatformDomainMessages @@ SocialProviderMessages @@ UserMessages

\* cidHTTPErrorMessages and statsHTTPErrorMessages
MetaMessages ==
  Each({"cid.GetStats", "cid.GetDAG", "cid.GetSiaObject"}, Auth @@ PlainAt({403, 404})) @@
  Each({"stats.GetAggregate", "stats.GetProtocols"}, Auth @@ PlainAt({403}))

\* Operations that test the request they are passed for nil.
RequestTested ==
  {"user.CreateUser", "user.UpdateUser", "social.CreateSocialProvider",
   "social.UpdateSocialProvider"}
=============================================================================
