------------------------------ MODULE AdminWire -------------------------------
(***************************************************************************)
(* The operations of the admin and meta services on the wire, as their     *)
(* generated clients send and read them (internal/admin/client.gen.go,     *)
(* internal/meta/client.gen.go, in their order): the method and path that  *)
(* New...Request builds (below /api, with {id} for a parameter), and the   *)
(* status codes whose JSON body Parse...Response decodes.  Query and       *)
(* header parameters and bodies are left out.                              *)
(***************************************************************************)
EXTENDS OperationTables

-----------------------------------------------------------------------------
(* New...Request. *)

CreditListRequests ==
  "billing.ListCredits" :> Get("/billing/credits")

CreditSetRequests ==
  "billing.CreateCredit" :> Post("/billing/credits") @@
  "billing.PurgeCredits" :> Post("/billing/credits/purge")

CreditRequests ==
  "billing.DeleteCredit" :> Delete("/billing/credits/{id}") @@
  "billing.GetCredit" :> Get("/billing/credits/{id}") @@
  "billing.RestoreCredit" :> Post("/billing/credits/{id}/restore")

SyncRequests ==
  "billing.ListGatewaySubscribers" :>
    Get("/billing/gateways/{id}/subscribers") @@
  "billing.SyncPricingPlan" :> Post("/billing/plans/{id}/sync")

PriceLineRequests ==
  "billing.ListPriceLines" :> Get("/billing/price-lines") @@
  "billing.CreatePriceLine" :> Post("/billing/price-lines")

PriceLineItemRequests ==
  "billing.DeletePriceLine" :> Delete("/billing/price-lines/{id}") @@
  "billing.GetPriceLine" :> Get("/billing/price-lines/{id}") @@
  "billing.UpdatePriceLine" :> Put("/billing/price-lines/{id}")

PriceLinePlanRequests ==
  "billing.AddPlanToPriceLine" :> Post("/billing/price-lines/{id}/plan") @@
  "billing.DeletePlanFromPriceLine" :>
    Delete("/billing/price-lines/{id}/plans/{id}") @@
  "billing.UpdatePlanPosition" :> Put("/billing/price-lines/{id}/plans/{id}")

PeriodRequests ==
  "billing.ListPricingPlanPeriods" :> Get("/billing/pricing-plan-periods") @@
  "billing.CreatePricingPlanPeriod" :> Post("/billing/pricing-plan-periods")

PeriodItemRequests ==
  "billing.DeletePricingPlanPeriod" :>
    Delete("/billing/pricing-plan-periods/{id}") @@
  "billing.GetPricingPlanPeriod" :>
    Get("/billing/pricing-plan-periods/{id}") @@
  "billing.UpdatePricingPlanPeriod" :>
    Put("/billing/pricing-plan-periods/{id}")

PricingPlanRequests ==
  "billing.ListPricingPlans" :> Get("/billing/pricing-plans") @@
  "billing.CreatePricingPlan" :> Post("/billing/pricing-plans") @@
  "billing.SyncAllPricingPlans" :> Post("/billing/pricing-plans/sync-all")

PricingPlanItemRequests ==
  "billing.DeletePricingPlan" :> Delete("/billing/pricing-plans/{id}") @@
  "billing.GetPricingPlan" :> Get("/billing/pricing-plans/{id}") @@
  "billing.UpdatePricingPlan" :> Put("/billing/pricing-plans/{id}")

SubscriberRequests ==
  "billing.ListSubscribers" :> Get("/billing/subscribers") @@
  "billing.GetSubscriber" :> Get("/billing/subscribers/{id}")

UserCreditRequests ==
  "billing.GetUserBalance" :> Get("/billing/users/{id}/balance") @@
  "billing.GetUserDeletedCredits" :> Get("/billing/users/{id}/deleted-credits")

UserCancellationRequests ==
  "billing.GetUserSubscribers" :> Get("/billing/users/{id}/subscribers") @@
  "billing.CancelUserSubscription" :>
    Post("/billing/users/{id}/subscriptions/cancel") @@
  "billing.AbortUserSubscriptionCancellation" :>
    Post("/billing/users/{id}/subscriptions/cancel/abort")

UserSubscriptionRequests ==
  "billing.ChangeUserPlan" :>
    Post("/billing/users/{id}/subscriptions/change-plan") @@
  "billing.PauseUserSubscription" :>
    Post("/billing/users/{id}/subscriptions/pause") @@
  "billing.ResumeUserSubscription" :>
    Post("/billing/users/{id}/subscriptions/resume")

BlockProfileRequests ==
  "pprof.GetProfileIndex" :> Get("/debug/pprof") @@
  "pprof.GetBlockProfile" :> Get("/debug/pprof/block") @@
  "pprof.SetBlockProfileRate" :> Put("/debug/pprof/block")

RuntimeProfileRequests ==
  "pprof.GetCmdline" :> Get("/debug/pprof/cmdline") @@
  "pprof.GetGoroutineProfile" :> Get("/debug/pprof/goroutine") @@
  "pprof.GetHeapProfile" :> Get("/debug/pprof/heap")

MutexProfileRequests ==
  "pprof.GetMutexProfile" :> Get("/debug/pprof/mutex") @@
  "pprof.SetMutexProfileFraction" :> Put("/debug/pprof/mutex") @@
  "pprof.GetCPUProfile" :> Get("/debug/pprof/profile")

ProfilingStatusRequests ==
  "pprof.GetStatus" :> Get("/debug/pprof/status") @@
  "pprof.GetSymbol" :> Get("/debug/pprof/symbol") @@
  "pprof.GetThreadcreate" :> Get("/debug/pprof/threadcreate") @@
  "pprof.GetTrace" :> Get("/debug/pprof/trace")

PlatformDomainRequests ==
  "domain.ListPlatformDomains" :> Get("/ipfs/platform-domains") @@
  "domain.RegisterPlatformDomain" :> Post("/ipfs/platform-domains")

PlatformDomainItemRequests ==
  "domain.DeletePlatformDomain" :> Delete("/ipfs/platform-domains/{id}") @@
  "domain.UpdatePlatformDomain" :> Patch("/ipfs/platform-domains/{id}") @@
  "domain.BindWebsiteToPlatformDomain" :>
    Post("/ipfs/platform-domains/{id}/bind")

WebsiteRequests ==
  "website.BlockWebsite" :> Post("/ipfs/websites/{id}/block") @@
  "website.UnblockWebsite" :> Post("/ipfs/websites/{id}/unblock")

AllowanceRequests ==
  "quota.ListAllowances" :> Get("/quota/allowances") @@
  "quota.CreateAllowance" :> Post("/quota/allowances")

AllowanceItemRequests ==
  "quota.DeleteAllowance" :> Delete("/quota/allowances/{id}") @@
  "quota.UpdateAllowance" :> Put("/quota/allowances/{id}")

PlanRequests ==
  "quota.ListPlans" :> Get("/quota/plans") @@
  "quota.CreatePlan" :> Post("/quota/plans")

PlanItemRequests ==
  "quota.DeletePlan" :> Delete("/quota/plans/{id}") @@
  "quota.GetPlan" :> Get("/quota/plans/{id}") @@
  "quota.UpdatePlan" :> Put("/quota/plans/{id}") @@
  "quota.SetDefaultPlan" :> Post("/quota/plans/{id}/default")

UpkeepRequests ==
  "quota.Cleanup" :> Post("/quota/system/cleanup") @@
  "quota.Reconcile" :> Post("/quota/system/reconcile") @@
  "quota.GetStats" :> Get("/quota/system/stats")

UserConfigRequests ==
  "quota.ListUserConfigs" :> Get("/quota/user-configs") @@
  "quota.UpdateUserConfig" :> Put("/quota/user-configs/{id}") @@
  "quota.ResetUserPlan" :> Delete("/quota/user-configs/{id}/plan")

SocialProviderRequests ==
  "social.ListSocialProviders" :> Get("/social/providers") @@
  "social.CreateSocialProvider" :> Post("/social/providers")

SocialProviderItemRequests ==
  "social.DeleteSocialProvider" :> Delete("/social/providers/{id}") @@
  "social.GetSocialProvider" :> Get("/social/providers/{id}") @@
  "social.UpdateSocialProvider" :> Put("/social/providers/{id}")

SocialProviderSwitchRequests ==
  "social.DisableSocialProvider" :> Post("/social/providers/{id}/disable") @@
  "social.EnableSocialProvider" :> Post("/social/providers/{id}/enable")

UserRequests ==
  "user.ListUsers" :> Get("/users") @@ "user.CreateUser" :> Post("/users")

UserItemRequests ==
  "user.DeleteUser" :> Delete("/users/{id}") @@
  "user.GetUser" :> Get("/users/{id}") @@
  "user.UpdateUser" :> Patch("/users/{id}")

ExportRequests ==
  "cid.GetDAG" :> Get("/export/cid/{id}/dag") @@
  "cid.GetSiaObject" :> Get("/export/cid/{id}/sia-object")

StatisticsRequests ==
  "stats.GetAggregate" :> Get("/stats/aggregate") @@
  "cid.GetStats" :> Get("/stats/cid/{id}") @@
  "stats.GetProtocols" :> Get("/stats/protocols")

AdminAndMetaRequests ==
  CreditListRequests @@ CreditSetRequests @@ CreditRequests @@ SyncRequests @@
  PriceLineRequests @@ PriceLineItemRequests @@ PriceLinePlanRequests @@
  PeriodRequests @@ PeriodItemRequests @@ PricingPlanRequests @@
  PricingPlanItemRequests @@ SubscriberRequests @@ UserCreditRequests @@
  UserCancellationRequests @@ UserSubscriptionRequests @@
  BlockProfileRequests @@ RuntimeProfileRequests @@ MutexProfileRequests @@
  ProfilingStatusRequests @@ PlatformDomainRequests @@
  PlatformDomainItemRequests @@ WebsiteRequests @@ AllowanceRequests @@
  AllowanceItemRequests @@ PlanRequests @@ PlanItemRequests @@
  UpkeepRequests @@ UserConfigRequests @@ SocialProviderRequests @@
  SocialProviderItemRequests @@ SocialProviderSwitchRequests @@ UserRequests @@
  UserItemRequests @@ ExportRequests @@ StatisticsRequests

-----------------------------------------------------------------------------
(* Parse...Response. *)

CreditListDecoded ==
  "billing.ListCredits" :> Protected({200})

CreditSetDecoded ==
  "billing.CreateCredit" :> Protected({200, 201}) @@
  "billing.PurgeCredits" :> Protected({200})

CreditDecoded ==
  "billing.DeleteCredit" :> Protected({}) @@
  Each({"billing.GetCredit", "billing.RestoreCredit"}, Protected({200}))

SyncDecoded ==
  "billing.ListGatewaySubscribers" :> Protected({200}) @@
  "billing.SyncPricingPlan" :> Protected({})

PriceLineDecoded ==
  "billing.ListPriceLines" :> Protected({200}) @@
  "billing.CreatePriceLine" :> Protected({201})

PriceLineItemDecoded ==
  "billing.DeletePriceLine" :> Protected({}) @@
  Each({"billing.GetPriceLine", "billing.UpdatePriceLine"}, Protected({200}))

PriceLinePlanDecoded ==
  Each({"billing.AddPlanToPriceLine", "billing.UpdatePlanPosition"},
       Protected({200})) @@
  "billing.DeletePlanFromPriceLine" :> Protected({})

PeriodDecoded ==
  "billing.ListPricingPlanPeriods" :> Protected({200}) @@
  "billing.CreatePricingPlanPeriod" :> Protected({201})

PeriodItemDecoded ==
  "billing.DeletePricingPlanPeriod" :> Protected({}) @@
  Each({"billing.GetPricingPlanPeriod", "billing.UpdatePricingPlanPeriod"},
       Protected({200}))

PricingPlanDecoded ==
  "billing.ListPricingPlans" :> Protected({200}) @@
  "billing.CreatePricingPlan" :> Protected({201}) @@
  "billing.SyncAllPricingPlans" :> Protected({})

PricingPlanItemDecoded ==
  "billing.DeletePricingPlan" :> Protected({}) @@
  Each({"billing.GetPricingPlan", "billing.UpdatePricingPlan"}, Protected({200}))

SubscriberDecoded ==
  Each({"billing.ListSubscribers", "billing.GetSubscriber"}, Protected({200}))

UserCreditDecoded ==
  Each({"billing.GetUserBalance", "billing.GetUserDeletedCredits"},
       Protected({200}))

UserCancellationDecoded ==
  Each({"billing.GetUserSubscribers", "billing.CancelUserSubscription",
        "billing.AbortUserSubscriptionCancellation"}, Protected({200}))

UserSubscriptionDecoded ==
  Each({"billing.ChangeUserPlan", "billing.PauseUserSubscription",
        "billing.ResumeUserSubscription"}, Protected({200}))

BlockProfileDecoded ==
  Each({"pprof.GetProfileIndex", "pprof.GetBlockProfile"}, Common({})) @@
  "pprof.SetBlockProfileRate" :> Common({200})

RuntimeProfileDecoded ==
  Each({"pprof.GetCmdline", "pprof.GetGoroutineProfile", "pprof.GetHeapProfile"},
       Common({}))

MutexProfileDecoded ==
  Each({"pprof.GetMutexProfile", "pprof.GetCPUProfile"}, Common({})) @@
  "pprof.SetMutexProfileFraction" :> Common({200})

ProfilingStatusDecoded ==
  "pprof.GetStatus" :> Common({200}) @@
  Each({"pprof.GetSymbol", "pprof.GetThreadcreate", "pprof.GetTrace"},
       Common({}))

PlatformDomainDecoded ==
  "domain.ListPlatformDomains" :> Protected({200}) @@
  "domain.RegisterPlatformDomain" :> Protected({200, 201})

PlatformDomainItemDecoded ==
  "domain.DeletePlatformDomain" :> Protected({}) @@
  Each({"domain.UpdatePlatformDomain", "domain.BindWebsiteToPlatformDomain"},
       Protected({200}))

WebsiteDecoded ==
  Each({"website.BlockWebsite", "website.UnblockWebsite"}, Protected({200}))

AllowanceDecoded ==
  "quota.ListAllowances" :> Common({200}) @@
  "quota.CreateAllowance" :> Common({200, 201})

AllowanceItemDecoded ==
  "quota.DeleteAllowance" :> Common({}) @@
  "quota.UpdateAllowance" :> Common({200})

PlanDecoded ==
  "quota.ListPlans" :> Common({200}) @@
  "quota.CreatePlan" :> Common({200, 201})

PlanItemDecoded ==
  Each({"quota.DeletePlan", "quota.SetDefaultPlan"}, Common({})) @@
  Each({"quota.GetPlan", "quota.UpdatePlan"}, Common({200}))

UpkeepDecoded ==
  Each({"quota.Cleanup", "quota.Reconcile", "quota.GetStats"}, Common({200}))

UserConfigDecoded ==
  Each({"quota.ListUserConfigs", "quota.UpdateUserConfig"}, Common({200})) @@
  "quota.ResetUserPlan" :> Common({})

SocialProviderDecoded ==
  "social.ListSocialProviders" :> Common({200}) @@
  "social.CreateSocialProvider" :> Common({200, 201})

SocialProviderItemDecoded ==
  "social.DeleteSocialProvider" :> Common({}) @@
  Each({"social.GetSocialProvider", "social.UpdateSocialProvider"},
       Common({200}))

SocialProviderSwitchDecoded ==
  Each({"social.DisableSocialProvider", "social.EnableSocialProvider"},
       Common({200}))

UserDecoded ==
  "user.ListUsers" :> Common({200}) @@ "user.CreateUser" :> Common({200, 201})

UserItemDecoded ==
  "user.DeleteUser" :> Common({}) @@
  Each({"user.GetUser", "user.UpdateUser"}, Common({200}))

ExportDecoded ==
  Each({"cid.GetDAG", "cid.GetSiaObject"}, MetaCodes)

StatisticsDecoded ==
  Each({"stats.GetAggregate", "cid.GetStats", "stats.GetProtocols"}, MetaCodes)

AdminAndMetaDecoded ==
  CreditListDecoded @@ CreditSetDecoded @@ CreditDecoded @@ SyncDecoded @@
  PriceLineDecoded @@ PriceLineItemDecoded @@ PriceLinePlanDecoded @@
  PeriodDecoded @@ PeriodItemDecoded @@ PricingPlanDecoded @@
  PricingPlanItemDecoded @@ SubscriberDecoded @@ UserCreditDecoded @@
  UserCancellationDecoded @@ UserSubscriptionDecoded @@ BlockProfileDecoded @@
  RuntimeProfileDecoded @@ MutexProfileDecoded @@ ProfilingStatusDecoded @@
  PlatformDomainDecoded @@ PlatformDomainItemDecoded @@ WebsiteDecoded @@
  AllowanceDecoded @@ AllowanceItemDecoded @@ PlanDecoded @@ PlanItemDecoded @@
  UpkeepDecoded @@ UserConfigDecoded @@ SocialProviderDecoded @@
  SocialProviderItemDecoded @@ SocialProviderSwitchDecoded @@ UserDecoded @@
  UserItemDecoded @@ ExportDecoded @@ StatisticsDecoded
=============================================================================
