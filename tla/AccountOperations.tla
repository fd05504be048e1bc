------------------------- MODULE AccountOperations -------------------------
(***************************************************************************)
(* The operations of account.Client (account.go), in its order: how each   *)
(* handles its response, and httpErrorMessages.  The operations that use   *)
(* validateJSON200 do so without an operation, and find no message.        *)
(***************************************************************************)
EXTENDS OperationTables

AuthCalls ==
  "Login" :> Data({200, 302}) @@ "LoginWithAPIKey" :> Data({200}) @@
  "ValidateOTP" :> Data({302}) @@ "Ping" :> Status({200}) @@
  "GenerateOTP" :> Data({200}) @@ "VerifyOTP" :> Status({204}) @@
  "DisableOTP" :> Status({204}) @@ "Register" :> Status({200, 201}) @@
  "VerifyEmail" :> Status({200}) @@ "ResendVerifyEmail" :> Status({200})

KeyCalls ==
  "CreateAPIKey" :> Validated @@ "ListAPIKeys" :> Bare("data") @@
  "DeleteAPIKey" :> Bare("nothing")

OperationCalls ==
  "DeleteAccount" :> Status({200}) @@ "UploadLimit" :> Validated @@
  "GetOperation" :> Validated @@ "ListOperations" :> Validated @@
  "GetOperationFilters" :> Validated

ProfileCalls ==
  "RequestPasswordReset" :> Status({200}) @@ "ConfirmPasswordReset" :> Status({200}) @@
  "UpdatePassword" :> Status({200}) @@ "GetAccount" :> Unchecked @@
  "UpdateProfile" :> Status({200}) @@ "GetAvatar" :> Raw({200}) @@
  "UploadAvatar" :> Status({200, 204}) @@ "UpdateEmail" :> Status({200}) @@
  "GetPermissions" :> Unchecked

QuotaCalls ==
  "GetQuota" :> Data({200}) @@ "GetQuotaHistory" :> Data({200})

CheckoutCalls ==
  "GetBalance" :> Data({200}) @@ "ListCredits" :> Data({200}) @@
  "GetCheckoutUI" :> Data({200}) @@ "GetManagementCapabilities" :> Data({200}) @@
  "GetSubscriptionStatus" :> Data({200}) @@ "ManageBilling" :> Data({200})

SubscriptionCalls ==
  "CancelSubscription" :> Data({200}) @@ "AbortSubscriptionCancellation" :> Data({200}) @@
  "ChangePlan" :> Data({200}) @@ "PauseBilling" :> Data({200}) @@
  "ResumeBilling" :> Data({200}) @@ "GetCheckoutSessionStatus" :> Data({200}) @@
  "GetCustomerPortalURL" :> Data({200})

GatewayCalls ==
  "HandleWebhook" :> Status({200}) @@ "ListBillingGateways" :> Data({200}) @@
  "GetGatewayLogo" :> Raw({200}) @@ "ListPricingPlans" :> Data({200})

SocialCalls ==
  "ListSocialProviders" :> Data({200}) @@ "ListSocialLinks" :> Data({200}) @@
  "SocialLogin" :> Data({302}) @@ "SocialLogout" :> Status({307}) @@
  "LinkSocialProvider" :> Data({302}) @@ "UnlinkSocialProvider" :> Status({204}) @@
  "SocialConsent" :> Data({200})

AccountCalls ==
  AuthCalls @@ KeyCalls @@ OperationCalls @@ ProfileCalls @@ QuotaCalls @@
  CheckoutCalls @@ SubscriptionCalls @@ GatewayCalls @@ SocialCalls

-----------------------------------------------------------------------------
(* httpErrorMessages: the sentinel each operation's own message wraps. *)

ProfileMessages ==
  "Login" :> Auth @@
  "ValidateOTP" :> (PlainAt({400}) @@ Auth) @@
  "Ping" :> Auth @@
  "GenerateOTP" :> Auth @@
  "VerifyOTP" :> (Auth @@ PlainAt({400})) @@
  "DisableOTP" :> Auth @@
  "LoginWithAPIKey" :> (Auth @@ PlainAt({403})) @@
  "Register" :> PlainAt({409}) @@
  "VerifyEmail" :> (PlainAt({400}) @@ Missing) @@
  "ResendVerifyEmail" :> (PlainAt({400}) @@ Missing) @@
  "DeleteAccount" :> (Auth @@ PlainAt({400, 404, 409})) @@
  "RequestPasswordReset" :> (PlainAt({400}) @@ Missing) @@
  "ConfirmPasswordReset" :> (PlainAt({400}) @@ Missing) @@
  "UpdatePassword" :> (Auth @@ PlainAt({400}) @@ Missing) @@
  "GetAccount" :> (Auth @@ PlainAt({404})) @@
  "UpdateProfile" :> (Auth @@ PlainAt({400}) @@ Missing) @@
  "GetAvatar" :> (Bad @@ PlainAt({404})) @@
  "UploadAvatar" :> (Bad @@ Missing) @@
  "UpdateEmail" :> (Auth @@ PlainAt({400}) @@ Missing) @@
  "GetPermissions" :> (Bad @@ PlainAt({404})) @@
  "GetQuota" :> (Auth @@ Bad @@ PlainAt({404})) @@
  "GetQuotaHistory" :> (Auth @@ PlainAt({400, 404}))

BillingMessages ==
  "GetBalance" :> (Auth @@ PlainAt({404})) @@
  "ListCredits" :> (Auth @@ PlainAt({400})) @@
  "GetManagementCapabilities" :> (Auth @@ PlainAt({404})) @@
  "GetSubscriptionStatus" :> (Auth @@ PlainAt({404})) @@
  "HandleWebhook" :> PlainAt({400}) @@
  "ListBillingGateways" :> (Auth @@ PlainAt({500})) @@
  "GetGatewayLogo" :> (Bad @@ Auth @@ Denied @@ PlainAt({404, 500})) @@
  "ListPricingPlans" :> (PlainAt({400, 500}) @@ Auth @@ Denied @@ Missing) @@
  "GetCheckoutSessionStatus" :> (Auth @@ PlainAt({404}) @@ Bad) @@
  Each({"AbortSubscriptionCancellation", "PauseBilling", "ResumeBilling"},
       Auth @@ Denied @@ PlainAt({400, 404})) @@
  Each({"GetCheckoutUI", "ManageBilling", "CancelSubscription", "ChangePlan",
        "GetCustomerPortalURL"}, Auth @@ PlainAt({400, 404}))

SocialMessages ==
  "ListSocialProviders" :> (PlainAt({400}) @@ Missing) @@
  "ListSocialLinks" :> Auth @@
  "SocialLogin" :> (Bad @@ Missing) @@
  "SocialLogout" :> PlainAt({400}) @@
  "LinkSocialProvider" :> (Auth @@ Bad @@ Missing) @@
  "UnlinkSocialProvider" :> (Auth @@ Missing) @@
  "SocialConsent" :> (PlainAt({400}) @@ Missing)

AccountMessages == ProfileMessages @@ BillingMessages @@ SocialMessages
=============================================================================
