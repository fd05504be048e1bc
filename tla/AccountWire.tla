----------------------------- MODULE AccountWire ------------------------------
(***************************************************************************)
(* The operations of account.Client on the wire, as its generated client   *)
(* sends and reads them (internal/client/client.gen.go, in its order):     *)
(* the method and path that New...Request builds (below /api, with {id}    *)
(* for a parameter), and the status codes whose JSON body Parse...Response *)
(* decodes.  Query and header parameters and bodies are left out.          *)
(***************************************************************************)
EXTENDS OperationTables

-----------------------------------------------------------------------------
(* New...Request. *)

AccountRequests ==
  "DeleteAccount" :> Delete("/account") @@ "GetAccount" :> Get("/account") @@
  "UpdateProfile" :> Patch("/account")

SocialDirectoryRequests ==
  "ListSocialLinks" :> Get("/account/auth/links") @@
  "ListSocialProviders" :> Get("/account/auth/providers")

SocialEntryRequests ==
  "UnlinkSocialProvider" :> Delete("/account/auth/sso/{id}") @@
  "SocialLogin" :> Get("/account/auth/sso/{id}")

SocialGrantRequests ==
  "SocialConsent" :> Post("/account/auth/sso/{id}/consent") @@
  "LinkSocialProvider" :> Post("/account/auth/sso/{id}/link") @@
  "SocialLogout" :> Get("/account/auth/sso/{id}/logout")

AvatarRequests ==
  "GetAvatar" :> Get("/account/avatar") @@
  "UploadAvatar" :> Post("/account/avatar")

CancellationRequests ==
  "GetBalance" :> Get("/account/billing/balance") @@
  "CancelSubscription" :> Post("/account/billing/cancel") @@
  "AbortSubscriptionCancellation" :> Post("/account/billing/cancel/abort")

PlanChangeRequests ==
  "ChangePlan" :> Post("/account/billing/change-plan") @@
  "GetCheckoutSessionStatus" :>
    Get("/account/billing/checkout/session/{id}/status")

CheckoutRequests ==
  "GetCheckoutUI" :> Get("/account/billing/checkout/ui/{id}") @@
  "ListCredits" :> Get("/account/billing/credits")

ManagementRequests ==
  "GetCustomerPortalURL" :> Post("/account/billing/customer-portal") @@
  "ManageBilling" :> Post("/account/billing/management") @@
  "GetManagementCapabilities" :>
    Get("/account/billing/management/capabilities")

PauseRequests ==
  "PauseBilling" :> Post("/account/billing/pause") @@
  "ResumeBilling" :> Post("/account/billing/resume") @@
  "GetSubscriptionStatus" :> Get("/account/billing/subscription")

WebhookRequests ==
  "HandleWebhook" :> Post("/account/billing/webhooks/{id}")

KeyRequests ==
  "ListAPIKeys" :> Get("/account/keys") @@
  "CreateAPIKey" :> Post("/account/keys") @@
  "DeleteAPIKey" :> Delete("/account/keys/{id}")

ResetRequests ==
  "ConfirmPasswordReset" :> Post("/account/password-reset/confirm") @@
  "RequestPasswordReset" :> Post("/account/password-reset/request")

QuotaRequests ==
  "GetPermissions" :> Get("/account/permissions") @@
  "GetQuota" :> Get("/account/quota") @@
  "GetQuotaHistory" :> Get("/account/quota/history")

CredentialRequests ==
  "UpdateEmail" :> Post("/account/update-email") @@
  "UpdatePassword" :> Post("/account/update-password")

VerificationRequests ==
  "VerifyEmail" :> Post("/account/verify-email") @@
  "ResendVerifyEmail" :> Post("/account/verify-email/resend") @@
  "LoginWithAPIKey" :> Post("/auth/key")

LoginRequests ==
  "Login" :> Post("/auth/login")

OTPRequests ==
  "DisableOTP" :> Post("/auth/otp/disable") @@
  "GenerateOTP" :> Post("/auth/otp/generate") @@
  "ValidateOTP" :> Post("/auth/otp/validate") @@
  "VerifyOTP" :> Post("/auth/otp/verify")

SessionRequests ==
  "Ping" :> Post("/auth/ping") @@ "Register" :> Post("/auth/register")

GatewayRequests ==
  "ListBillingGateways" :> Get("/billing/gateways") @@
  "GetGatewayLogo" :> Get("/billing/gateways/{id}/logo") @@
  "ListPricingPlans" :> Get("/billing/plans")

OperationListRequests ==
  "ListOperations" :> Get("/operations")

OperationRequests ==
  "GetOperationFilters" :> Get("/operations/filters") @@
  "GetOperation" :> Get("/operations/{id}") @@
  "UploadLimit" :> Get("/upload-limit")

AccountClientRequests ==
  AccountRequests @@ SocialDirectoryRequests @@ SocialEntryRequests @@
  SocialGrantRequests @@ AvatarRequests @@ CancellationRequests @@
  PlanChangeRequests @@ CheckoutRequests @@ ManagementRequests @@
  PauseRequests @@ WebhookRequests @@ KeyRequests @@ ResetRequests @@
  QuotaRequests @@ CredentialRequests @@ VerificationRequests @@
  LoginRequests @@ OTPRequests @@ SessionRequests @@ GatewayRequests @@
  OperationListRequests @@ OperationRequests

-----------------------------------------------------------------------------
(* Parse...Response. *)

AccountDecoded ==
  "DeleteAccount" :> Common({}) @@ "GetAccount" :> Protected({200}) @@
  "UpdateProfile" :> Protected({})

SocialDirectoryDecoded ==
  Each({"ListSocialLinks", "ListSocialProviders"}, Common({200}))

SocialEntryDecoded ==
  Each({"UnlinkSocialProvider", "SocialLogin"}, Common({200}))

SocialGrantDecoded ==
  Each({"SocialConsent", "LinkSocialProvider", "SocialLogout"}, Common({200}))

AvatarDecoded ==
  "GetAvatar" :> Common({}) @@ "UploadAvatar" :> Common({200})

CancellationDecoded ==
  Each({"GetBalance", "CancelSubscription", "AbortSubscriptionCancellation"},
       Protected({200}))

PlanChangeDecoded ==
  "ChangePlan" :> Protected({200}) @@
  "GetCheckoutSessionStatus" :> Protected({200, 501})

CheckoutDecoded ==
  "GetCheckoutUI" :> Protected({200, 409}) @@ "ListCredits" :> Protected({200})

ManagementDecoded ==
  Each({"GetCustomerPortalURL", "ManageBilling", "GetManagementCapabilities"},
       Protected({200}))

PauseDecoded ==
  Each({"PauseBilling", "ResumeBilling", "GetSubscriptionStatus"},
       Protected({200}))

WebhookDecoded ==
  "HandleWebhook" :> Protected({200, 413})

KeyDecoded ==
  Each({"ListAPIKeys", "CreateAPIKey"}, Common({200})) @@
  "DeleteAPIKey" :> Common({})

ResetDecoded ==
  "ConfirmPasswordReset" :> Common({}) @@
  "RequestPasswordReset" :> Protected({})

QuotaDecoded ==
  Each({"GetPermissions", "GetQuota", "GetQuotaHistory"}, Common({200}))

CredentialDecoded ==
  Each({"UpdateEmail", "UpdatePassword"}, Common({}))

VerificationDecoded ==
  Each({"VerifyEmail", "ResendVerifyEmail"}, Common({})) @@
  "LoginWithAPIKey" :> Protected({200})

LoginDecoded ==
  "Login" :> Protected({200})

OTPDecoded ==
  Each({"DisableOTP", "VerifyOTP"}, Common({200})) @@
  "GenerateOTP" :> Protected({200}) @@ "ValidateOTP" :> Protected({})

SessionDecoded ==
  "Ping" :> Protected({200}) @@ "Register" :> Protected({409})

GatewayDecoded ==
  Each({"ListBillingGateways", "ListPricingPlans"}, Protected({200})) @@
  "GetGatewayLogo" :> Protected({})

OperationListDecoded ==
  "ListOperations" :> Common({200})

OperationDecoded ==
  Each({"GetOperationFilters", "GetOperation", "UploadLimit"}, Common({200}))

AccountClientDecoded ==
  AccountDecoded @@ SocialDirectoryDecoded @@ SocialEntryDecoded @@
  SocialGrantDecoded @@ AvatarDecoded @@ CancellationDecoded @@
  PlanChangeDecoded @@ CheckoutDecoded @@ ManagementDecoded @@ PauseDecoded @@
  WebhookDecoded @@ KeyDecoded @@ ResetDecoded @@ QuotaDecoded @@
  CredentialDecoded @@ VerificationDecoded @@ LoginDecoded @@ OTPDecoded @@
  SessionDecoded @@ GatewayDecoded @@ OperationListDecoded @@ OperationDecoded
=============================================================================
