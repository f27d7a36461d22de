----------------------------- MODULE MCPlatform ------------------------------
(* The components around jobs, credits and payments.  No two of them share   *)
(* a variable, so the first step picks the component that moves in the rest  *)
(* of the behaviour and the others stay as they start: the states are the    *)
(* sum, not the product, of those of the components.                         *)
EXTENDS TLC, Settings, Credentials, SystemUpdate, Cleanup, Quota, Accounts, Pricing

VARIABLES focus     \* the component that moves

settingsIdle == UNCHANGED settingsVars
credentialsIdle == UNCHANGED credentialsVars
updateIdle == UNCHANGED updateVars
cleanupIdle == UNCHANGED cleanupVars
smallIdle == UNCHANGED <<quotaVars, accountsVars, quote>>
platformVars == <<settingsVars, credentialsVars, updateVars, cleanupVars, quotaVars, accountsVars, quote, focus>>

PlatformInit ==
    /\ SettingsInit /\ CredentialsInit /\ UpdateInit /\ CleanupInit
    /\ QuotaInit /\ AccountsInit /\ PricingInit
    /\ focus = "none"

On(component) == focus \in {"none", component} /\ focus' = component

PlatformNext ==
    \/ On("settings") /\ SettingsNext /\ credentialsIdle /\ updateIdle /\ cleanupIdle /\ smallIdle
    \/ On("credentials") /\ CredentialsNext /\ settingsIdle /\ updateIdle /\ cleanupIdle /\ smallIdle
    \/ On("update") /\ UpdateNext /\ settingsIdle /\ credentialsIdle /\ cleanupIdle /\ smallIdle
    \/ On("cleanup") /\ CleanupNext /\ settingsIdle /\ credentialsIdle /\ updateIdle /\ smallIdle
    \/ On("quota") /\ QuotaNext /\ settingsIdle /\ credentialsIdle /\ updateIdle /\ cleanupIdle
       /\ UNCHANGED <<accountsVars, quote>>
    \/ On("accounts") /\ AccountsNext /\ settingsIdle /\ credentialsIdle /\ updateIdle /\ cleanupIdle
       /\ UNCHANGED <<quotaVars, quote>>
    \/ On("pricing") /\ PricingNext /\ settingsIdle /\ credentialsIdle /\ updateIdle /\ cleanupIdle
       /\ UNCHANGED <<quotaVars, accountsVars>>

(* The fairness of Settings asks nothing of the other components: as long as *)
(* no setting has changed, none of its fair actions is enabled.              *)
PlatformSpec == PlatformInit /\ [][PlatformNext]_platformVars /\ SettingsFairness

-----------------------------------------------------------------------------
(* Values of the constants.                                                  *)

MCOrder == <<"secretKey", "maxBytes">>
MCGroups == {{"secretKey", "maxBytes"}}
MCRank == "c1" :> 2 @@ "c2" :> 1
MCStorages == <<"bucket", "none", "bucket">>
MCSizeOf == "2048x2048" :> "2K" @@ "1024x1024" :> "1K" @@ "1920x1080" :> "none"
MCWidth == "1280x720" :> 1280 @@ "720x1280" :> 720 @@ "2560x1440" :> 2560
MCHeight == "1280x720" :> 720 @@ "720x1280" :> 1280 @@ "2560x1440" :> 1440
=============================================================================
