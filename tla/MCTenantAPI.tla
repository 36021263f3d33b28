---------------------------- MODULE MCTenantAPI ----------------------------
(***************************************************************************)
(* Two tenants, two handlers, and one workload for each part of the API;   *)
(* the operator's two start with an empty database.                        *)
(***************************************************************************)
EXTENDS TenantAPI, TLC

CONSTANTS acme, bolt, ka, ka2, kb, idem1, alice, bob, carol, dave, r1, r2, n1, n2,
          ea, eb, xa, f1, f2, f3, f4, k1, k2, k3, k4, low, high, bad,
          ada, bisi, eve, zoe, operator, ref1, ref2

MCKeyOwner == (ka :> acme) @@ (ka2 :> acme) @@ (kb :> bolt)
              @@ (k1 :> f1) @@ (k2 :> f2) @@ (k3 :> f3) @@ (k4 :> f4)

MCRegistered ==
    (alice :> [tenant |-> acme, ref |-> r1, tier |-> 1])
    @@ (bob :> [tenant |-> bolt, ref |-> r1, tier |-> 1])
    @@ (carol :> None) @@ (dave :> None)

MCEndpointOwner == (ea :> acme) @@ (eb :> bolt)

MCEventTenant == xa :> acme

Ask(op, key, idem, on, arg) == [op |-> op, key |-> key, idem |-> idem, on |-> on, arg |-> arg]

Input(identity, tier) == [identity |-> identity, tier |-> tier]

\* The same key for two operations, and the keys of the API themselves.
Retried ==
    {Ask("provision_va", ka, idem1, alice, None),
     Ask("get_va", ka, idem1, alice, None),
     Ask("create_key", ka, idem1, None, None),
     Ask("revoke_key", ka2, None, ka, None),
     Ask("revoke_key", ka, None, kb, None)}

\* Every operation on the status of an account.
Lifecycle ==
    {Ask(op, ka, None, alice, None) :
        op \in {"provision_va", "close_va", "suspend_va", "unsuspend_va"}}

\* With a request of the other tenant for each of the two ways a missing customer is
\* answered.
Renames ==
    {Ask("provision_va", ka, None, alice, None), Ask("get_va", ka, None, alice, None),
     Ask("rename_va", ka, None, alice, n1), Ask("rename_va", ka, None, alice, n2),
     Ask("rename_va", kb, None, alice, n2), Ask("close_va", kb, None, alice, None)}

Enrolment ==
    {Ask("create_customer", ka, None, r2, Input(TRUE, 1)),
     Ask("create_customer", ka, None, r1, Input(TRUE, 2)),
     Ask("create_customer", ka, None, r2, Input(FALSE, 2)),
     Ask("kyc_tier_change", ka, None, alice, Input(TRUE, 3)),
     Ask("kyc_tier_change", ka, None, alice, Input(TRUE, 2)),
     Ask("kyc_tier_change", ka, None, alice, Input(TRUE, 4)),
     Ask("kyc_tier_change", kb, None, alice, Input(TRUE, 2))}

Relayed ==
    {Ask("create_endpoint", ka, None, None, None), Ask("create_endpoint", kb, None, None, None),
     Ask("replay", ka, None, None, None), Ask("replay", kb, None, None, None)}

MCDemoUsers == <<ada, bisi>>

MCDemoCustomers == <<ref1, ref2>>

\* Two well-formed values, one that is not and none; and tenants whose users may
\* already be known, are the demo users or are named twice.
Settings == {Ask("put_limits", None, None, None, v) : v \in {low, high, bad, None}}

Onboarding ==
    {Ask("onboard", None, None, None, users) :
        users \in {<<eve, eve, zoe>>, <<zoe>>, <<eve, ada>>, MCDemoUsers, <<>>}}
    \cup {Ask("onboard_admin", None, None, eve, None)}

APIWorkloads ==
    {Retried, Lifecycle, Renames, Enrolment, Relayed, Settings, Onboarding}

LifecycleOnly == {Lifecycle}
=============================================================================
