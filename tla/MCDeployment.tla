----------------------------- MODULE MCDeployment -----------------------------
(***************************************************************************)
(* Instances of Deployment for TLC.                                        *)
(***************************************************************************)
EXTENDS Deployment, SmallUrls

Ttl(secs) == Some(Duration(secs))
Keeping(claim) ==
  [SessionKey(TestConfigBuilder, "k") EXCEPT
    !["persist_claims"] = Some(<<Text(claim)>>),
    !["session_expiry"] = Some("Sliding")]

Release(b, wiring) == [builder |-> b, wiring |-> wiring, app_data |-> "app"]
Registered(release, app_data) == [release EXCEPT !.app_data = app_data]

Groups == Keeping("groups")
Roles == Keeping("roles")
ShortLife == [Roles EXCEPT !["max_session_lifetime"] = Ttl(4)]
FixedExpiry == [Groups EXCEPT !["session_expiry"] = Some("Fixed")]

SmallReleases ==
  {Release(Groups, "from_config"),
   Registered(Release(ShortLife, "from_config"), "scope"),
   Registered(Release(ShortLife, "new"), "scope"),
   Registered(Release(ShortLife, "cookie"), "scope"),
   Release(FixedExpiry, "uncoalesced"),
   Registered(Release(Roles, "from_config"), "nowhere"),
   Release(GenerateEphemeralSessionKey(Groups), "from_config")}

\* The lifetime is lowered from one release to the next.
LoweringReleases ==
  {Release(Groups, "from_config"), Release(ShortLife, "from_config")}

SmallGrants == {{}, {"email", "name", "refresh_token", "groups", "roles"}}
SmallFreshKeys == <<"drawn1", "drawn2", "drawn3">>

\* What ActiveUserStays is proved from.
ASSUME RenewalsAreInTime == InTime
=============================================================================
